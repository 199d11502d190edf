------------------------------ MODULE Callback ------------------------------
(***************************************************************************)
(* callback_data: NewCallback and ParseCallback of callback.go, the        *)
(* buttons of keyboards.go and the dispatch of handleCallback.             *)
(*                                                                         *)
(* callback_data is a sequence of tokens; a token stands for the           *)
(* characters of an action, a decimal number, a date or a separator.  A    *)
(* button keeps, beside its data, what it was made from.  Labels and rows  *)
(* are layout and are left out.                                            *)
(***************************************************************************)
EXTENDS Text

Actions == {"svc", "day", "slot", "ok", "cxl", "acxl", "aday", "bsvc", "bday", "noop"}

Token(kind, value) == [kind |-> kind, value |-> value]

Word(action) == Token(action, 0)
Int64(n)     == Token("int", n)      \* strconv.FormatInt
Date(d)      == Token("date", d)     \* domain.FormatDay
Sep          == Token(":", 0)

Tokens == [kind : Actions \union {"int", "date", ":"}, value : Int]

(* Bytes of a token: 20 are enough for any int64.                          *)
Width(token) ==
    IF token.kind = "int" THEN 20
    ELSE IF token.kind = "date" THEN 10
    ELSE IF token.kind \in {"slot", "acxl", "aday", "bsvc", "bday", "noop"} THEN 4
    ELSE IF token.kind \in {"svc", "day", "cxl"} THEN 3
    ELSE IF token.kind = "ok" THEN 2
    ELSE 1

Bytes(data) == FoldLeft(LAMBDA n, token : n + Width(token), 0, data)

(* Mutant: arguments are joined without a separator between them.          *)
MutantNewCallback(action, args) ==
    IF args = <<>> THEN <<Word(action)>> ELSE <<Word(action), Sep>> \o args

(* Arguments are single tokens here: ids, dates and page numbers.          *)
NewCallback(action, args) ==
    <<Word(action)>> \o FlattenSeq([i \in DOMAIN args |-> <<Sep, args[i]>>])

(* No data at all is an error.                                             *)
ParseCallback(data) ==
    LET parts == Split(data, Sep) IN [action |-> Head(parts), args |-> Tail(parts)]

Arg(cb, i) == IF i > Len(cb.args) THEN <<>> ELSE cb.args[i]

(* IntArg or ParseDay of an argument succeeds.                             *)
Is(kind, raw) == Len(raw) = 1 /\ raw[1].kind = kind

-----------------------------------------------------------------------------
(* The dispatch: which handler runs and with what.                         *)

Call(on, int, date, page) == [on |-> on, int |-> int, date |-> date, page |-> page]

Ignored == Call("ignored", 0, 0, 0)

(* The page of onAdminDay: the first unless a number that is not negative  *)
(* is given.                                                               *)
Page(raw) == IF Is("int", raw) /\ raw[1].value \in Nat THEN raw[1].value ELSE 0

(* handleCallback, with what its handlers make of the arguments before     *)
(* anything else: an argument that does not parse ends the handler.        *)
Dispatch(data) ==
    IF data = <<>> THEN Ignored
    ELSE LET cb == ParseCallback(data)
             Says(action) == cb.action = <<Word(action)>>
         IN CASE \E a \in {"svc", "bday", "slot", "ok", "cxl", "acxl"} : Says(a) ->
                     IF Is("int", Arg(cb, 1))
                     THEN Call(cb.action[1].kind, Arg(cb, 1)[1].value, 0, 0)
                     ELSE Ignored
              [] Says("day") ->
                     IF Is("int", Arg(cb, 1)) /\ Is("date", Arg(cb, 2))
                     THEN Call("day", Arg(cb, 1)[1].value, Arg(cb, 2)[1].value, 0)
                     ELSE Ignored
              [] Says("aday") ->
                     IF Is("date", Arg(cb, 1))
                     THEN Call("aday", 0, Arg(cb, 1)[1].value, Page(Arg(cb, 2)))
                     ELSE Ignored
              [] Says("bsvc") -> Call("bsvc", 0, 0, 0)
              [] OTHER -> Ignored

-----------------------------------------------------------------------------
(* Buttons: data, and the call they are made for.                          *)
Calls == [on : Actions \union {"ignored"}, int : Int, date : Int, page : Int]

Buttons == [data : Seq(Tokens), call : Calls]

Button(action, args, call) == [data |-> NewCallback(action, args), call |-> call]

ServiceButton(svc) == Button("svc", <<Int64(svc)>>, Call("svc", svc, 0, 0))
DayButton(svc, d)  == Button("day", <<Int64(svc), Date(d)>>, Call("day", svc, d, 0))
SlotButton(slot)   == Button("slot", <<Int64(slot)>>, Call("slot", slot, 0, 0))
ConfirmButton(s)   == Button("ok", <<Int64(s)>>, Call("ok", s, 0, 0))
ToServices         == Button("bsvc", <<>>, Call("bsvc", 0, 0, 0))
ToDays(svc)        == Button("bday", <<Int64(svc)>>, Call("bday", svc, 0, 0))
CancelButton(b)    == Button("cxl", <<Int64(b)>>, Call("cxl", b, 0, 0))
AdminCancelButton(b) == Button("acxl", <<Int64(b)>>, Call("acxl", b, 0, 0))
AdminDayButton(d)  == Button("aday", <<Date(d)>>, Call("aday", 0, d, 0))
PageButton(d, p)   == Button("aday", <<Date(d), Int64(p)>>, Call("aday", 0, d, p))
PageNumber         == Button("noop", <<>>, Ignored)

Each(Btn(_), s) == [i \in DOMAIN s |-> Btn(s[i])]

servicesKeyboard(services) == Each(ServiceButton, services)

daysKeyboard(svc, days) ==
    [i \in DOMAIN days |-> DayButton(svc, days[i])] \o <<ToServices>>

slotsKeyboard(svc, slots) == Each(SlotButton, slots) \o <<ToDays(svc)>>

confirmKeyboard(slot, svc) == <<ConfirmButton(slot), ToDays(svc)>>

myBookingsKeyboard(list) == Each(CancelButton, list)

adminDaysKeyboard(days) == Each(AdminDayButton, days)

adminCancelKeyboard(list) == Each(AdminCancelButton, list)

(* The cancel buttons of a page and the way to its neighbours.             *)
adminPageKeyboard(list, d, page, total) ==
    adminCancelKeyboard(list) \o
    IF total <= 1 THEN <<>>
    ELSE (IF page > 0 THEN <<PageButton(d, page - 1)>> ELSE <<>>)
         \o <<PageNumber>>
         \o (IF page < total - 1 THEN <<PageButton(d, page + 1)>> ELSE <<>>)
=============================================================================
