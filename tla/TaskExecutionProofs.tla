------------------------ MODULE TaskExecutionProofs ------------------------
(***************************************************************************)
(* Proofs about TaskExecution, for any accounts, limits, costs, presets    *)
(* and plans.  A call that is out has room under every limit for what it   *)
(* will be recorded with; every step of the workflow either asks while no  *)
(* call is out or leaves the books alone.                                  *)
(***************************************************************************)
EXTENDS TaskExecution, TLAPS

\* What is recorded stays within the limits.
Within ==
    /\ total <= MaxTotal
    /\ \A k \in DOMAIN Limit : calls[k] <= Limit[k]

\* What one answer may cost beyond its estimate.
Spent ==
    \E cost \in Costs : tokens + reserved <= MaxTokens + (IF cost = 0 THEN 0 ELSE cost - 1)

\* A call of GLM has no reservation, yet room for one.
Room == IF callee = "glm-flash" THEN 1 ELSE 0

\* The call that is out was allowed, and nothing was recorded since.
HasRoom ==
    callee # None =>
        /\ total < MaxTotal
        /\ callee \in DOMAIN Limit => calls[callee] < Limit[callee]
        /\ tokens + reserved + Room <= MaxTokens

\* Only call_executor_luna has two reservations for one call.
Nested == forLuna => callee = "luna"

Books == CallsTypeOK /\ Within /\ Spent /\ HasRoom /\ Nested /\ ReservedIsAccountedFor

-----------------------------------------------------------------------------
(* The accounts. *)

LEMMA AccountsNext ==
    ASSUME AccountsTypeOK, Len(Accounts) \in Nat \ {0}, DOMAIN Accounts = 1..Len(Accounts)
    PROVE  /\ HandlePossibleError => AccountsTypeOK'
           /\ \A a : MarkSuccess(a) => AccountsTypeOK'
           /\ CooldownEnds => AccountsTypeOK'
<1>1. ASSUME HandlePossibleError PROVE AccountsTypeOK'
  <2>1. current % Len(Accounts) \in 0..(Len(Accounts) - 1)
    BY DEF AccountsTypeOK
  <2>2. current' \in DOMAIN Accounts
    BY <1>1, <2>1 DEF HandlePossibleError
  <2>3. Accounts[current] \in Names
    BY DEF Names, AccountsTypeOK
  <2> QED BY <1>1, <2>2, <2>3 DEF HandlePossibleError, AccountsTypeOK, Names
<1>2. ASSUME NEW a, MarkSuccess(a) PROVE AccountsTypeOK'
  BY <1>2 DEF MarkSuccess, AccountsTypeOK, Names
<1>3. ASSUME CooldownEnds PROVE AccountsTypeOK'
  BY <1>3 DEF CooldownEnds, AccountsTypeOK, Names
<1> QED BY <1>1, <1>2, <1>3

LEMMA AccountsLength ==
    Len(Accounts) \in Nat \ {0} /\ DOMAIN Accounts = 1..Len(Accounts)
  BY AccountsAssumption

-----------------------------------------------------------------------------
(* Asking and answering. *)

LEMMA NoneIsNoAgent == None \notin {"luna", "glm-flash"}
  BY CallsAssumption DEF Agents, Codex

\* Whoever is within the limit of tokens has spent no more than allowed.
LEMMA WithinTokens ==
    tokens \in Nat /\ reserved \in Nat /\ tokens + reserved <= MaxTokens => Spent
<1> SUFFICES ASSUME tokens \in Nat, reserved \in Nat, tokens + reserved <= MaxTokens PROVE Spent
  OBVIOUS
<1>1. PICK cost \in Costs : cost \in Nat
  BY CallsAssumption
<1>2. (IF cost = 0 THEN 0 ELSE cost - 1) \in Nat
  BY <1>1
<1>3. MaxTokens \in Nat
  BY CallsAssumption
<1>4. tokens + reserved <= MaxTokens + (IF cost = 0 THEN 0 ELSE cost - 1)
  BY <1>2, <1>3
<1> QED BY <1>4 DEF Spent

LEMMA SpentNext ==
    tokens' \in Nat /\ reserved' \in Nat /\ tokens' + reserved' <= MaxTokens => Spent'
<1>1. (tokens \in Nat /\ reserved \in Nat /\ tokens + reserved <= MaxTokens => Spent)'
  BY WithinTokens, PTL
<1> QED BY <1>1

LEMMA BooksInit == CallsInit => Books
<1> SUFFICES ASSUME CallsInit PROVE Books
  OBVIOUS
<1>1. CallsTypeOK
  <2>1. AccountsTypeOK
    BY DEF CallsInit, AccountsInit, AccountsTypeOK
  <2>2. 0 \in 0..Len(Accounts)
    BY AccountsLength
  <2> QED BY <2>1, <2>2 DEF CallsInit, CallsTypeOK
<1>2. Within
  BY CallsAssumption DEF CallsInit, Within, Keys
<1>3. Spent
  BY WithinTokens, CallsAssumption DEF CallsInit
<1>4. HasRoom /\ Nested /\ ReservedIsAccountedFor
  BY DEF CallsInit, HasRoom, Nested, ReservedIsAccountedFor
<1> QED BY <1>1, <1>2, <1>3, <1>4 DEF Books

\* A call that is refused or blocked before anybody was called.
LEMMA ReturnKeepsBooks ==
    ASSUME Books, NEW value \in Results, Return(value)
    PROVE  Books'
<1>1. CallsTypeOK'
  BY DEF Books, CallsTypeOK, AccountsTypeOK, Return, accountVars, budget
<1>2. (Within /\ Spent /\ HasRoom /\ Nested /\ ReservedIsAccountedFor)'
  BY DEF Books, Within, Spent, HasRoom, Room, Nested, ReservedIsAccountedFor, Return, budget
<1> QED BY <1>1, <1>2 DEF Books

\* A call that goes out with the reservations it was allowed to make.
LEMMA InvokeKeepsBooks ==
    ASSUME Books, callee = None, NEW a \in Agents, NEW held \in Nat,
           Invoke(a, held), forLuna' \in BOOLEAN, forLuna' => a = "luna",
           held = (IF a = "glm-flash" THEN 0 ELSE 1) + (IF forLuna' THEN 1 ELSE 0),
           total < MaxTotal, a \in DOMAIN Limit => calls[a] < Limit[a],
           tokens + reserved + held + (IF a = "glm-flash" THEN 1 ELSE 0) <= MaxTokens
    PROVE  Books'
<1> USE CallsAssumption
<1>1. CallsTypeOK'
  BY DEF Books, CallsTypeOK, AccountsTypeOK, Invoke, accountVars, budget, Agents, Names
<1>2. Within'
  BY DEF Books, Within, Invoke, budget
<1>3. Spent'
  <2>1. tokens' + reserved' <= MaxTokens
    BY DEF Invoke, budget, Books, CallsTypeOK
  <2> QED BY <2>1, <1>1, SpentNext DEF CallsTypeOK
<1>4. HasRoom'
  BY DEF Books, CallsTypeOK, HasRoom, Room, Invoke, budget
<1>5. Nested'
  BY DEF Nested, Invoke
<1>6. ReservedIsAccountedFor'
  <2>1. forLuna = FALSE /\ reserved = lunas
    BY NoneIsNoAgent DEF Books, CallsTypeOK, ReservedIsAccountedFor, Nested
  <2>2. reserved' = reserved + held /\ lunas' = lunas /\ callee' = a
    BY DEF Invoke
  <2>3. lunas \in Nat /\ a # None
    BY DEF Books, CallsTypeOK
  <2> QED BY <2>1, <2>2, <2>3 DEF ReservedIsAccountedFor
<1> QED BY <1>1, <1>2, <1>3, <1>4, <1>5, <1>6 DEF Books

\* What a caller knows when it has asked: the books are in order, and either
\* the call is out or it is refused or blocked.
LEMMA AskKeepsBooks ==
    ASSUME Books, callee = None, NEW a \in Agents, Ask(a)
    PROVE  /\ Books'
           /\ \/ callee' \in Agents /\ result' = None
              \/ callee' = None /\ result' \in {"BUDGET", "BLOCKED"}
<1> USE DEF Results, Raised
<1> callee # None => FALSE
  OBVIOUS
<1>1. ASSUME NEW b \in Agents \ {"glm-flash"}, AskCodex(b)
      PROVE  /\ Books'
             /\ \/ callee' \in Agents /\ result' = None
                \/ callee' = None /\ result' \in {"BUDGET", "BLOCKED"}
  <2>1. CASE Allowed(b) /\ Invoke(b, 1) /\ UNCHANGED forLuna
    <3>1. forLuna' = FALSE
      BY <2>1, NoneIsNoAgent DEF Books, Nested, CallsTypeOK
    <3>2. total < MaxTotal /\ (b \in DOMAIN Limit => calls[b] < Limit[b]) /\ tokens + reserved + 1 <= MaxTokens
      BY <2>1 DEF Allowed, Fits
    <3>3. tokens \in Nat /\ reserved \in Nat /\ MaxTokens \in Nat
      BY CallsAssumption DEF Books, CallsTypeOK
    <3>4. tokens + reserved + 1 + (IF b = "glm-flash" THEN 1 ELSE 0) <= MaxTokens
      BY <1>1, <3>2, <3>3
    <3>5. 1 = (IF b = "glm-flash" THEN 0 ELSE 1) + (IF forLuna' THEN 1 ELSE 0)
      BY <1>1, <3>1
    <3>6. Books'
      BY <2>1, <1>1, <3>1, <3>2, <3>4, <3>5, InvokeKeepsBooks
    <3> QED BY <3>6, <2>1 DEF Invoke
  <2>2. CASE ~Allowed(b) /\ Return("BUDGET")
    BY <2>2, ReturnKeepsBooks DEF Return
  <2> QED BY <1>1, <2>1, <2>2 DEF AskCodex
<1>2. CASE a = "agy"
  <2>1. CASE mode.strict /\ Return("BUDGET")
    BY <2>1, ReturnKeepsBooks DEF Return
  <2>2. CASE AskCodex("agy")
    BY <2>2, <1>1 DEF Agents
  <2> QED BY <1>2, <2>1, <2>2 DEF Ask, AskAgy
<1>3. CASE a = "glm-flash"
  <2>1. CASE Return("BUDGET") \/ Return("BLOCKED")
    BY <2>1, ReturnKeepsBooks DEF Return
  <2>2. CASE Allowed("glm-flash") /\ Invoke("glm-flash", 0) /\ UNCHANGED forLuna
    <3>1. forLuna' = FALSE
      BY <2>2, NoneIsNoAgent DEF Books, Nested, CallsTypeOK
    <3>2. /\ total < MaxTotal
          /\ "glm-flash" \in DOMAIN Limit => calls["glm-flash"] < Limit["glm-flash"]
          /\ tokens + reserved + 0 + 1 <= MaxTokens
      BY <2>2, CallsAssumption DEF Allowed, Fits, Books, CallsTypeOK
    <3>3. 0 = (IF a = "glm-flash" THEN 0 ELSE 1) + (IF forLuna' THEN 1 ELSE 0)
      BY <1>3, <3>1
    <3>4. tokens + reserved + 0 + (IF a = "glm-flash" THEN 1 ELSE 0) <= MaxTokens
      BY <1>3, <3>2
    <3>5. Books'
      BY <2>2, <1>3, <3>1, <3>2, <3>3, <3>4, InvokeKeepsBooks
    <3> QED BY <3>5, <2>2 DEF Invoke, Agents
  <2> QED BY <1>3, <2>1, <2>2 DEF Ask, AskGlm
<1>4. CASE a = "luna"
  <2>1. CASE AskCodex("ds-flash")
    BY <2>1, <1>1 DEF Agents, Codex
  <2>2. CASE Return("BUDGET") \/ Return("BLOCKED")
    BY <2>2, ReturnKeepsBooks DEF Return
  <2>3. CASE Fits("luna", reserved + 1) /\ Invoke("luna", 2) /\ forLuna' = TRUE
    <3>1. /\ total < MaxTotal
          /\ "luna" \in DOMAIN Limit => calls["luna"] < Limit["luna"]
          /\ tokens + reserved + 2 + 0 <= MaxTokens
      BY <2>3, CallsAssumption DEF Fits, Books, CallsTypeOK
    <3>2. Books'
      BY <2>3, <1>4, <3>1, InvokeKeepsBooks
    <3> QED BY <3>2, <2>3 DEF Invoke, Agents, Codex
  <2> QED BY <1>4, <2>1, <2>2, <2>3 DEF Ask, AskLuna
<1>5. CASE a \notin {"agy", "glm-flash", "luna"}
  BY <1>5, <1>1 DEF Ask
<1> QED BY <1>2, <1>3, <1>4, <1>5

\* Recording a call under its own name, or GLM's under the one without a limit.
LEMMA RecordKeepsBooks ==
    ASSUME Books, callee \in Agents, NEW k \in Keys, NEW held \in Nat, Record(k, held),
           k = callee \/ k = "glm_flash", callee' = None,
           held = IF callee = "glm-flash" THEN 0 ELSE 1
    PROVE  /\ total' \in Nat /\ calls' \in [Keys -> Nat] /\ tokens' \in Nat /\ reserved' \in Nat
           /\ (Within /\ Spent /\ HasRoom)'
           /\ reserved' = reserved - held
<1> USE CallsAssumption
<1>1. /\ total \in Nat /\ tokens \in Nat /\ reserved \in Nat /\ lunas \in Nat /\ MaxTokens \in Nat
      /\ calls \in [Keys -> Nat]
      /\ callee # None
  BY DEF Books, CallsTypeOK
<1>2. reserved' \in Nat /\ reserved' = reserved - held
  <2>1. reserved = (IF callee = "glm-flash" THEN 0 ELSE 1) + (IF forLuna THEN 1 ELSE 0) + lunas
    BY <1>1 DEF Books, ReservedIsAccountedFor
  <2> QED BY <1>1, <2>1 DEF Record
<1>3. total' \in Nat /\ calls' \in [Keys -> Nat]
  BY <1>1 DEF Record
<1>4. tokens' \in Nat /\ Spent'
  <2>1. PICK cost \in Costs : tokens' = tokens + cost
    BY DEF Record
  <2>2. cost \in Nat
    OBVIOUS
  <2>3. tokens + reserved + Room <= MaxTokens
    BY <1>1 DEF Books, HasRoom
  <2>4. tokens' + reserved' <= MaxTokens + (IF cost = 0 THEN 0 ELSE cost - 1)
    <3>1. CASE cost = 0
      BY <3>1, <1>1, <1>2, <2>1, <2>3 DEF Room
    <3>2. CASE cost # 0
      BY <3>2, <1>1, <1>2, <2>1, <2>2, <2>3 DEF Room
    <3> QED BY <3>1, <3>2
  <2> QED BY <1>1, <2>1, <2>2, <2>4 DEF Spent
<1>5. Within'
  <2>1. total' <= MaxTotal
    BY <1>1 DEF Record, Books, HasRoom
  <2>2. ASSUME NEW j \in DOMAIN Limit PROVE calls'[j] <= Limit[j]
    <3>1. j \in Keys /\ j # "glm_flash" /\ Limit[j] \in Nat
      BY DEF Keys, Agents, Codex
    <3>2. CASE j = k
      BY <3>1, <3>2, <1>1 DEF Record, Books, HasRoom
    <3>3. CASE j # k
      BY <3>1, <3>3, <1>1 DEF Record, Books, Within
    <3> QED BY <3>2, <3>3
  <2> QED BY <2>1, <2>2 DEF Within
<1>6. HasRoom'
  BY DEF HasRoom
<1> QED BY <1>2, <1>3, <1>4, <1>5, <1>6

\* A call that comes back unrecorded: its reservation is given back, or it had none.
LEMMA UnrecordedKeepsBooks ==
    ASSUME Books, callee \in Agents, UNCHANGED budget, callee' = None,
           reserved' = reserved - (IF callee = "glm-flash" THEN 0 ELSE 1)
    PROVE  /\ total' \in Nat /\ calls' \in [Keys -> Nat] /\ tokens' \in Nat /\ reserved' \in Nat
           /\ (Within /\ Spent /\ HasRoom)'
<1>1. /\ total \in Nat /\ tokens \in Nat /\ reserved \in Nat /\ lunas \in Nat /\ MaxTokens \in Nat
      /\ calls \in [Keys -> Nat]
      /\ callee # None
  BY CallsAssumption DEF Books, CallsTypeOK
<1>2. reserved' \in Nat /\ reserved' <= reserved
  <2>1. reserved = (IF callee = "glm-flash" THEN 0 ELSE 1) + (IF forLuna THEN 1 ELSE 0) + lunas
    BY <1>1 DEF Books, ReservedIsAccountedFor
  <2> QED BY <1>1, <2>1
<1>3. tokens' + reserved' <= MaxTokens
  <2>1. tokens + reserved + Room <= MaxTokens
    BY <1>1 DEF Books, HasRoom
  <2>2. tokens' = tokens
    BY DEF budget
  <2> QED BY <1>1, <1>2, <2>1, <2>2 DEF Room
<1>4. Spent'
  BY <1>1, <1>2, <1>3, SpentNext DEF budget
<1>5. Within' /\ HasRoom'
  BY DEF Within, HasRoom, Books, budget
<1> QED BY <1>1, <1>2, <1>4, <1>5 DEF budget

\* What is the same in all ways to come back.
LEMMA ComeBackKeepsBooks ==
    ASSUME Books, callee \in Agents, NEW value \in Results, ComeBack(value),
           AccountsTypeOK', untried' \subseteq Names,
           reserved' = reserved - (IF callee = "glm-flash" THEN 0 ELSE 1),
           total' \in Nat, calls' \in [Keys -> Nat], tokens' \in Nat, reserved' \in Nat,
           (Within /\ Spent /\ HasRoom)'
    PROVE  Books' /\ callee' = None /\ result' = value
<1> USE CallsAssumption, AccountsLength
<1>1. CallsTypeOK'
  <2>1. 0 \in 0..Len(Accounts) /\ (IF forLuna THEN 1 ELSE 0) \in Nat
    OBVIOUS
  <2>2. lunas' \in Nat /\ tries' \in 0..Len(Accounts) /\ mode' \in Modes
    BY <2>1 DEF Books, CallsTypeOK, ComeBack
  <2> QED BY <2>2 DEF CallsTypeOK, ComeBack
<1>2. Nested'
  BY DEF Nested, ComeBack
<1>3. ReservedIsAccountedFor'
  <2>1. callee # None
    OBVIOUS
  <2>2. reserved = (IF callee = "glm-flash" THEN 0 ELSE 1) + (IF forLuna THEN 1 ELSE 0) + lunas
    BY <2>1 DEF Books, ReservedIsAccountedFor
  <2>3. lunas' = lunas + (IF forLuna THEN 1 ELSE 0) /\ callee' = None /\ forLuna' = FALSE
    BY DEF ComeBack
  <2>4. reserved' = 0 + 0 + lunas'
    BY <2>2, <2>3 DEF Books, CallsTypeOK
  <2> QED BY <2>3, <2>4 DEF ReservedIsAccountedFor
<1> QED BY <1>1, <1>2, <1>3 DEF Books, ComeBack

\* Every end of a call keeps the books; the loop over the accounts goes on.
LEMMA CallReturnsKeepsBooks ==
    ASSUME Books, CallReturns
    PROVE  /\ Books'
           /\ callee # None
           /\ \/ callee' = None /\ result' \in Results
              \/ callee' = callee /\ result' = result
<1> USE CallsAssumption, AccountsLength
<1>1. None \notin Agents /\ Codex \subseteq Agents /\ "agy" \in Agents /\ "glm-flash" \in Agents
      /\ "agy" \notin Codex /\ "glm-flash" \notin Codex /\ Agents \subseteq Keys /\ "glm_flash" \in Keys
  BY DEF Agents, Codex, Keys
<1>2. AccountsTypeOK /\ untried \subseteq Names
  BY DEF Books, CallsTypeOK
<1>3. ASSUME NEW value \in Results, callee \in Codex \cup {"agy"}, ComeBack(value), untried' \subseteq Names,
             AccountsTypeOK', Record(callee, 1) \/ Release
      PROVE  Books' /\ callee' = None /\ result' \in Results
  <2>1. callee \in Agents /\ callee # "glm-flash" /\ callee' = None
    BY <1>1, <1>3 DEF ComeBack
  <2>2. CASE Record(callee, 1)
    BY <2>1, <2>2, <1>1, <1>3, RecordKeepsBooks, ComeBackKeepsBooks
  <2>3. CASE Release
    <3>1. reserved' = reserved - 1 /\ UNCHANGED budget
      BY <2>3 DEF Release
    <3> QED BY <2>1, <3>1, <1>3, UnrecordedKeepsBooks, ComeBackKeepsBooks
  <2> QED BY <1>3, <2>2, <2>3
<1>4. CASE GatewayReturns
  <2>1. PICK value \in Results : Answer(value) /\ (Record(callee, 1) \/ Release)
    BY <1>4 DEF GatewayReturns, Texts, Results, Raised
  <2>2. ComeBack(value) /\ untried' \subseteq Names /\ AccountsTypeOK' /\ callee \in Codex
    BY <2>1, <1>2, <1>4 DEF Answer, GatewayReturns, accountVars, AccountsTypeOK
  <2> QED BY <2>1, <2>2, <1>1, <1>3
<1>5. CASE CommandAnswers
  <2>1. PICK value \in Results : Answer(value)
    BY <1>5 DEF CommandAnswers, Texts, Results, Raised
  <2>2. AccountsTypeOK'
    BY <1>2, <1>5, AccountsNext DEF CommandAnswers
  <2>3. ComeBack(value) /\ untried' \subseteq Names /\ callee \in Codex /\ Record(callee, 1)
    BY <2>1, <1>5 DEF Answer, CommandAnswers
  <2> QED BY <2>1, <2>2, <2>3, <1>1, <1>3
<1>6. CASE CommandIsLimited
  <2>1. AccountsTypeOK'
    BY <1>2, <1>6, AccountsNext DEF CommandIsLimited
  <2>2. CallsTypeOK'
    <3>1. tries' \in 0..Len(Accounts)
      BY <1>6 DEF CommandIsLimited, Books, CallsTypeOK
    <3>2. untried' \subseteq Names
      BY <1>2, <1>6 DEF CommandIsLimited
    <3> QED BY <2>1, <3>1, <3>2, <1>6 DEF CommandIsLimited, Books, CallsTypeOK, budget
  <2>3. (Within /\ Spent /\ HasRoom /\ Nested /\ ReservedIsAccountedFor)'
    BY <1>6 DEF CommandIsLimited, Books, Within, Spent, HasRoom, Room, Nested, ReservedIsAccountedFor, budget
  <2> QED BY <2>2, <2>3, <1>1, <1>6 DEF Books, CommandIsLimited
<1>7. CASE AccountsAreExhausted
  <2>1. AccountsTypeOK'
    BY <1>2, <1>7, AccountsNext DEF AccountsAreExhausted
  <2>2. PICK value \in Results : ComeBack(value)
    BY <1>7 DEF AccountsAreExhausted, Results
  <2>3. untried' \subseteq Names /\ callee \in Codex /\ Release
    BY <1>2, <1>7 DEF AccountsAreExhausted
  <2> QED BY <2>1, <2>2, <2>3, <1>1, <1>3
<1>8. CASE AgyReturns
  <2>1. PICK value \in Results : Answer(value) /\ (Record("agy", 1) \/ Release)
    BY <1>8 DEF AgyReturns, Results, Raised
  <2>2. ComeBack(value) /\ untried' \subseteq Names /\ AccountsTypeOK' /\ callee = "agy"
    BY <2>1, <1>2, <1>8 DEF Answer, AgyReturns, accountVars, AccountsTypeOK
  <2> QED BY <2>1, <2>2, <1>1, <1>3
<1>9. CASE GlmReturns
  <2>1. PICK value \in Results : Answer(value) /\ (Record("glm_flash", 0) \/ UNCHANGED <<budget, reserved>>)
    BY <1>9 DEF GlmReturns, Results
  <2>2. ComeBack(value) /\ untried' \subseteq Names /\ AccountsTypeOK' /\ callee = "glm-flash" /\ callee' = None
    BY <2>1, <1>2, <1>9 DEF Answer, ComeBack, GlmReturns, accountVars, AccountsTypeOK
  <2>3. reserved \in Nat
    BY DEF Books, CallsTypeOK
  <2>4. CASE Record("glm_flash", 0)
    BY <2>2, <2>3, <2>4, <1>1, RecordKeepsBooks, ComeBackKeepsBooks
  <2>5. CASE UNCHANGED <<budget, reserved>>
    <3>1. reserved' = reserved - 0 /\ UNCHANGED budget
      BY <2>3, <2>5
    <3> QED BY <2>2, <3>1, <1>1, UnrecordedKeepsBooks, ComeBackKeepsBooks
  <2> QED BY <2>1, <2>2, <2>4, <2>5, <1>1
<1> QED BY <1>4, <1>5, <1>6, <1>7, <1>8, <1>9, <1>1 DEF CallReturns

LEMMA RestKeepsBooks == Books /\ UNCHANGED <<accountVars, callVars>> => Books'
<1> SUFFICES ASSUME Books, UNCHANGED <<accountVars, callVars>> PROVE Books'
  OBVIOUS
<1>1. CallsTypeOK'
  BY DEF Books, CallsTypeOK, AccountsTypeOK, accountVars, callVars
<1>2. (Within /\ Spent /\ HasRoom /\ Nested /\ ReservedIsAccountedFor)'
  BY DEF Books, Within, Spent, HasRoom, Room, Nested, ReservedIsAccountedFor, callVars
<1> QED BY <1>1, <1>2 DEF Books

LEMMA CooldownKeepsBooks == Books /\ CooldownEnds /\ UNCHANGED callVars => Books'
<1> SUFFICES ASSUME Books, CooldownEnds, UNCHANGED callVars PROVE Books'
  OBVIOUS
<1>1. AccountsTypeOK'
  BY AccountsNext, AccountsLength DEF Books, CallsTypeOK
<1>2. CallsTypeOK'
  BY <1>1 DEF Books, CallsTypeOK, callVars
<1>3. (Within /\ Spent /\ HasRoom /\ Nested /\ ReservedIsAccountedFor)'
  BY DEF Books, Within, Spent, HasRoom, Room, Nested, ReservedIsAccountedFor, callVars
<1> QED BY <1>2, <1>3 DEF Books

\* The director and the reviewer are refused only for want of budget.
LEMMA AskReviewer ==
    ASSUME Books, callee = None, NEW a \in {Director, "ds-pro"}, Ask(a)
    PROVE  /\ callee' = None => result' = "BUDGET" /\ ~Allowed(a)'
           /\ Allowed(a) => callee' # None
<1>1. a \in Agents \ {"agy", "glm-flash", "luna"} /\ None \notin Agents
  BY ExecutionAssumption, CallsAssumption DEF Agents, Codex
<1>2. AskCodex(a)
  BY <1>1 DEF Ask
<1>3. CASE Allowed(a) /\ Invoke(a, 1)
  BY <1>1, <1>3 DEF Invoke
<1>4. CASE ~Allowed(a) /\ Return("BUDGET")
  BY <1>4 DEF Return, Allowed, Fits, budget
<1> QED BY <1>2, <1>3, <1>4 DEF AskCodex

-----------------------------------------------------------------------------
(* The workflow. *)

ExecTypes ==
    /\ pc \in Phases
    /\ tasks \in 0..MaxTasks
    /\ agent \in Executors \cup {None}
    /\ fixer \in {"glm-flash", "ds-flash", None}
    /\ attempt \in 0..MaxFix
    /\ rev_attempt \in 0..MaxFix
    /\ output \in Results \cup {None}
    /\ seen \in BOOLEAN

Handling == {"executing", "replacing", "replaced", "check", "checking", "fixing",
             "review", "reviewing", "reworking"}

\* A subtask has an executor, and a fixer unless the executor fixes by itself.
FixerChosen ==
    /\ pc \in Handling => agent \in Executors /\ (agent \in Retrying \/ fixer # None)
    /\ pc = "replacing" => fixer # None

\* There is an attempt left where one is about to be made.
Counted ==
    /\ pc \in {"start", "brainstorming", "decomposing", "loop", "executing", "replacing", "replaced"}
          => attempt = 0 /\ rev_attempt = 0
    /\ pc \in {"check", "fixing"} => attempt < MaxFix
    /\ pc = "reworking" => rev_attempt < MaxFix

\* No call is out where the process decides what to do next.
AtRest == pc \in {"start", "loop", "check", "review", "returned", "end"} => callee = None

\* An output that was not shown to anybody was refused by the budget.
Looked ==
    /\ pc = "checking" /\ ~seen => callee = None /\ result = "BUDGET" /\ ~Allowed(Director)
    /\ pc = "review" /\ ~seen => ~Allowed(Director)
    /\ pc = "reviewing" /\ ~seen => callee = None /\ result = "BUDGET" /\ ~Allowed("ds-pro")
    /\ pc \in {"fixing", "reworking"} => seen
    /\ FixesAreLookedAt

Conduct == ExecTypes /\ FixerChosen /\ Counted /\ AtRest /\ Looked

LEMMA ExecutorsAreAgents ==
    /\ Director \in Agents /\ "sol" \in Agents /\ "ds-pro" \in Agents /\ "agy" \in Agents
    /\ {"glm-flash", "ds-flash"} \subseteq Agents /\ Executors \subseteq Agents
    /\ None \notin Agents
  BY ExecutionAssumption, CallsAssumption DEF Agents, Codex

LEMMA RetrierIsAgent ==
    ExecTypes /\ FixerChosen /\ pc \in Handling => Retrier \in Agents
  BY ExecutorsAreAgents DEF ExecTypes, FixerChosen, Retrier

LEMMA StepKeepsBooks == Books /\ Conduct /\ Step => Books'
<1> SUFFICES ASSUME Books, Conduct, Step PROVE Books'
  OBVIOUS
<1> USE ExecutorsAreAgents, AskKeepsBooks, RestKeepsBooks
<1>1. CASE \/ Brainstorm \/ Escalate \/ Decompose \/ QuickCheck \/ Validate \/ FallbackToAgy
  BY <1>1 DEF Brainstorm, Escalate, Decompose, QuickCheck, Validate, FallbackToAgy, At
<1>2. CASE \/ PlanIsMade \/ Stops \/ Executed \/ CheckPasses \/ CheckIsRefused \/ Fixed
           \/ ReviewPasses \/ TaskReturns \/ Validated
  BY <1>2 DEF PlanIsMade, Stops, Executed, CheckPasses, CheckIsRefused, Fixed, ReviewPasses,
              TaskReturns, Validated
<1>3. CASE ExecuteTask
  <2>1. CASE Return(None)
    <3>1. CallsTypeOK'
      BY <2>1 DEF Books, CallsTypeOK, AccountsTypeOK, Return, accountVars, budget
    <3>2. (Within /\ Spent /\ HasRoom /\ Nested /\ ReservedIsAccountedFor)'
      BY <2>1 DEF Books, Within, Spent, HasRoom, Room, Nested, ReservedIsAccountedFor, Return, budget
    <3> QED BY <3>1, <3>2 DEF Books
  <2>2. CASE agent' \in Executors /\ Ask(agent')
    BY <1>3, <2>2 DEF ExecuteTask, At
  <2> QED BY <1>3, <2>1, <2>2 DEF ExecuteTask
<1>4. CASE Fallback
  <2>1. fixer \in Agents
    BY <1>4 DEF Fallback, Conduct, ExecTypes, FixerChosen, Handling, Retrying
  <2> QED BY <1>4, <2>1 DEF Fallback
<1>5. CASE CheckFails \/ ReviewFails
  <2>1. Retrier \in Agents
    BY <1>5, RetrierIsAgent DEF CheckFails, ReviewFails, At, Conduct, Handling
  <2> QED BY <1>5, <2>1 DEF CheckFails, ReviewFails, At
<1>6. CASE Review \/ Reworked
  BY <1>6 DEF Review, Reworked, At
<1> QED BY <1>1, <1>2, <1>3, <1>4, <1>5, <1>6 DEF Step

LEMMA ConductInit == Init => Conduct
<1> SUFFICES ASSUME Init PROVE Conduct
  OBVIOUS
<1>1. ExecTypes
  <2>1. 0 \in 0..MaxTasks /\ 0 \in 0..MaxFix
    BY ExecutionAssumption
  <2> QED BY <2>1 DEF Init, ExecTypes, Phases
<1>2. FixerChosen /\ Counted /\ AtRest /\ Looked
  BY DEF Init, CallsInit, FixerChosen, Handling, Counted, AtRest, Looked, FixesAreLookedAt
<1> QED BY <1>1, <1>2 DEF Conduct

\* While a call is out and comes back nothing else changes, and where the
\* process decides none is out.
LEMMA CallReturnsKeepsConduct ==
    Books /\ Conduct /\ CallReturns /\ UNCHANGED execVars => Conduct'
<1> SUFFICES ASSUME Books, Conduct, CallReturns, UNCHANGED execVars PROVE Conduct'
  OBVIOUS
<1>1. callee # None
  BY CallReturnsKeepsBooks
<1>2. ExecTypes' /\ FixerChosen' /\ Counted'
  BY DEF Conduct, ExecTypes, FixerChosen, Counted, execVars, taskVars, loopVars
<1>3. pc \notin {"start", "loop", "check", "review", "returned", "end"}
  BY <1>1 DEF Conduct, AtRest
<1>4. AtRest'
  BY <1>3 DEF AtRest, execVars
<1>5. Looked'
  BY <1>1, <1>3 DEF Conduct, Looked, FixesAreLookedAt, execVars, loopVars
<1> QED BY <1>2, <1>4, <1>5 DEF Conduct

LEMMA RestKeepsConduct ==
    Conduct /\ UNCHANGED <<callVars, execVars>> => Conduct'
<1> SUFFICES ASSUME Conduct, UNCHANGED <<callVars, execVars>> PROVE Conduct'
  OBVIOUS
<1>1. ExecTypes' /\ FixerChosen' /\ Counted' /\ AtRest'
  BY DEF Conduct, ExecTypes, FixerChosen, Counted, AtRest, execVars, taskVars, loopVars, callVars
<1>2. Looked'
  BY DEF Conduct, Looked, FixesAreLookedAt, Allowed, Fits, execVars, loopVars, callVars
<1> QED BY <1>1, <1>2 DEF Conduct

LEMMA StepKeepsConduct == Books /\ Conduct /\ Step => Conduct'
<1> SUFFICES ASSUME Books, Conduct, Step PROVE Conduct'
  OBVIOUS
<1> USE ExecutionAssumption, ExecutorsAreAgents DEF Conduct, ExecTypes, At, Goto, taskVars, loopVars
<1>0. result \in Results \cup {None} /\ callee \in Agents \cup {None} /\ None # "BUDGET"
  BY CallsAssumption DEF Books, CallsTypeOK, Results, Raised
<1>1. CASE Brainstorm \/ Escalate \/ Decompose \/ Validate
  <2>1. ExecTypes' /\ FixerChosen' /\ Counted' /\ AtRest'
    BY <1>1 DEF Brainstorm, Escalate, Decompose, Validate, Phases, AskingDirector, FixerChosen,
                Handling, Counted, AtRest, execVars
  <2>2. Looked'
    BY <1>1 DEF Brainstorm, Escalate, Decompose, Validate, AskingDirector, Looked, FixesAreLookedAt, execVars
  <2> QED BY <2>1, <2>2
<1>2. CASE PlanIsMade
  <2>1. tasks' \in 0..MaxTasks
    BY <1>2, CallsAssumption DEF PlanIsMade, PlanSize, Books, CallsTypeOK
  <2>2. ExecTypes' /\ FixerChosen' /\ Counted' /\ AtRest' /\ Looked'
    BY <1>2, <2>1 DEF PlanIsMade, Phases, FixerChosen, Handling, Counted, AtRest, Looked,
                      FixesAreLookedAt, callVars
  <2> QED BY <2>2
<1>3. CASE Stops \/ Validated
  BY <1>3 DEF Stops, Validated, Phases, FixerChosen, Handling, Counted, AtRest, Looked,
              FixesAreLookedAt, callVars
<1>4. CASE ExecuteTask
  <2>1. ExecTypes' /\ FixerChosen' /\ Counted'
    BY <1>4 DEF ExecuteTask, Phases, FixerChosen, Handling, Counted, Results
  <2>2. AtRest' /\ Looked'
    BY <1>4 DEF ExecuteTask, Return, AtRest, Looked, FixesAreLookedAt
  <2> QED BY <2>1, <2>2
<1>5. CASE Fallback \/ FallbackToAgy
  BY <1>5 DEF Fallback, FallbackToAgy, Phases, FixerChosen, Handling, Retrying, Counted, AtRest,
              Looked, FixesAreLookedAt
<1>6. CASE Executed
  BY <1>6, <1>0 DEF Executed, Phases, FixerChosen, Handling, Counted, AtRest, Looked,
              FixesAreLookedAt, callVars
<1>7. CASE QuickCheck
  <2>1. ExecTypes' /\ FixerChosen' /\ Counted' /\ AtRest'
    BY <1>7 DEF QuickCheck, ShowsTo, Phases, AskingDirector, FixerChosen, Handling, Counted, AtRest
  <2>2. callee' = None => result' = "BUDGET" /\ ~Allowed(Director)'
    BY <1>7, AskReviewer DEF QuickCheck
  <2>3. callee' # None => result' = None
    BY <1>7, AskKeepsBooks DEF QuickCheck
  <2>4. ~seen' => result' = "BUDGET"
    BY <1>7, Zenon DEF QuickCheck, ShowsTo
  <2>5. pc' = "checking"
    BY <1>7 DEF QuickCheck
  <2>6. Looked'
    BY <1>0, <2>2, <2>3, <2>4, <2>5 DEF Looked, FixesAreLookedAt
  <2> QED BY <2>1, <2>6
<1>8. CASE CheckPasses \/ CheckIsRefused
  <2>1. Allowed(Director)' = Allowed(Director)
    BY <1>8 DEF CheckPasses, CheckIsRefused, Allowed, Fits, callVars
  <2>2. ExecTypes' /\ FixerChosen' /\ Counted' /\ AtRest'
    BY <1>8 DEF CheckPasses, CheckIsRefused, Phases, FixerChosen, Handling, Counted, AtRest, callVars
  <2>3. Looked'
    BY <1>8, <2>1 DEF CheckPasses, CheckIsRefused, Looked, FixesAreLookedAt
  <2> QED BY <2>2, <2>3
<1>9. CASE CheckFails
  BY <1>9 DEF CheckFails, Phases, FixerChosen, Handling, Counted, AtRest, Looked,
              FixesAreLookedAt, callVars
<1>10. CASE Fixed
  BY <1>10, <1>0 DEF Fixed, Phases, FixerChosen, Handling, Counted, AtRest, Looked,
              FixesAreLookedAt, callVars
<1>11. CASE Review
  <2>1. ExecTypes' /\ FixerChosen' /\ Counted' /\ AtRest'
    BY <1>11 DEF Review, ShowsTo, Phases, FixerChosen, Handling, Counted, AtRest, callVars
  <2>2. CASE Allowed("ds-pro") /\ Ask("ds-pro") /\ ShowsTo /\ Goto("reviewing")
    <3>1. callee' # None /\ result' = None
      BY <1>11, <2>2, AskReviewer, AskKeepsBooks DEF Review
    <3> QED BY <1>0, <2>1, <2>2, <3>1 DEF ShowsTo, Looked, FixesAreLookedAt
  <2>3. CASE Goto("returned") /\ UNCHANGED <<accountVars, callVars, rev_attempt, seen>>
    <3>1. Allowed(Director)' = Allowed(Director)
      BY <2>3 DEF Allowed, Fits, callVars
    <3> QED BY <1>11, <2>1, <2>3, <3>1 DEF Review, Looked, FixesAreLookedAt
  <2> QED BY <1>11, <2>2, <2>3 DEF Review
<1>12. CASE ReviewPasses
  <2>1. Allowed("ds-pro")' = Allowed("ds-pro")
    BY <1>12 DEF ReviewPasses, Allowed, Fits, callVars
  <2> QED BY <1>12, <2>1 DEF ReviewPasses, Phases, FixerChosen, Handling, Counted, AtRest, Looked,
             FixesAreLookedAt, callVars
<1>13. CASE ReviewFails
  BY <1>13 DEF ReviewFails, Phases, FixerChosen, Handling, Counted, AtRest, Looked,
               FixesAreLookedAt, callVars
<1>14. CASE Reworked
  <2>1. CASE Goto("returned") /\ UNCHANGED <<accountVars, callVars, loopVars>>
    BY <1>14, <2>1 DEF Reworked, Phases, FixerChosen, Handling, Counted, AtRest, Looked,
             FixesAreLookedAt, callVars
  <2>2. CASE /\ result \notin Raised
             /\ output' = result
             /\ Ask("ds-pro")
             /\ rev_attempt' = rev_attempt + 1
             /\ seen' = (result' # "BUDGET")
             /\ Goto("reviewing")
             /\ UNCHANGED attempt
    <3>1. callee' = None => result' = "BUDGET" /\ ~Allowed("ds-pro")'
      BY <1>14, <2>2, AskReviewer DEF Reworked
    <3>2. callee' # None => result' = None
      BY <1>14, <2>2, AskKeepsBooks DEF Reworked
    <3>3. ExecTypes' /\ FixerChosen' /\ Counted' /\ AtRest'
      BY <1>14, <2>2, <1>0 DEF Reworked, Phases, FixerChosen, Handling, Counted, AtRest
    <3>4. Looked'
      BY <1>0, <2>2, <3>1, <3>2 DEF Looked, FixesAreLookedAt
    <3> QED BY <3>3, <3>4
  <2> QED BY <1>14, <2>1, <2>2 DEF Reworked
<1>15. CASE TaskReturns
  <2>1. 0 \in 0..MaxFix
    OBVIOUS
  <2> QED BY <1>15, <2>1 DEF TaskReturns, Phases, FixerChosen, Handling, Counted, AtRest, Looked,
               FixesAreLookedAt, callVars
<1> QED BY <1>1, <1>2, <1>3, <1>4, <1>5, <1>6, <1>7, <1>8, <1>9, <1>10, <1>11, <1>12, <1>13,
           <1>14, <1>15 DEF Step

-----------------------------------------------------------------------------
(* The theorems. *)

LEMMA BooksAndConduct == Spec => [](Books /\ Conduct)
<1>1. Init => Books /\ Conduct
  BY BooksInit, ConductInit DEF Init
<1>2. Books /\ Conduct /\ [Next]_vars => (Books /\ Conduct)'
  <2> SUFFICES ASSUME Books, Conduct, [Next]_vars PROVE Books' /\ Conduct'
    OBVIOUS
  <2>1. CASE Step
    BY <2>1, StepKeepsBooks, StepKeepsConduct
  <2>2. CASE CallReturns /\ UNCHANGED execVars
    BY <2>2, CallReturnsKeepsBooks, CallReturnsKeepsConduct
  <2>3. CASE CooldownEnds /\ UNCHANGED <<callVars, execVars>>
    BY <2>3, CooldownKeepsBooks, RestKeepsConduct
  <2>4. CASE UNCHANGED vars
    BY <2>4, RestKeepsBooks, RestKeepsConduct DEF vars
  <2> QED BY <2>1, <2>2, <2>3, <2>4 DEF Next, Progress
<1> QED BY <1>1, <1>2, PTL DEF Spec

EscalatedType == escalated \in BOOLEAN

\* The variables of accounts, calls and workflow keep their types.
THEOREM ExecutionTypes == Spec => []TypeOK
<1>1. Init => EscalatedType
  BY DEF Init, EscalatedType
<1>2. EscalatedType /\ [Next]_vars => EscalatedType'
  <2> SUFFICES ASSUME escalated \in BOOLEAN, [Next]_vars PROVE escalated' \in BOOLEAN
    BY DEF EscalatedType
  <2>1. CASE Step
    BY <2>1 DEF Step, Goto, Brainstorm, Escalate, Decompose, PlanIsMade, Stops, ExecuteTask, Fallback,
      FallbackToAgy, Executed, QuickCheck, CheckPasses, CheckFails, CheckIsRefused, Fixed, Review,
      ReviewPasses, ReviewFails, Reworked, TaskReturns, Validate, Validated
  <2>2. CASE UNCHANGED execVars \/ UNCHANGED vars
    BY <2>2 DEF execVars, vars
  <2> QED BY <2>1, <2>2 DEF Next, Progress, execVars
<1>3. Books /\ Conduct /\ EscalatedType => TypeOK
  BY DEF EscalatedType, Books, Conduct, ExecTypes, TypeOK
<1> QED BY <1>1, <1>2, <1>3, BooksAndConduct, PTL DEF Spec

\* The limits of check_budget_before_call hold for whatever execute_task nests,
\* replaces and repeats, with any limits, costs and accounts.
THEOREM BudgetHolds == Spec => []BudgetIsKept
<1>1. Books => BudgetIsKept
  BY DEF Books, Within, Spent, BudgetIsKept
<1> QED BY <1>1, BooksAndConduct, PTL

\* Every reservation of TokensDict ends with its call, but for the one that each
\* call of call_executor_luna leaves behind.
THEOREM ReservationsAreAccountedFor == Spec => []ReservedIsAccountedFor
<1>1. Books => ReservedIsAccountedFor
  BY DEF Books
<1> QED BY <1>1, BooksAndConduct, PTL

\* execute_task returns no output unseen while there is budget for the director
\* and the reviewer.
THEOREM OutputsAreLookedAt == Spec => []FixesAreLookedAt
<1>1. Conduct => FixesAreLookedAt
  BY DEF Conduct, Looked
<1> QED BY <1>1, BooksAndConduct, PTL
-----------------------------------------------------------------------------
(* The process uses itself up.  Each step lowers a rank: a tuple of natural *)
(* numbers of which the first that changes becomes smaller.                *)

Stage ==
    CASE pc = "start"         -> 5
      [] pc = "brainstorming" -> 4
      [] pc = "decomposing"   -> 3
      [] pc = "validating"    -> 1
      [] pc = "end"           -> 0
      [] OTHER                -> 2

\* The subtasks that are left, the present one for half.
Subtasks == 2 * tasks + (IF pc \in Handling \cup {"returned"} THEN 1 ELSE 0)

\* The parts of execute_task that are left.
Part ==
    CASE pc = "executing" -> 5
      [] pc = "replacing" -> 4
      [] pc = "replaced"  -> 3
      [] pc \in {"check", "checking", "fixing"}       -> 2
      [] pc \in {"review", "reviewing", "reworking"}  -> 1
      [] OTHER -> 0

\* The calls that are left to the loop of the quick check or of the review.
Turns ==
    CASE pc = "check"     -> 3 * (MaxFix - attempt)
      [] pc = "checking"  -> 3 * (MaxFix - attempt) + 2
      [] pc = "fixing"    -> 3 * (MaxFix - attempt) + 1
      [] pc = "review"    -> 2 * MaxFix + 2
      [] pc = "reviewing" -> 2 * (MaxFix - rev_attempt) + 1
      [] pc = "reworking" -> 2 * (MaxFix - rev_attempt)
      [] OTHER            -> 0

Question == IF escalated THEN 0 ELSE 1

\* The attempts that are left to a call, and its end.
Attempts == IF callee = None THEN 0 ELSE 1 + Len(Accounts) - tries

rank == <<Stage, Subtasks, Part, Turns, Question, Attempts>>

RankTypeOK == rank \in Nat \X Nat \X Nat \X Nat \X Nat \X Nat

RankFalls ==
    \/ Stage' < Stage
    \/ Stage' = Stage /\ Subtasks' < Subtasks
    \/ Stage' = Stage /\ Subtasks' = Subtasks /\ Part' < Part
    \/ Stage' = Stage /\ Subtasks' = Subtasks /\ Part' = Part /\ Turns' < Turns
    \/ Stage' = Stage /\ Subtasks' = Subtasks /\ Part' = Part /\ Turns' = Turns /\ Question' < Question
    \/ /\ Stage' = Stage /\ Subtasks' = Subtasks /\ Part' = Part /\ Turns' = Turns
       /\ Question' = Question /\ Attempts' < Attempts

LEMMA RankType == Books /\ Conduct => RankTypeOK
<1> SUFFICES ASSUME Books, Conduct PROVE RankTypeOK
  OBVIOUS
<1>1. /\ MaxFix \in Nat \ {0} /\ MaxTasks \in Nat /\ tasks \in 0..MaxTasks
      /\ attempt \in 0..MaxFix /\ rev_attempt \in 0..MaxFix
  BY ExecutionAssumption DEF Conduct, ExecTypes
<1>2. Len(Accounts) \in Nat /\ tries \in 0..Len(Accounts)
  BY AccountsLength DEF Books, CallsTypeOK
<1>3. Stage \in Nat /\ Part \in Nat /\ Question \in Nat
  BY DEF Stage, Part, Question
<1>4. Subtasks \in Nat
  BY <1>1 DEF Subtasks
<1>5. Turns \in Nat
  BY <1>1 DEF Turns
<1>6. Attempts \in Nat
  BY <1>2 DEF Attempts
<1> QED BY <1>3, <1>4, <1>5, <1>6 DEF RankTypeOK, rank

\* A step of the process: another stage, subtask, part, turn or question.
LEMMA StepUsesUp == Books /\ Conduct /\ Step => RankFalls
<1> SUFFICES ASSUME Books, Conduct, Step PROVE RankFalls
  OBVIOUS
<1> USE DEF At, Goto
<1>1. /\ MaxFix \in Nat \ {0} /\ MaxTasks \in Nat /\ tasks \in 0..MaxTasks
      /\ attempt \in 0..MaxFix /\ rev_attempt \in 0..MaxFix
  BY ExecutionAssumption DEF Conduct, ExecTypes
<1>2. CASE Brainstorm \/ Decompose \/ PlanIsMade \/ Stops \/ Validate \/ Validated
  <2>1. Stage' < Stage
    BY <1>2 DEF Brainstorm, Decompose, PlanIsMade, Stops, Validate, Validated, Stage
  <2> QED BY <2>1 DEF RankFalls
<1>3. CASE Escalate
  <2>1. UNCHANGED <<pc, tasks, attempt, rev_attempt>> /\ ~escalated /\ escalated'
    BY <1>3 DEF Escalate, loopVars
  <2>2. Stage' = Stage /\ Subtasks' = Subtasks /\ Part' = Part /\ Turns' = Turns
    BY <2>1 DEF Stage, Subtasks, Part, Turns
  <2>3. Question' < Question
    BY <2>1 DEF Question
  <2> QED BY <2>2, <2>3 DEF RankFalls
<1>4. CASE ExecuteTask
  <2>1. Stage' = Stage
    BY <1>4 DEF ExecuteTask, Stage
  <2>2. Subtasks' < Subtasks
    BY <1>1, <1>4 DEF ExecuteTask, Subtasks, Handling
  <2> QED BY <2>1, <2>2 DEF RankFalls
<1>5. CASE TaskReturns
  <2>1. CASE pc' = "end"
    <3>1. Stage' < Stage
      BY <1>5, <2>1 DEF TaskReturns, Stage
    <3> QED BY <3>1 DEF RankFalls
  <2>2. CASE pc' = "loop"
    <3>1. Stage' = Stage /\ Subtasks' < Subtasks
      BY <1>1, <1>5, <2>2 DEF TaskReturns, Stage, Subtasks, Handling
    <3> QED BY <3>1 DEF RankFalls
  <2> QED BY <1>5, <2>1, <2>2 DEF TaskReturns
<1>6. ASSUME pc \in Handling, pc' \in Handling \cup {"returned"}, tasks' = tasks
      PROVE  Stage' = Stage /\ Subtasks' = Subtasks
  BY <1>6 DEF Handling, Stage, Subtasks
<1>7. CASE \/ Fallback \/ FallbackToAgy \/ Executed \/ CheckPasses \/ CheckIsRefused \/ ReviewPasses
           \/ CheckFails /\ pc' = "review"
           \/ (Review \/ ReviewFails \/ Reworked) /\ pc' = "returned"
  <2>1. pc \in Handling /\ pc' \in Handling \cup {"returned"} /\ tasks' = tasks
    BY <1>7 DEF Fallback, FallbackToAgy, Executed, CheckPasses, CheckIsRefused, ReviewPasses, CheckFails,
                Review, ReviewFails, Reworked, Handling
  <2>2. Part' < Part
    BY <1>7 DEF Fallback, FallbackToAgy, Executed, CheckPasses, CheckIsRefused, ReviewPasses, CheckFails,
                Review, ReviewFails, Reworked, Part
  <2> QED BY <1>6, <2>1, <2>2 DEF RankFalls
<1>8. CASE QuickCheck \/ (CheckFails /\ pc' = "fixing") \/ Fixed
  <2>1. pc \in Handling /\ pc' \in Handling /\ tasks' = tasks /\ Part' = Part
    BY <1>8 DEF QuickCheck, CheckFails, Fixed, Handling, Part
  <2>2. Turns' < Turns
    BY <1>1, <1>8 DEF QuickCheck, CheckFails, Fixed, Turns, loopVars
  <2> QED BY <1>6, <2>1, <2>2 DEF RankFalls
<1>9. CASE (Review /\ pc' = "reviewing") \/ (ReviewFails /\ pc' = "reworking") \/ (Reworked /\ pc' = "reviewing")
  <2>1. pc \in Handling /\ pc' \in Handling /\ tasks' = tasks /\ Part' = Part
    BY <1>9 DEF Review, ReviewFails, Reworked, Handling, Part
  <2>2. Turns' < Turns
    BY <1>1, <1>9 DEF Review, ReviewFails, Reworked, Turns, loopVars
  <2> QED BY <1>6, <2>1, <2>2 DEF RankFalls
<1>10. /\ CheckFails => pc' \in {"fixing", "review"}
       /\ Review => pc' \in {"reviewing", "returned"}
       /\ ReviewFails => pc' \in {"reworking", "returned"}
       /\ Reworked => pc' \in {"reviewing", "returned"}
  BY DEF CheckFails, Review, ReviewFails, Reworked
<1> QED BY <1>2, <1>3, <1>4, <1>5, <1>7, <1>8, <1>9, <1>10 DEF Step

\* A call that comes back, or goes on with another account.
LEMMA CallUsesUp == Books /\ Conduct /\ CallReturns /\ UNCHANGED execVars => RankFalls
<1> SUFFICES ASSUME Books, Conduct, CallReturns, UNCHANGED execVars PROVE RankFalls
  OBVIOUS
<1>1. Stage' = Stage /\ Subtasks' = Subtasks /\ Part' = Part /\ Turns' = Turns /\ Question' = Question
  BY DEF execVars, loopVars, Stage, Subtasks, Part, Turns, Question
<1>2. callee # None /\ Len(Accounts) \in Nat /\ tries \in 0..Len(Accounts)
  BY CallReturnsKeepsBooks, AccountsLength DEF Books, CallsTypeOK
<1>3. callee' = None \/ (callee' = callee /\ tries' = tries + 1)
  BY DEF CallReturns, GatewayReturns, CommandAnswers, CommandIsLimited, AccountsAreExhausted, AgyReturns,
         GlmReturns, Answer, ComeBack
<1>4. Attempts' < Attempts
  BY <1>2, <1>3 DEF Attempts
<1> QED BY <1>1, <1>4 DEF RankFalls

\* Every step of the process and every return of a call lowers the rank, the end
\* of a cooldown leaves it: however much the budget allows, the loops of
\* run_full_workflow, execute_task and call_codex_profile come to their end.
THEOREM StepsRunOut ==
    Spec => [](RankTypeOK) /\ [][(Progress => RankFalls) /\ (RankFalls \/ UNCHANGED rank)]_vars
<1>1. Books /\ Conduct /\ Progress => RankFalls
  BY StepUsesUp, CallUsesUp DEF Progress
<1>2. UNCHANGED <<callVars, execVars>> => UNCHANGED rank
  BY DEF callVars, execVars, loopVars, rank, Stage, Subtasks, Part, Turns, Question, Attempts
<1>3. Books /\ Conduct /\ [Next]_vars => [(Progress => RankFalls) /\ (RankFalls \/ UNCHANGED rank)]_vars
  BY <1>1, <1>2 DEF Next
<1> QED BY <1>3, RankType, BooksAndConduct, PTL DEF Spec
=============================================================================
