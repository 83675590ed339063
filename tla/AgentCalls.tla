----------------------------- MODULE AgentCalls -----------------------------
(***************************************************************************)
(* How an orchestrator process calls its agents and accounts for them      *)
(* (server/orchestrator_core.py: check_budget_before_call, TokensDict and  *)
(* the call_* methods of MultiAgentRunner).  A call is checked against the *)
(* limits, holds a reservation of tokens while it is out, and is recorded  *)
(* or released when it is back.  Every reservation is worth one unit of    *)
(* tokens, the estimate of the check; an answer costs one of Costs.        *)
(***************************************************************************)
EXTENDS AccountRotation

CONSTANTS
    MaxTotal,   \* max_llm_calls_total
    Limit,      \* max_llm_calls_per_agent, a function from agents to limits
    MaxTokens,  \* max_estimated_tokens
    Modes,      \* the ways in which the process may be configured
    Costs       \* what an answer may cost, in units of an estimate

Codex == {"sol", "director", "luna", "ds-flash", "ds-pro", "other"}
Agents == Codex \cup {"agy", "glm-flash"}
\* The names calls are recorded under: GLM's is not the one of its limit.
Keys == Agents \cup {"glm_flash"}

\* What a call comes back with; the last three are raised.
Raised == {"BUDGET", "TIME", "RUNTIME"}
Results == {"OK", "FAILED", "NO_ANSWER", "BLOCKED", "LIMITED"} \cup Raised

ASSUME CallsAssumption ==
    /\ MaxTotal \in Nat /\ MaxTokens \in Nat
    /\ DOMAIN Limit \subseteq Agents /\ \A k \in DOMAIN Limit : Limit[k] \in Nat
    /\ Costs \subseteq Nat /\ Costs # {}
    /\ Modes \subseteq [sidecar : BOOLEAN, strict : BOOLEAN, flash : BOOLEAN, glm : BOOLEAN]
    /\ None \notin Agents \cup Results

VARIABLES
    mode,      \* sidecar: Codex is called through the gateway; strict: the
               \* token budget must hold, which AGY cannot; flash: n8n is left
               \* to DeepSeek; glm: there is a key for GLM
    total,     \* calls["total"]
    calls,     \* calls["by_agent"]
    tokens,    \* tokens measured and estimated
    reserved,  \* how many reservations are active
    callee,    \* the agent a call is out to
    forLuna,   \* it is the call inside call_executor_luna
    tries,     \* attempts of the loop over the accounts
    untried,   \* the accounts that were available when it began, but for those
               \* the loop called (kept when the loop gives up)
    lunas,     \* how many calls of call_executor_luna came back
    result     \* what the last call came back with

callVars == <<mode, total, calls, tokens, reserved, callee, forLuna, tries,
              untried, lunas, result>>
budget == <<total, calls, tokens>>

CallsTypeOK ==
    /\ AccountsTypeOK
    /\ mode \in Modes
    /\ total \in Nat
    /\ calls \in [Keys -> Nat]
    /\ tokens \in Nat
    /\ reserved \in Nat
    /\ callee \in Agents \cup {None}
    /\ forLuna \in BOOLEAN
    /\ tries \in 0..Len(Accounts)
    /\ untried \subseteq Names
    /\ lunas \in Nat
    /\ result \in Results \cup {None}

CallsInit ==
    /\ AccountsInit
    /\ mode \in Modes
    /\ total = 0
    /\ calls = [k \in Keys |-> 0]
    /\ tokens = 0
    /\ reserved = 0
    /\ callee = None
    /\ forLuna = FALSE
    /\ tries = 0
    /\ untried = {}
    /\ lunas = 0
    /\ result = None

\* Mutant of Fits: the tokens that are reserved do not count.
FitsUnreserved(a, held) ==
    /\ total < MaxTotal
    /\ a \in DOMAIN Limit => calls[a] < Limit[a]
    /\ tokens < MaxTokens

\* check_budget_before_call with held reservations.
Fits(a, held) ==
    /\ total < MaxTotal
    /\ a \in DOMAIN Limit => calls[a] < Limit[a]
    /\ tokens + held + 1 <= MaxTokens

Allowed(a) == Fits(a, reserved)

\* The call ends before anybody was called.
Return(value) ==
    /\ result' = value
    /\ untried' = {}
    /\ UNCHANGED <<accountVars, mode, budget, reserved, callee, forLuna, tries, lunas>>

-----------------------------------------------------------------------------
(* Asking an agent. *)

\* Out it goes, with held reservations.
Invoke(a, held) ==
    /\ reserved' = reserved + held
    /\ callee' = a
    /\ untried' = Names \ cooling
    /\ result' = None
    /\ UNCHANGED <<accountVars, mode, budget, tries, lunas>>

AskCodex(a) ==
    \/ Allowed(a) /\ Invoke(a, 1) /\ UNCHANGED forLuna
    \/ ~Allowed(a) /\ Return("BUDGET")

AskAgy ==
    \/ mode.strict /\ Return("BUDGET")
    \/ ~mode.strict /\ AskCodex("agy")

\* GLM is checked, and called without a reservation.
AskGlm ==
    \/ ~Allowed("glm-flash") /\ Return("BUDGET")
    \/ Allowed("glm-flash") /\ ~mode.glm /\ Return("BLOCKED")
    \/ /\ Allowed("glm-flash") /\ mode.glm
       /\ Invoke("glm-flash", 0)
       /\ UNCHANGED forLuna

\* call_executor_luna reserves, and so does the call_codex_profile it calls; if
\* that one refuses, the first reservation is released.
AskLuna ==
    \/ mode.flash /\ AskCodex("ds-flash")
    \/ ~mode.flash /\ ~Allowed("luna") /\ Return("BUDGET")
    \/ /\ ~mode.flash /\ Allowed("luna")
       /\ GetAccountForRole("luna") = None
       /\ Return("BLOCKED")
    \/ /\ ~mode.flash /\ Allowed("luna")
       /\ GetAccountForRole("luna") # None
       /\ ~Fits("luna", reserved + 1)
       /\ Return("BUDGET")
    \/ /\ ~mode.flash
       /\ GetAccountForRole("luna") # None
       /\ Fits("luna", reserved + 1)
       /\ Invoke("luna", 2)
       /\ forLuna' = TRUE

Ask(a) ==
    CASE a = "agy"       -> AskAgy
      [] a = "glm-flash" -> AskGlm
      [] a = "luna"      -> AskLuna
      [] OTHER           -> AskCodex(a)

-----------------------------------------------------------------------------
(* The end of a call.  call_executor_luna releases its own reservation     *)
(* only if the call inside raises, which none does once it is out.         *)

ComeBack(value) ==
    /\ callee' = None
    /\ forLuna' = FALSE
    /\ tries' = 0
    /\ lunas' = lunas + IF forLuna THEN 1 ELSE 0
    /\ result' = value
    /\ UNCHANGED mode

Answer(value) == ComeBack(value) /\ untried' = {}

\* record_call under the name k; the reservations of the call are gone after it.
Record(k, held) ==
    /\ total' = total + 1
    /\ calls' = [calls EXCEPT ![k] = @ + 1]
    /\ \E cost \in Costs : tokens' = tokens + cost
    /\ reserved' = reserved - held

\* Mutant of Release: nothing is released.
ReleaseNothing == UNCHANGED <<budget, reserved>>

\* release_reservation.
Release == reserved' = reserved - 1 /\ UNCHANGED budget

\* What a text says that was generated: an executor's may say that it failed, or
\* is blocked, which call_executor_luna says too of a text with a word of a limit.
Texts == IF callee \in {"luna", "ds-flash"} THEN {"OK", "FAILED", "BLOCKED"} ELSE {"OK"}

\* The gateway comes back with an answer or with the failure of the sidecar,
\* both recorded, or it raises, which becomes a failure of the same form.
GatewayReturns ==
    /\ callee \in Codex /\ mode.sidecar
    /\ \/ /\ Record(callee, 1)
          /\ \E value \in Texts \cup {"FAILED", "NO_ANSWER"} : Answer(value)
       \/ /\ Release
          /\ \E value \in {"FAILED"} \cup (IF forLuna THEN {"BLOCKED"} ELSE {}) : Answer(value)
    /\ UNCHANGED accountVars

\* The command ended and its output does not look like a limit.
CommandAnswers ==
    /\ callee \in Codex /\ ~mode.sidecar
    /\ MarkSuccess(Target(callee))
    /\ Record(callee, 1)
    /\ \E value \in Texts : Answer(value)

\* Mutant of CommandIsLimited: the attempts are not counted.
CommandIsLimitedForever ==
    /\ callee \in Codex /\ ~mode.sidecar
    /\ HandlePossibleError
    /\ untried' = untried \ {Target(callee)}
    /\ UNCHANGED <<mode, budget, reserved, callee, forLuna, tries, lunas, result>>

\* The output has a word of a limit in it: the loop goes on, with as many
\* attempts as there are accounts, ...
CommandIsLimited ==
    /\ callee \in Codex /\ ~mode.sidecar
    /\ tries + 1 < Len(Accounts)
    /\ tries' = tries + 1
    /\ HandlePossibleError
    /\ untried' = untried \ {Target(callee)}
    /\ UNCHANGED <<mode, budget, reserved, callee, forLuna, lunas, result>>

\* ... and after the last one that output is the answer, unrecorded.
AccountsAreExhausted ==
    /\ callee \in Codex /\ ~mode.sidecar
    /\ tries + 1 = Len(Accounts)
    /\ HandlePossibleError
    /\ Release
    /\ ComeBack(IF forLuna THEN "BLOCKED" ELSE "LIMITED")
    /\ untried' = untried \ {Target(callee)}

\* The text of AGY is an answer, or says that it failed or is blocked; a
\* failure of the gateway raises.
AgyReturns ==
    /\ callee = "agy"
    /\ \/ /\ Record("agy", 1)
          /\ \E value \in {"OK", "FAILED", "BLOCKED"} : Answer(value)
       \/ Release /\ \E value \in {"TIME", "RUNTIME"} : Answer(value)
    /\ UNCHANGED accountVars

\* Only an answer of GLM is recorded.
GlmReturns ==
    /\ callee = "glm-flash"
    /\ \/ Record("glm_flash", 0) /\ \E value \in {"OK", "FAILED"} : Answer(value)
       \/ Answer("FAILED") /\ UNCHANGED <<budget, reserved>>
    /\ UNCHANGED accountVars

CallReturns ==
    \/ GatewayReturns
    \/ CommandAnswers \/ CommandIsLimited \/ AccountsAreExhausted
    \/ AgyReturns
    \/ GlmReturns

-----------------------------------------------------------------------------
\* The limits hold whatever nests, fails or is replaced: the calls recorded
\* stay within theirs, and the tokens exceed theirs by no more than the answer
\* to one call cost beyond its estimate.
BudgetIsKept ==
    /\ total <= MaxTotal
    /\ \A k \in DOMAIN Limit : calls[k] <= Limit[k]
    /\ \E cost \in Costs : tokens + reserved <= MaxTokens + (IF cost = 0 THEN 0 ELSE cost - 1)

\* What is reserved belongs to the call that is out, but for the reservation
\* that each call of Luna leaves behind for the rest of the run.
ReservedIsAccountedFor ==
    reserved = (IF callee \in {None, "glm-flash"} THEN 0 ELSE 1)
               + (IF forLuna THEN 1 ELSE 0) + lunas

\* The loop over the accounts hands its caller a limit only after it called the
\* bonus account, if that was available when the call began (module docstring
\* of account_manager.py, "Performs hot-switching to the Bonus account").
GivesUpAfterBonus == result \in {"LIMITED", "BLOCKED"} => "bonus" \notin untried
=============================================================================
