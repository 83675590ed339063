-------------------------- MODULE AccountRotation ---------------------------
(***************************************************************************)
(* The Codex accounts as one orchestrator process sees them                *)
(* (server/account_manager.py, CodexAccountManager).  The file of accounts *)
(* is read when the process starts and written whole by every process; no  *)
(* process reads it again, so what the others do shows only in Init.       *)
(***************************************************************************)
EXTENDS Naturals, Sequences

CONSTANTS
    Accounts,   \* the accounts in the order _discover_accounts finds them
    None        \* no account

ASSUME AccountsAssumption ==
    /\ Accounts \in Seq(STRING) /\ Accounts # <<>>
    /\ \A i, j \in DOMAIN Accounts : Accounts[i] = Accounts[j] => i = j

VARIABLES
    cooling,  \* the accounts whose cooldown_until lies ahead
    current   \* current_index, from 1

accountVars == <<cooling, current>>

Names == {Accounts[i] : i \in DOMAIN Accounts}

AccountsTypeOK ==
    /\ cooling \subseteq Names
    /\ current \in DOMAIN Accounts

\* load_state takes whatever the processes before left in the file.
AccountsInit ==
    /\ cooling \in SUBSET Names
    /\ current \in DOMAIN Accounts

Primary(role) == IF role \in {"sol", "director"} THEN "sol" ELSE "luna"

IsAvailable(a) == a \in Names \ cooling

GetAccountForRole(role) ==
    IF IsAvailable(Primary(role)) THEN Primary(role)
    ELSE IF IsAvailable("bonus") THEN "bonus" ELSE None

\* The account whose environment call_codex_profile runs the command with.
Target(role) ==
    IF GetAccountForRole(role) = None THEN Accounts[current] ELSE GetAccountForRole(role)

\* The limit is put down to the current account, whichever was the target.
HandlePossibleError ==
    /\ cooling' = cooling \cup {Accounts[current]}
    /\ current' = (current % Len(Accounts)) + 1

MarkSuccess(a) ==
    /\ cooling' = cooling \ {a}
    /\ UNCHANGED current

CooldownEnds ==
    /\ \E a \in cooling : cooling' = cooling \ {a}
    /\ UNCHANGED current
=============================================================================
