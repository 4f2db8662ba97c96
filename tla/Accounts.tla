------------------------------ MODULE Accounts ------------------------------
(***************************************************************************)
(* Accounts: the administrator's row, created and reset by the processes   *)
(* that start (onModuleInit) and changed by change-password requests, one  *)
(* database call per step.  A hash stands for its password.  save of a     *)
(* loaded entity selects the row and writes the columns that differ: the   *)
(* hash always (its salt is new), the flag if it has another value.        *)
(***************************************************************************)
EXTENDS FiniteSets

CONSTANTS
    Starts,          \* the starts of a process
    Changes,         \* the requests
    Chosen,          \* strong passwords users choose, or the configured one
    Weak,            \* a weak password
    Configured,      \* a strong password operators configure
    Random           \* what is made up instead of a weak one

ASSUME AccountsAssumption ==
    /\ Weak \notin Chosen \cup {Configured}
    /\ Random \notin Chosen \cup {Weak, Configured}
    /\ "none" \notin Chosen \cup {Weak, Configured, Random}
    /\ Starts \cap Changes = {}

VARIABLES
    user,       \* the administrator's row, or NoUser
    step,       \* how far each start and request got
    entity,     \* the values each is about to save
    row,        \* the row each selected in order to save
    checked,    \* the current password each request was accepted with
    env,        \* DEFAULT_ADMIN_PASSWORD and RESET_ADMIN_PASSWORD of each start
    overlapped  \* history: whether two of them overlapped so far
accountsVars == <<user, step, entity, row, checked, env, overlapped>>

Actors == Starts \cup Changes
Passwords == Chosen \cup {Weak, Configured, Random}
Rows == [hash : Passwords, mustChange : BOOLEAN]
Environments == [password : {Weak, Configured}, reset : BOOLEAN]
NoUser == [hash |-> "none", mustChange |-> FALSE]

(* isStrongPassword *)
Strong(pwd) == pwd \notin {Weak, Random}

AccountsTypeOK ==
    /\ user \in Rows \cup {NoUser}
    /\ step \in [Actors -> {"idle", "create", "reset", "select", "update", "done",
                            "refused"}]
    /\ entity \in [Actors -> Rows \cup {NoUser}]
    /\ row \in [Actors -> Rows \cup {NoUser}]
    /\ checked \in [Changes -> Passwords \cup {"none"}]
    /\ env \in [Starts -> Environments]
    /\ overlapped \in BOOLEAN

AccountsInit ==
    /\ user = NoUser
    /\ step = [a \in Actors |-> "idle"]
    /\ entity = [a \in Actors |-> NoUser] /\ row = [a \in Actors |-> NoUser]
    /\ checked = [c \in Changes |-> "none"]
    /\ env \in [Starts -> Environments]
    /\ overlapped = FALSE

Goes(a, stage) == step' = [step EXCEPT ![a] = stage]
Finished == {"idle", "done", "refused"}

Begin(a) ==
    /\ step[a] \in {"idle", "refused"}
    /\ overlapped' = (overlapped \/ \E b \in Actors : step[b] \notin Finished)

-----------------------------------------------------------------------------
(* Mutant: the users are not counted. *)
CountUsers_Not(s) ==
    /\ Begin(s)
    /\ Goes(s, "create")
    /\ UNCHANGED <<env, user, entity, row, checked>>

(* onModuleInit.  A start that failed is made again.                       *)
CountUsers(s) ==
    /\ Begin(s)
    /\ Goes(s, IF user = NoUser THEN "create" ELSE "reset")
    /\ UNCHANGED <<env, user, entity, row, checked>>

DefaultPassword(s) ==
    IF Strong(env[s].password) THEN env[s].password ELSE Random

(* The email is unique: of two starts that found no user, one fails.       *)
CreateAdmin(s) ==
    /\ step[s] = "create"
    /\ IF user = NoUser
       THEN /\ user' = [hash |-> DefaultPassword(s), mustChange |-> TRUE]
            /\ Goes(s, "reset")
       ELSE Goes(s, "refused") /\ UNCHANGED user
    /\ UNCHANGED <<env, overlapped, entity, row, checked>>

(* Mutants: the flag is left as it is; only the flag is set.               *)
FindForReset_HashOnly(s) ==
    /\ step[s] = "reset"
    /\ IF env[s].reset /\ Strong(env[s].password)
       THEN /\ entity' = [entity EXCEPT ![s] = [user EXCEPT !.hash = env[s].password]]
            /\ Goes(s, "select")
       ELSE Goes(s, "done") /\ UNCHANGED entity
    /\ UNCHANGED <<env, overlapped, user, row, checked>>

FindForReset_FlagOnly(s) ==
    /\ step[s] = "reset"
    /\ IF env[s].reset /\ Strong(env[s].password)
       THEN /\ entity' = [entity EXCEPT ![s] = [user EXCEPT !.mustChange = TRUE]]
            /\ Goes(s, "select")
       ELSE Goes(s, "done") /\ UNCHANGED entity
    /\ UNCHANGED <<env, overlapped, user, row, checked>>

FindForReset(s) ==
    /\ step[s] = "reset"
    /\ IF env[s].reset /\ Strong(env[s].password)
       THEN /\ entity' = [entity EXCEPT ![s] =
                            [hash |-> env[s].password, mustChange |-> TRUE]]
            /\ Goes(s, "select")
       ELSE Goes(s, "done") /\ UNCHANGED entity
    /\ UNCHANGED <<env, overlapped, user, row, checked>>

(* Mutant: the current password is not compared. *)
Accepts_Anybody(current, new) == Strong(new)

(* The two checks of changePassword.                                       *)
Accepts(current, new) == current = user.hash /\ Strong(new)

(* changePassword up to the hashing of the new password, in a process that *)
(* has started.                                                            *)
ChangePassword(c, current, new) ==
    /\ Begin(c) /\ \E s \in Starts : step[s] = "done"
    /\ IF Accepts(current, new)
       THEN /\ entity' = [entity EXCEPT ![c] = [hash |-> new, mustChange |-> FALSE]]
            /\ checked' = [checked EXCEPT ![c] = current]
            /\ Goes(c, "select")
       ELSE Goes(c, "refused") /\ UNCHANGED <<entity, checked>>
    /\ UNCHANGED <<env, user, row>>

SelectForSave(a) ==
    /\ step[a] = "select"
    /\ row' = [row EXCEPT ![a] = user]
    /\ Goes(a, "update")
    /\ UNCHANGED <<env, overlapped, user, entity, checked>>

UpdateRow(a) ==
    /\ step[a] = "update"
    /\ user' = [hash |-> entity[a].hash,
                mustChange |-> IF entity[a].mustChange # row[a].mustChange
                               THEN entity[a].mustChange ELSE user.mustChange]
    /\ Goes(a, "done")
    /\ UNCHANGED <<env, overlapped, entity, row, checked>>

AccountsNext ==
    \/ \E s \in Starts : CountUsers(s) \/ CreateAdmin(s) \/ FindForReset(s)
    \/ \E c \in Changes, current \in Passwords, new \in Passwords :
         ChangePassword(c, current, new)
    \/ \E a \in Actors : SelectForSave(a) \/ UpdateRow(a)

AccountsSpec == AccountsInit /\ [][AccountsNext]_accountsVars

(* A start runs until it ends, and the container is started again.         *)
AccountsFairness ==
    \A s \in Starts :
        WF_accountsVars(\/ CountUsers(s) \/ CreateAdmin(s) \/ FindForReset(s)
                        \/ SelectForSave(s) \/ UpdateRow(s))

AccountsFairSpec == AccountsSpec /\ AccountsFairness

-----------------------------------------------------------------------------
(* Only a change by the user clears the flag: a password that need not be  *)
(* changed is one that a finished change chose, be it the temporary one    *)
(* over again, which nothing refuses; a start never leaves its own so.     *)
(* (A reset that overlaps a change may leave the flag cleared.)            *)
UnflaggedIsChosen ==
    ~overlapped /\ user # NoUser /\ ~user.mustChange =>
        \E c \in Changes : step[c] = "done" /\ entity[c].hash = user.hash

(* A password is replaced only by somebody who gave that very password,    *)
(* "Current password is incorrect" refuses everybody else: unless it was   *)
(* changed after the comparison.                                           *)
CurrentIsChecked ==
    [][\A c \in Changes : step[c] = "update" /\ step'[c] = "done" /\ ~overlapped
                             => checked[c] = user.hash]_accountsVars

(* A start that was to reset the password ends with the configured one in  *)
(* the row, to be changed at the next login.                               *)
ResetTakes ==
    [][\A s \in Starts :
          step[s] = "update" /\ step'[s] = "done" /\ ~overlapped
            => user' = [hash |-> env[s].password, mustChange |-> TRUE]]_accountsVars

(* Every start succeeds in the end, the one that lost the race to create   *)
(* the account at its next attempt.                                        *)
StartsSucceed == \A s \in Starts : <>(step[s] = "done")

=============================================================================
