---------------------------- MODULE AccountStore ----------------------------
(***************************************************************************)
(* The durable account registry of internal/account/store.go.              *)
(*                                                                         *)
(* Every mutator of the store clones the registry, changes the clone,      *)
(* writes the file with an atomic rename and only then publishes the       *)
(* clone in memory, all under the store mutex.  Memory and disk therefore  *)
(* agree between two mutators, and a mutator is an operator from a         *)
(* registry to a registry that an action either applies or, when the write *)
(* fails, does not.                                                        *)
(*                                                                         *)
(* A registry maps every account to an entry.  Aliases, identities, time   *)
(* stamps and error texts are left out.  The observed runtime state keeps  *)
(* only what the registry's own transitions tell apart: "LIVE" stands for  *)
(* any state a running driver reports.                                     *)
(***************************************************************************)
EXTENDS Naturals

CONSTANTS
    WeChatAccount,      \* account IDs that are or may become WeChat accounts
    WeComAccount        \* account IDs that are or may become WeCom accounts

ASSUME PlatformsDisjoint == WeChatAccount \cap WeComAccount = {}

Account == WeChatAccount \cup WeComAccount

Platform == {"wechat", "wecom"}

PlatformOf(a) == IF a \in WeChatAccount THEN "wechat" ELSE "wecom"

RuntimeState == {"STOPPED", "STARTING", "LIVE", "DEGRADED"}

\* "unborn" is an ID not allocated yet, "gone" one whose entry was removed.
Entry == [status   : {"unborn", "present", "gone"},
          active   : BOOLEAN,
          deleting : BOOLEAN,
          state    : RuntimeState]

Registry == [Account -> Entry]

FreshEntry == [status |-> "unborn", active |-> FALSE,
               deleting |-> FALSE, state |-> "STOPPED"]

-----------------------------------------------------------------------------
\* Resolve finds the entry; callers then refuse a deleting account.
Resolves(reg, a) == reg[a].status = "present"
Usable(reg, a)   == Resolves(reg, a) /\ ~reg[a].deleting

\* Store.Add: a never-used ID becomes an inactive, stopped account.
AddAccount(reg, a) == [reg EXCEPT ![a].status = "present"]

\* Store.Activate: the target takes the platform slot, whoever held it stops.
ActivateAccount(reg, a) ==
    [b \in Account |->
        IF b = a
        THEN [reg[b] EXCEPT !.active = TRUE, !.state = "STARTING"]
        ELSE IF PlatformOf(b) = PlatformOf(a) /\ reg[b].active
             THEN [reg[b] EXCEPT !.active = FALSE, !.state = "STOPPED"]
             ELSE reg[b]]

\* Store.Deactivate
DeactivateAccount(reg, a) ==
    [reg EXCEPT ![a].active = FALSE, ![a].state = "STOPPED"]

\* Mutant: a late status is written on an account being deleted.
UpdateStatusAlways(reg, a, s) ==
    IF Resolves(reg, a) THEN [reg EXCEPT ![a].state = s] ELSE reg

\* Store.UpdateStatus: refused for a deleting or unknown account, and
\* otherwise written whether or not the account is active.
UpdateStatus(reg, a, s) ==
    IF Usable(reg, a) THEN [reg EXCEPT ![a].state = s] ELSE reg

\* Store.BeginDelete: guarded by the caller with CanBeginDelete.
CanBeginDelete(reg, a) == Resolves(reg, a) /\ ~reg[a].active

MarkDeleting(reg, a) ==
    [reg EXCEPT ![a].deleting = TRUE, ![a].active = FALSE, ![a].state = "STOPPED"]

\* Store.FinalizeDelete, the registry half: the entry disappears.
RemoveEntry(reg, a) ==
    [reg EXCEPT ![a] = [status |-> "gone", active |-> FALSE,
                        deleting |-> FALSE, state |-> "STOPPED"]]

\* Open: a deleting entry read from disk is normalised to inactive, stopped.
OpenRegistry(reg) ==
    [a \in Account |->
        IF Resolves(reg, a) /\ reg[a].deleting
        THEN [reg[a] EXCEPT !.active = FALSE, !.state = "STOPPED"]
        ELSE reg[a]]

-----------------------------------------------------------------------------
\* One platform slot is requested by at most one account.
OneActivePerPlatform(reg) ==
    \A a, b \in Account :
        reg[a].active /\ reg[b].active /\ PlatformOf(a) = PlatformOf(b) => a = b

\* A deletion marker means unusable: inactive and stopped.
DeletingIsInert(reg) ==
    \A a \in Account :
        reg[a].deleting => ~reg[a].active /\ reg[a].state = "STOPPED"
=============================================================================
