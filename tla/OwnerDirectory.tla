--------------------------- MODULE OwnerDirectory ---------------------------
(***************************************************************************)
(* What the sns-rewards canister promises to its callers, the Relays: one   *)
(* directory of neuron owners at a time, under an id that is never given    *)
(* to another directory.  While an id is answered its content, its SNS and  *)
(* the times of its scan do not change.                                     *)
(***************************************************************************)
EXTENDS Integers

CONSTANTS Roots,   \* SNS root canisters
          Owners,  \* principals
          NoDir    \* None

VARIABLES dir,     \* the directory that is answered, or NoDir
          issued   \* the last id given out

dvars == <<dir, issued>>

\* get_relay_reward_context
Context == dir

\* Mutant: the directory in force is asked, whatever the id.
ResolvableAny(id) == dir # NoDir

\* resolve_default_icp_accounts answers for this id.
Resolvable(id) == dir # NoDir /\ dir.id = id

\* state::lookup: the directory knows the owner of an account.
Knows(account) == account \in dir.owners

DirInit == dir = NoDir /\ issued = 0

\* A scan is completed.
Publish(root, owners, started, completed) ==
  /\ started <= completed
  /\ dir' = [id |-> issued + 1, root |-> root, owners |-> owners,
             started |-> started, completed |-> completed]
  /\ issued' = issued + 1

\* The SNS is changed or unset by an upgrade.
Withdraw == dir' = NoDir /\ UNCHANGED issued

DirNext ==
  \/ /\ dir' # NoDir
     /\ dir'.root \in Roots /\ dir'.owners \subseteq Owners
     /\ Publish(dir'.root, dir'.owners, dir'.started, dir'.completed)
  \/ Withdraw

DirSpec == DirInit /\ [][DirNext]_dvars
=============================================================================
