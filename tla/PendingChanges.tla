--------------------------- MODULE PendingChanges ---------------------------
(***************************************************************************)
(* What FortiManager has waiting for installation in one ADOM.  A target   *)
(* is a VDOM of a device, and has one policy package.                      *)
(***************************************************************************)
EXTENDS Naturals, Sequences

CONSTANTS
    Targets,       \* the VDOMs
    OnDevice,      \* OnDevice[r]: the device of r
    AssignedTo,    \* AssignedTo[r]: the package of r
    DeviceOrder,   \* the devices, in the order FortiManager lists them
    Changes,       \* the changes that a target may have pending
    NoChange,
    MaxEdits       \* how often a pending change may change

ASSUME PendingAssumption ==
    /\ DeviceOrder \in Seq({DeviceOrder[i] : i \in DOMAIN DeviceOrder})
    /\ DeviceOrder # << >>

VARIABLES
    pending,       \* pending[r]: the change that waits for installation
    edits          \* how many have changed so far

pendingVars == <<pending, edits>>

NothingPending == [r \in Targets |-> NoChange]

PendingInit ==
    /\ pending \in [Targets -> Changes \cup {NoChange}]
    /\ edits = 0

TargetsOf(d) == {r \in Targets : OnDevice[r] = d}
WaitingIn(scope) == {<<r, pending[r]>> : r \in {q \in scope : pending[q] # NoChange}}

(* FortiManager's users change what is pending, or install it.               *)
EditPending(r) ==
    /\ edits < MaxEdits
    /\ edits' = edits + 1
    /\ \E c \in (Changes \cup {NoChange}) \ {pending[r]} :
          pending' = [pending EXCEPT ![r] = c]
=============================================================================
