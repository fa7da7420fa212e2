--------------------------- MODULE SnapshotStore ---------------------------
(***************************************************************************)
(* What the tile database promises its connections: one writer replaces    *)
(* the committed pages in one step, a reader sees the pages committed when *)
(* it began until it ends, and a crash leaves the committed pages, or      *)
(* those of the commit that was going on, and nothing else.                *)
(***************************************************************************)
CONSTANTS Readers, Pages, Values, None

VARIABLES
  store,    (* the committed pages *)
  pending,  (* the pages a commit in progress makes; else store *)
  snap      (* what each reader sees, None outside a read transaction *)

vars == <<store, pending, snap>>

Init ==
  /\ store \in [Pages -> Values]
  /\ pending = store
  /\ snap = [r \in Readers |-> None]

Begin(r) == /\ snap[r] = None
            /\ snap' = [snap EXCEPT ![r] = store]
            /\ UNCHANGED <<store, pending>>

End(r) == /\ snap[r] # None
          /\ snap' = [snap EXCEPT ![r] = None]
          /\ UNCHANGED <<store, pending>>

StartCommit == /\ pending' \in [Pages -> Values]
               /\ UNCHANGED <<store, snap>>

Commit == /\ store' = pending
          /\ UNCHANGED <<pending, snap>>

Abort == /\ pending' = store
         /\ UNCHANGED <<store, snap>>

Crash == /\ store' \in {store, pending}
         /\ pending' = store'
         /\ snap' = [r \in Readers |-> None]

Next == \/ \E r \in Readers : Begin(r) \/ End(r)
        \/ StartCommit \/ Commit \/ Abort \/ Crash

Spec == Init /\ [][Next]_vars
=============================================================================
