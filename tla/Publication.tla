---------------------------- MODULE Publication ----------------------------
(***************************************************************************)
(* Single-host ownership of the working database and publication of sealed *)
(* read versions (persistence/ownership.py; Database.__init__,             *)
(* publish_snapshot and close in persistence/database.py).                 *)
(*                                                                         *)
(* Any process may open the database as its owner or as a reader, and may  *)
(* be killed at any step.  The content of the working file is the number   *)
(* of commits it holds; a snapshot is named by the content sealed in it.   *)
(* flock releases a dead process's lease, and DuckDB keeps a read-write    *)
(* connection and another process's connection to one file apart.          *)
(***************************************************************************)
EXTENDS Naturals

CONSTANTS
  Process,     (* coordinators, maintenance tools and readers             *)
  NoSnapshot,
  MaxCommits   (* bound on the commits of an instance                     *)

ASSUME PublicationAssumption ==
  /\ MaxCommits \in Nat
  /\ NoSnapshot \notin Nat

VARIABLES
  disk,       (* commits in the working file                              *)
  snapshots,  (* sealed versions in the snapshot directory                *)
  pointer,    (* the publication pointer and the operator's hold in it    *)
  pc,         (* what each process is doing                               *)
  snap        (* the version a process resolved, or cloned                *)

publicationVars == <<disk, snapshots, pointer, pc, snap>>

Content == 0 .. MaxCommits

(* Phases of an owner: lease taken, connected, closed for the clone, clone *)
(* in place, clone failed, reopened with the pointer still to be replaced. *)
OwnerPhase == {"leased", "open", "sealing", "cloned", "failed", "announcing"}
ReaderPhase == {"resolving", "probing", "resolved", "reading"}

PublicationTypeOK ==
  /\ disk \in Content
  /\ snapshots \subseteq Content
  /\ pointer \in [snapshot : Content \union {NoSnapshot}, held : BOOLEAN]
  /\ pc \in [Process -> {"down", "refused"} \union OwnerPhase \union ReaderPhase]
  /\ snap \in [Process -> Content \union {NoSnapshot}]

Owns(p)         == pc[p] \in OwnerPhase
Probes(p)       == pc[p] = "probing"
Connected(p)    == pc[p] \in {"open", "announcing"}
ReadsWorking(p) == pc[p] = "reading" /\ snap[p] = NoSnapshot

Goto(p, phase) == pc' = [pc EXCEPT ![p] = phase]

-----------------------------------------------------------------------------
(* Owners.                                                                 *)

(* Mutant: the lease is not exclusive.                                     *)
AcquireShared(p) ==
  /\ pc[p] = "down"
  /\ Goto(p, "leased")
  /\ UNCHANGED <<disk, snapshots, pointer, snap>>

(* database_owner: LOCK_EX | LOCK_NB, before connecting.                   *)
Acquire(p) ==
  /\ pc[p] = "down"
  /\ \A q \in Process : ~Owns(q) /\ ~Probes(q)
  /\ Goto(p, "leased")
  /\ UNCHANGED <<disk, snapshots, pointer, snap>>

(* BlockingIOError: any lock on the lease file refuses the writer.         *)
AcquireRefused(p) ==
  /\ pc[p] = "down"
  /\ \E q \in Process : Owns(q) \/ Probes(q)
  /\ Goto(p, "refused")
  /\ UNCHANGED <<disk, snapshots, pointer, snap>>

(* duckdb.connect; a failure gives the lease back.                         *)
Connect(p) ==
  /\ pc[p] = "leased"
  /\ Goto(p, IF \E q \in Process : ReadsWorking(q) THEN "down" ELSE "open")
  /\ UNCHANGED <<disk, snapshots, pointer, snap>>

Commit(p) ==
  /\ pc[p] = "open"
  /\ disk < MaxCommits
  /\ disk' = disk + 1
  /\ UNCHANGED <<snapshots, pointer, pc, snap>>

(* publish_snapshot: the hold is looked up once, then CHECKPOINT and close.*)
Seal(p) ==
  /\ pc[p] = "open"
  /\ ~pointer.held
  /\ Goto(p, "sealing")
  /\ UNCHANGED <<disk, snapshots, pointer, snap>>

(* The reflink clone, made under a temporary name and renamed.             *)
Clone(p) ==
  /\ pc[p] = "sealing"
  /\ snapshots' = snapshots \union {disk}
  /\ snap' = [snap EXCEPT ![p] = disk]
  /\ Goto(p, "cloned")
  /\ UNCHANGED <<disk, pointer>>

CloneFails(p) ==
  /\ pc[p] = "sealing"
  /\ Goto(p, "failed")
  /\ UNCHANGED <<disk, snapshots, pointer, snap>>

(* Mutant: the connection is opened whoever reads the file.                *)
ReopenRegardless(p) ==
  /\ pc[p] \in {"cloned", "failed"}
  /\ Goto(p, IF pc[p] = "cloned" THEN "announcing" ELSE "open")
  /\ UNCHANGED <<disk, snapshots, pointer, snap>>

(* Reopen the working file in any case; a failure closes the database and  *)
(* releases the lease.                                                     *)
Reopen(p) ==
  /\ pc[p] \in {"cloned", "failed"}
  /\ Goto(p, IF \E q \in Process : ReadsWorking(q) THEN "down"
             ELSE IF pc[p] = "cloned" THEN "announcing" ELSE "open")
  /\ UNCHANGED <<disk, snapshots, pointer, snap>>

(* os.replace of the pointer.  The new one never carries a hold.           *)
Announce(p) ==
  /\ pc[p] = "announcing"
  /\ pointer' = [snapshot |-> snap[p], held |-> FALSE]
  /\ Goto(p, "open")
  /\ UNCHANGED <<disk, snapshots, snap>>

-----------------------------------------------------------------------------
(* Readers.                                                                *)

(* resolve_read_path: the pointer first ...                                *)
Resolve(p) ==
  /\ pc[p] = "down"
  /\ snap' = [snap EXCEPT ![p] = pointer.snapshot]
  /\ Goto(p, "resolving")
  /\ UNCHANGED <<disk, snapshots, pointer>>

(* ... then a shared lock on the lease file, for as long as it takes to    *)
(* release it again.  A reader without a version is turned away by an owner.*)
Probe(p) ==
  /\ pc[p] = "resolving"
  /\ Goto(p, IF \A q \in Process : ~Owns(q) THEN "probing"
             ELSE IF snap[p] # NoSnapshot THEN "resolved" ELSE "down")
  /\ UNCHANGED <<disk, snapshots, pointer, snap>>

EndProbe(p) ==
  /\ pc[p] = "probing"
  /\ Goto(p, "resolved")
  /\ UNCHANGED <<disk, snapshots, pointer, snap>>

(* duckdb.connect(read_only=True) of what was resolved.                    *)
OpenRead(p) ==
  /\ pc[p] = "resolved"
  /\ Goto(p, IF snap[p] = NoSnapshot /\ \E q \in Process : Connected(q)
             THEN "down" ELSE "reading")
  /\ UNCHANGED <<disk, snapshots, pointer, snap>>

-----------------------------------------------------------------------------
(* Ends, and the operator.                                                 *)

(* close(), or the process is killed: either releases lock and connection. *)
Leave(p) ==
  /\ pc[p] # "down"
  /\ Goto(p, "down")
  /\ UNCHANGED <<disk, snapshots, pointer, snap>>

PlaceHold ==
  /\ pointer.snapshot # NoSnapshot /\ ~pointer.held
  /\ pointer' = [pointer EXCEPT !.held = TRUE]
  /\ UNCHANGED <<disk, snapshots, pc, snap>>

ReleaseHold ==
  /\ pointer.held
  /\ pointer' = [pointer EXCEPT !.held = FALSE]
  /\ UNCHANGED <<disk, snapshots, pc, snap>>

(* The lease file exists: some owner has opened the database before.       *)
PublicationInit ==
  /\ disk = 0
  /\ snapshots = {}
  /\ pointer = [snapshot |-> NoSnapshot, held |-> FALSE]
  /\ pc = [p \in Process |-> "down"]
  /\ snap = [p \in Process |-> NoSnapshot]

PublicationNext ==
  \/ \E p \in Process :
       \/ Acquire(p) \/ AcquireRefused(p) \/ Connect(p) \/ Commit(p)
       \/ Seal(p) \/ Clone(p) \/ CloneFails(p) \/ Reopen(p) \/ Announce(p)
       \/ Resolve(p) \/ Probe(p) \/ EndProbe(p) \/ OpenRead(p) \/ Leave(p)
  \/ PlaceHold \/ ReleaseHold

PublicationSpec == PublicationInit /\ [][PublicationNext]_publicationVars

-----------------------------------------------------------------------------
(* Safety.                                                                 *)

(* At most one process owns the database, also while publish_snapshot has  *)
(* its connection closed, and nobody else is connected to the working file *)
(* while the owner is.                                                     *)
SingleOwner ==
  /\ \A p, q \in Process : Owns(p) /\ Owns(q) => p = q
  /\ \A p, q \in Process : Connected(p) => ~ReadsWorking(q)

(* The pointer names a sealed version that exists, and every version a     *)
(* reader was sent to still does: no order of clone, reopen, announcement  *)
(* and crash leaves a dangling pointer.                                    *)
PublishedIsSealed ==
  /\ pointer.snapshot # NoSnapshot => pointer.snapshot \in snapshots
  /\ \A p \in Process : pc[p] \in ReaderPhase /\ snap[p] # NoSnapshot => snap[p] \in snapshots

(* What is announced is the whole working database of that moment: no      *)
(* commit slips in between the clone and its announcement, and no slow     *)
(* publisher replaces a newer version by an older one.                     *)
AnnouncesTheLatest ==
  [][pointer'.snapshot # pointer.snapshot => pointer'.snapshot = disk]_publicationVars

View(p) == IF snap[p] = NoSnapshot THEN disk ELSE snap[p]

(* A read stays pinned: what an open reader sees never changes under it,   *)
(* neither a published version nor the unpublished working file.           *)
PinnedReads ==
  [][\A p \in Process :
       pc[p] = "reading" /\ pc'[p] = "reading" => View(p)' = View(p)]_publicationVars

(* Writers: one at a time, and what they leave behind is complete.         *)
OwnershipInvariant == PublicationTypeOK /\ SingleOwner /\ PublishedIsSealed

(* Readers: the latest version is announced, and an open read is pinned.   *)
ReadersAreServed == AnnouncesTheLatest /\ PinnedReads

-----------------------------------------------------------------------------
(* What the documentation says and these runs refute.                      *)

(* A hold pins the published version until the operator releases it.       *)
HoldPinsPublication ==
  [][pointer.held => pointer'.snapshot = pointer.snapshot]_publicationVars
=============================================================================
