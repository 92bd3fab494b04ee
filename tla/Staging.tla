------------------------------ MODULE Staging -------------------------------
(***************************************************************************)
(* Stagers that publish readings of documents (publish_glm_staging_record, *)
(* analyzer/ocr/ingestion.py).  A stager takes the lock of the document,   *)
(* gives the live record a second, numbered name under attempts/, removes  *)
(* the first one and moves a complete temporary file into its place.       *)
(***************************************************************************)
EXTENDS Naturals, Sequences, SequencesExt

CONSTANTS
  Doc, Stager, NoDoc,
  MaxReadings,   (* bound on the readings that are published               *)
  MaxAttempts    (* bound on the archived attempts of a document           *)

ASSUME StagingAssumption == MaxReadings \in Nat /\ MaxAttempts \in Nat /\ NoDoc \notin Doc

VARIABLES
  live,       (* the reading in the live record of a document, 0 if none   *)
  attempts,   (* its archived readings, by attempt number                  *)
  stager,     (* what each stager is doing                                 *)
  count,      (* readings published so far                                 *)
  published   (* history: the readings published for each document         *)

stagingVars == <<live, attempts, stager, count, published>>

Rest == [at |-> "idle", doc |-> NoDoc]
Reading == 1 .. MaxReadings

StagingTypeOK ==
  /\ live \in [Doc -> 0 .. MaxReadings]
  /\ attempts \in [Doc -> Seq(Reading)] /\ \A d \in Doc : Len(attempts[d]) <= MaxAttempts
  /\ stager \in [Stager -> [at : {"idle", "locked", "linked", "cleared"}, doc : Doc \union {NoDoc}]]
  /\ \A s \in Stager : stager[s].at = "idle" <=> stager[s].doc = NoDoc
  /\ count \in 0 .. MaxReadings
  /\ published \in [Doc -> SUBSET Reading]

Locked(d) == \E s \in Stager : stager[s].doc = d

(* A model has read the document; its reading is now published.            *)
Enters(d) == [at |-> IF live[d] = 0 THEN "cleared" ELSE "locked", doc |-> d]

(* Mutant: publication does not take the document's lock.                  *)
LockNothing(s, d) ==
  /\ stager[s] = Rest
  /\ stager' = [stager EXCEPT ![s] = Enters(d)]
  /\ UNCHANGED <<live, attempts, count, published>>

LockDocument(s, d) ==
  /\ stager[s] = Rest /\ ~Locked(d)
  /\ stager' = [stager EXCEPT ![s] = Enters(d)]
  /\ UNCHANGED <<live, attempts, count, published>>

(* The number is one more than the last: no archived attempt is replaced,  *)
(* and one that a dead stager linked is linked again.                      *)
LinkAttempt(s) ==
  /\ stager[s].at = "locked"
  /\ LET d == stager[s].doc IN
       /\ Len(attempts[d]) < MaxAttempts
       /\ attempts' = [attempts EXCEPT ![d] = IF live[d] = 0 THEN @ ELSE Append(@, live[d])]
  /\ stager' = [stager EXCEPT ![s].at = "linked"]
  /\ UNCHANGED <<live, count, published>>

(* Mutant: the live record goes before it has its second name.             *)
UnlinkFirst(s) ==
  /\ stager[s].at \in {"locked", "linked"}
  /\ live' = [live EXCEPT ![stager[s].doc] = 0]
  /\ stager' = [stager EXCEPT ![s].at = "cleared"]
  /\ UNCHANGED <<attempts, count, published>>

UnlinkLive(s) ==
  /\ stager[s].at = "linked"
  /\ live' = [live EXCEPT ![stager[s].doc] = 0]
  /\ stager' = [stager EXCEPT ![s].at = "cleared"]
  /\ UNCHANGED <<attempts, count, published>>

WriteRecord(s) ==
  /\ stager[s].at = "cleared" /\ count < MaxReadings
  /\ count' = count + 1
  /\ live' = [live EXCEPT ![stager[s].doc] = count + 1]
  /\ published' = [published EXCEPT ![stager[s].doc] = @ \union {count + 1}]
  /\ stager' = [stager EXCEPT ![s] = Rest]
  /\ UNCHANGED attempts

(* The write of the temporary file fails, or the process is killed.        *)
StagerDies(s) ==
  /\ stager[s] # Rest
  /\ stager' = [stager EXCEPT ![s] = Rest]
  /\ UNCHANGED <<live, attempts, count, published>>

StagingInit ==
  /\ live = [d \in Doc |-> 0] /\ count = 0
  /\ attempts = [d \in Doc |-> <<>>] /\ published = [d \in Doc |-> {}]
  /\ stager = [s \in Stager |-> Rest]

StagingNext ==
  \E s \in Stager :
    \/ \E d \in Doc : LockDocument(s, d)
    \/ LinkAttempt(s) \/ UnlinkLive(s) \/ WriteRecord(s) \/ StagerDies(s)

StagingSpec == StagingInit /\ [][StagingNext]_stagingVars

-----------------------------------------------------------------------------
(* Every reading that was published is the live record or is archived,     *)
(* also when stagers of one document race, or die between two of its names.*)
AttemptsAreKept == \A d \in Doc : published[d] \subseteq Range(attempts[d]) \union {live[d]}

(* The live records change only as the audit expects of them.              *)
Record == INSTANCE StagedRecord WITH busy <- {d \in Doc : Locked(d)}
StagersWriteRecords == Record!RecordSpec

(* The files of the documents and the threads that hold their locks agree, *)
(* and nothing that was published is lost.                                 *)
StagingInvariant == StagingTypeOK /\ AttemptsAreKept
=============================================================================
