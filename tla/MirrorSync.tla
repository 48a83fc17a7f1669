----------------------------- MODULE MirrorSync -----------------------------
(***************************************************************************)
(* One append-only file of oracle.mirror.SYNCED on the two machines that   *)
(* write it, in the rclone mirror between them and, for the decisions      *)
(* sidecar, in the vault beside the laptop.                                *)
(*                                                                         *)
(*   - a reconcile fetches the mirror's copy, merges it into the local     *)
(*     file and uploads the result when it is the longer; nothing locks    *)
(*     the mirror between the fetch and the upload;                        *)
(*   - the droplet's nightly opens with a reconcile, appends rows, and     *)
(*     closes with backup.sh, which overwrites the mirror wholesale;       *)
(*   - a triage session on the laptop aligns the file with its vault copy, *)
(*     then appends every decision to both.                                *)
(***************************************************************************)
EXTENDS SequencesExt

CONSTANTS
  Shared,   \* rows the laptop had entered, and shared in part, before Init
  MaxRows,  \* bound: rows a machine ever enters
  Faults    \* which of AllFaults the environment may commit

AllFaults ==
  {"race",        \* the laptop reconciles while the droplet's nightly runs
   "outage",      \* an rclone command fails and says so
   "unreadable",  \* a failed fetch is not recognised and reads as an empty file
   "crash",       \* a session dies between its two appends
   "overlap",     \* a scheduled pull runs while a session is open
   "vaultless",   \* an append to the vault fails
   "loss"}        \* the laptop's data/ had been lost, in part or whole

ASSUME ConstantsAssumption ==
  /\ Shared \in Nat /\ MaxRows \in Nat /\ Shared <= MaxRows
  /\ Faults \subseteq AllFaults

Machines == {"laptop", "droplet"}
Row == [by : Machines, n : 1 .. MaxRows]

VARIABLES
  local,    \* [Machines -> file]: the copy on each disk
  remote,   \* the mirror's copy; <<>> before its first upload
  vault,    \* the laptop's vault copy
  entered,  \* [Machines -> rows entered so far]
  sync,     \* [Machines -> the reconcile in progress]
  session,  \* the triage session on the laptop
  working   \* the droplet's nightly is past data-pull and not yet backed up

vars == <<local, remote, vault, entered, sync, session, working>>

NoSync    == [at |-> "idle", held |-> <<>>, merged |-> <<>>]
NoSession == [open |-> FALSE, mirroring |-> FALSE]

(***************************************************************************)
(* The shape of every variable: four copies of one file of rows, a         *)
(* reconcile per machine with the copies it has read, and one session.     *)
(* What the proofs about the copies start from.                            *)
(***************************************************************************)
TypeOK ==
  /\ local \in [Machines -> Seq(Row)]
  /\ remote \in Seq(Row) /\ vault \in Seq(Row)
  /\ entered \in [Machines -> 0 .. MaxRows]
  /\ sync \in [Machines -> [at : {"idle", "fetched", "read", "merged"},
                            held : Seq(Row), merged : Seq(Row)]]
  /\ session \in [open : BOOLEAN, mirroring : BOOLEAN]
  /\ working \in BOOLEAN

Past(n) == [i \in 1 .. n |-> [by |-> "laptop", n |-> i]]

\* Every copy holds some beginning of the laptop's history.
Init ==
  /\ \E onLaptop, onDroplet, onMirror, inVault \in 0 .. Shared :
       /\ onDroplet <= onMirror
       /\ "loss" \in Faults \/ onLaptop = Shared
       /\ local = [m \in Machines |-> Past(IF m = "laptop" THEN onLaptop ELSE onDroplet)]
       /\ remote = Past(onMirror)
       /\ vault = Past(inVault)
  /\ entered = [m \in Machines |-> IF m = "laptop" THEN Shared ELSE 0]
  /\ sync = [m \in Machines |-> NoSync]
  /\ session = NoSession
  /\ working = FALSE

-----------------------------------------------------------------------------
(* core.jsonl_sync                                                         *)

\* Places of the mirror's rows the local file lacks, each row's first only.
Unseen(own, held) ==
  {i \in DOMAIN held : held[i] \notin Range(own) /\ \A h \in 1 .. i - 1 : held[h] # held[i]}

Nth(S, j) == CHOOSE i \in S : Cardinality({h \in S : h <= i}) = j

Picked(held, S) == [j \in 1 .. Cardinality(S) |-> held[Nth(S, j)]]

\* Mutations: the mirror's rows first; unfiltered; last first; rows compared
\* by place, as if one file continued the other.
merge_linesRemoteFirst(own, held) == Picked(held, Unseen(<<>>, held)) \o Picked(own, Unseen(held, own))
merge_linesUnfiltered(own, held)  == own \o held
merge_linesReversed(own, held)    == own \o Reverse(Picked(held, Unseen(own, held)))
merge_linesByPlace(own, held)     == own \o SubSeq(held, Len(own) + 1, Len(held))

\* Local verbatim, then every row local does not hold, in the mirror's order.
merge_lines(own, held) == own \o Picked(held, Unseen(own, held))

-----------------------------------------------------------------------------
(* oracle.mirror.reconcile, one step per file or mirror access.            *)

Idle(m) == sync[m].at = "idle"

\* The schedule keeps the laptop's pull clear of the nightly's hours; a push
\* at the end of a session keeps to no schedule.
MayReach(m) ==
  \/ "race" \in Faults
  \/ m = "laptop"  /\ Idle("droplet") /\ ~working
  \/ m = "droplet" /\ Idle("laptop")

MayStart(m) ==
  /\ Idle(m) /\ MayReach(m)
  /\ m = "laptop"  => "overlap" \in Faults \/ ~session.open
  /\ m = "droplet" => ~working

Fetched(m, body) ==
  /\ MayStart(m)
  /\ sync' = [sync EXCEPT ![m] = [at |-> "fetched", held |-> body, merged |-> <<>>]]
  /\ UNCHANGED <<local, remote, vault, entered, session, working>>

\* A fetch that fails for any reason but a dead token is taken for a mirror
\* that has never held the file.
Fetch(m) ==
  \E body \in {remote} \cup (IF "unreadable" \in Faults THEN {<<>>} ELSE {}) :
    Fetched(m, body)

\* merge_file: the local file is read, and written only when rows were added.
ReadLocal(m) ==
  /\ sync[m].at = "fetched"
  /\ LET added == Unseen(local[m], sync[m].held) # {} IN
     sync' = [sync EXCEPT ![m] =
       [at     |-> IF added THEN "read" ELSE "merged",
        held   |-> @.held,
        merged |-> IF added THEN merge_lines(local[m], @.held) ELSE <<>>]]
  /\ UNCHANGED <<local, remote, vault, entered, session, working>>

WriteLocal(m) ==
  /\ sync[m].at = "read"
  /\ local' = [local EXCEPT ![m] = sync[m].merged]
  /\ sync' = [sync EXCEPT ![m] = [at |-> "merged", held |-> @.held, merged |-> <<>>]]
  /\ UNCHANGED <<remote, vault, entered, session, working>>

EndSync(m) ==
  /\ sync[m].at = "merged"
  /\ sync' = [sync EXCEPT ![m] = NoSync]
  /\ working' = (working \/ m = "droplet")
  /\ UNCHANGED <<local, vault, entered, session>>

Upload(m) ==
  /\ EndSync(m)
  /\ remote' = IF Len(local[m]) > Len(sync[m].held) THEN local[m] ELSE remote

UploadFails(m) ==
  /\ "outage" \in Faults
  /\ EndSync(m)
  /\ UNCHANGED remote

ReconcileStep(m) ==
  \/ Fetch(m) \/ ReadLocal(m) \/ WriteLocal(m)
  \/ Upload(m) \/ UploadFails(m)

-----------------------------------------------------------------------------
(* The droplet's nightly.                                                  *)

\* data-pull fails; the run goes on over local ore.
PullFails ==
  /\ "outage" \in Faults
  /\ MayStart("droplet")
  /\ working' = TRUE
  /\ UNCHANGED <<local, remote, vault, entered, sync, session>>

NextRow(m) == [by |-> m, n |-> entered[m] + 1]

Enter(m) ==
  /\ entered[m] < MaxRows
  /\ entered' = [entered EXCEPT ![m] = @ + 1]
  /\ local' = [local EXCEPT ![m] = Append(@, NextRow(m))]

RecordOnDroplet ==
  /\ working /\ Enter("droplet")
  /\ UNCHANGED <<remote, vault, sync, session, working>>

Backup ==
  /\ working
  /\ working' = FALSE
  /\ remote' = IF local["droplet"] = <<>> THEN remote ELSE local["droplet"]
  /\ UNCHANGED <<local, vault, entered, sync, session>>

BackupFails ==
  /\ "outage" \in Faults /\ working
  /\ working' = FALSE
  /\ UNCHANGED <<local, remote, vault, entered, sync, session>>

-----------------------------------------------------------------------------
(* oracle.decisions on the laptop.                                         *)

\* sync_mirror: the shorter copy catches up, or mirroring is off.
OpenSession ==
  LET primary == local["laptop"] IN
  /\ ~session.open
  /\ "overlap" \in Faults \/ Idle("laptop")
  /\ session' = [open |-> TRUE,
                 mirroring |-> IsPrefix(vault, primary) \/ IsPrefix(primary, vault)]
  /\ vault' = IF IsPrefix(vault, primary) THEN primary ELSE vault
  /\ local' = IF IsPrefix(primary, vault) THEN [local EXCEPT !["laptop"] = vault] ELSE local
  /\ UNCHANGED <<remote, entered, sync, working>>

\* append_decision: the sidecar first, then the vault.
Decide ==
  /\ session.open /\ Enter("laptop")
  /\ \E reached \in {TRUE} \cup (IF "vaultless" \in Faults THEN {FALSE} ELSE {}) :
       vault' = IF session.mirroring /\ reached THEN Append(vault, NextRow("laptop")) ELSE vault
  /\ UNCHANGED <<remote, sync, session, working>>

DieMidDecision ==
  /\ "crash" \in Faults
  /\ session.open /\ Enter("laptop")
  /\ session' = NoSession
  /\ UNCHANGED <<remote, vault, sync, working>>

CloseSession ==
  /\ session.open
  /\ session' = NoSession
  /\ UNCHANGED <<local, remote, vault, entered, sync, working>>

Next ==
  \/ \E m \in Machines : ReconcileStep(m)
  \/ PullFails \/ RecordOnDroplet \/ Backup \/ BackupFails
  \/ OpenSession \/ Decide \/ DieMidDecision \/ CloseSession

Spec == Init /\ [][Next]_vars

-----------------------------------------------------------------------------
(* Safety.                                                                 *)

Copies == {local[m] : m \in Machines} \cup {remote, vault}

(***************************************************************************)
(* Every copy holds each machine's rows in the order they were entered and *)
(* without a gap, so that "later lines win" never lets an old row overtake *)
(* a newer one of the same machine, whatever races and clobbers happened.  *)
(***************************************************************************)
OwnOrderKept ==
  \A copy \in Copies : \A i \in DOMAIN copy :
    \A n \in 1 .. copy[i].n - 1 :
      \E h \in 1 .. i - 1 : copy[h] = [by |-> copy[i].by, n |-> n]

(***************************************************************************)
(* No merge, restore or overwrite makes one event into two rows.           *)
(***************************************************************************)
NoRowTwice == \A copy \in Copies : IsInjective(copy)

(***************************************************************************)
(* A machine's own file is only ever appended to: nothing a reconcile does *)
(* drops, moves or rewrites a row that was there.                          *)
(***************************************************************************)
LocalOnlyGrows == [][\A m \in Machines : IsPrefix(local[m], local'[m])]_vars

(***************************************************************************)
(* The vault copy is a beginning of the laptop's file, so that the next    *)
(* session can always tell which of the two has merely stopped earlier.    *)
(***************************************************************************)
VaultFollows == IsPrefix(vault, local["laptop"])

(***************************************************************************)
(* Merging the mirror's rows cannot latch the vault copy off: every        *)
(* session mirrors.                                                        *)
(***************************************************************************)
NeverLatched == session.open => session.mirroring

(***************************************************************************)
(* A reconcile never clobbers: its upload carries the union, a superset of *)
(* what the mirror held.                                                   *)
(***************************************************************************)
UploadOnlyAdds ==
  [][\A m \in Machines : Upload(m) => Range(remote) \subseteq Range(remote')]_vars

(***************************************************************************)
(* What has reached the mirror stays there, the nightly's wholesale backup *)
(* included: what it uploads is the union too.                             *)
(***************************************************************************)
RemoteOnlyGrows == [][Range(remote) \subseteq Range(remote')]_vars

-----------------------------------------------------------------------------
(* Liveness.  The nightly and the scheduled pull run every day, each is    *)
(* started again after a failure, and rclone works infinitely often.       *)

DailyFairness ==
  /\ \A m \in Machines : /\ SF_vars(Fetched(m, remote))
                         /\ WF_vars(ReadLocal(m))
                         /\ WF_vars(WriteLocal(m))
                         /\ WF_vars(Upload(m) \/ UploadFails(m))
  /\ SF_vars(Backup)
  /\ WF_vars(CloseSession)

FairSpec == Spec /\ DailyFairness

(***************************************************************************)
(* Every row the droplet writes reaches the laptop, though pushes race,    *)
(* clobber each other and fail.                                            *)
(***************************************************************************)
LaptopCatchesUp ==
  \A n \in 1 .. MaxRows :
    entered["droplet"] >= n ~> [by |-> "droplet", n |-> n] \in Range(local["laptop"])
=============================================================================
