------------------------------- MODULE Journal -------------------------------
(***************************************************************************)
(* The log of crate sentinel-journal: its segment files, and the one       *)
(* writer that claims, appends, flushes and rolls.                         *)
(*                                                                         *)
(* A record is its sequence, its epoch, and the run of the writer that     *)
(* appended it, which stands for its payload: no run appends a sequence    *)
(* twice.  A file holds whole frames, and torn says that bytes of an       *)
(* unfinished frame follow them.  files is what any process on the machine *)
(* reads; safe and kept say how many frames and whether the header would   *)
(* survive a loss of power, which keeps any part of the rest.              *)
(***************************************************************************)
EXTENDS Integers, Sequences

CONSTANTS SegmentTarget,  \* SEGMENT_TARGET_BYTES, counted in frames
          MaxSeq,         \* bound: records ever appended
          MaxClaims,      \* bound: runs of the writer
          MaxFailures,    \* bound: writes and syncs that fail
          MaxLosses       \* bound: losses of power

ASSUME JournalAssumption ==
  /\ SegmentTarget \in Nat \ {0}
  /\ MaxSeq \in Nat /\ MaxClaims \in Nat
  /\ MaxFailures \in Nat /\ MaxLosses \in Nat

VARIABLES
  files,      \* the segments of the directory, in order of their base
  writer,     \* the claimed journal: where it is, its epoch, sequence, buffer
  durable,    \* history: the records a successful sync covered
  claims,     \* history: runs of the writer so far
  failures, losses            \* how much of each bound has been used

journal == <<files, writer, durable, claims, failures, losses>>

Records == [seq: Nat \ {0}, epoch: Nat, run: Nat]

Files == [base: Nat \ {0}, header: BOOLEAN, frames: Seq(Records),
          torn: BOOLEAN, safe: Nat, kept: BOOLEAN]

WriterStates ==
  {"down", "create", "header", "claim", "ready", "written", "poisoned"}

Writers ==
  [pc: WriterStates, epoch: Nat, next: Nat \ {0}, buffer: Seq(Records)]

JournalTypeOK ==
  /\ files \in Seq(Files)
  /\ writer \in Writers
  /\ durable \in SUBSET Records
  /\ claims \in Nat /\ failures \in Nat /\ losses \in Nat

Down == [pc |-> "down", epoch |-> 0, next |-> 1, buffer |-> <<>>]

JournalInit ==
  /\ files = <<>>
  /\ writer = Down
  /\ durable = {}
  /\ claims = 0 /\ failures = 0 /\ losses = 0
-----------------------------------------------------------------------------
Current == files[Len(files)]

SetCurrent(f) == files' = [files EXCEPT ![Len(files)] = f]

Elements(s) == {s[i] : i \in DOMAIN s}

Logged == UNION {Elements(files[i].frames) : i \in DOMAIN files}

Flushed(f) == [f EXCEPT !.safe = Len(f.frames), !.kept = TRUE]

(* scan_segment: the header is there and the sequences count from the base. *)
Readable(f) ==
  f.header /\ \A i \in DOMAIN f.frames : f.frames[i].seq = f.base + i - 1

(* What claim() scans without an error: only the last file may be torn.     *)
Scannable ==
  \A i \in DOMAIN files :
    Readable(files[i]) /\ (files[i].torn => i = Len(files))

(* The last frame of the last file that has any.                            *)
NonEmpty == {i \in DOMAIN files : files[i].frames # <<>>}

NoFrame == [seq |-> 0, epoch |-> 0]

EndFrame(f) ==
  [seq   |-> f.frames[Len(f.frames)].seq,
   epoch |-> f.frames[Len(f.frames)].epoch]

(* Mutant: a last segment that is still empty resets what was found.        *)
LastFrameOfLastFile ==
  IF files = <<>> \/ Current.frames = <<>> THEN NoFrame ELSE EndFrame(Current)

LastFrame ==
  IF NonEmpty = {} THEN NoFrame
  ELSE EndFrame(files[CHOOSE i \in NonEmpty : \A j \in NonEmpty : j <= i])

(* Mutant: the next writer takes over the epoch of the last.                *)
SameEpoch == LastFrame.epoch

NextEpoch == LastFrame.epoch + 1

(* Claim the journal: truncate a torn tail, take the next epoch, and buffer *)
(* the record of the claim, which is flushed before claim() returns.  The   *)
(* lock is free when no writer is up.                                       *)
Claim ==
  /\ writer.pc = "down"
  /\ claims < MaxClaims
  /\ Scannable
  /\ LastFrame.seq < MaxSeq
  /\ claims' = claims + 1
  /\ IF files # <<>> /\ Current.torn
       THEN SetCurrent(Flushed([Current EXCEPT !.torn = FALSE]))
       ELSE UNCHANGED files
  /\ writer' = [pc     |-> IF files = <<>> THEN "create" ELSE "claim",
                epoch  |-> NextEpoch,
                next   |-> LastFrame.seq + 2,
                buffer |-> <<[seq   |-> LastFrame.seq + 1,
                              epoch |-> NextEpoch,
                              run   |-> claims + 1]>>]
  /\ UNCHANGED <<durable, failures, losses>>

(* append(): into memory only.                                              *)
AppendRecord ==
  /\ writer.pc = "ready"
  /\ writer.next <= MaxSeq
  /\ writer' = [writer EXCEPT
       !.next = @ + 1,
       !.buffer = Append(@, [seq   |-> writer.next,
                             epoch |-> writer.epoch,
                             run   |-> claims])]
  /\ UNCHANGED <<files, durable, claims, failures, losses>>

(* flush(), the first half: the group is written, and readers see it.       *)
CanWrite == writer.pc \in {"claim", "ready"} /\ writer.buffer # <<>>

WriteRecords ==
  /\ CanWrite
  /\ SetCurrent([Current EXCEPT !.frames = @ \o writer.buffer])
  /\ writer' = [writer EXCEPT !.pc = "written"]
  /\ UNCHANGED <<durable, claims, failures, losses>>

(* A write that fails, or dies, leaves a part of the group behind.          *)
WriteCutShort ==
  /\ CanWrite
  /\ failures < MaxFailures
  /\ failures' = failures + 1
  /\ \E k \in 0..(Len(writer.buffer) - 1), t \in BOOLEAN :
       SetCurrent([Current EXCEPT
         !.frames = @ \o SubSeq(writer.buffer, 1, k), !.torn = t])
  /\ writer' = [writer EXCEPT !.pc = "poisoned"]
  /\ UNCHANGED <<durable, claims, losses>>

(* Mutant: the group counts as durable once it is written.                  *)
SyncRecordsSkipped ==
  /\ writer.pc = "written"
  /\ durable' = durable \cup Elements(writer.buffer)
  /\ writer' = [writer EXCEPT
       !.pc = IF Len(Current.frames) >= SegmentTarget THEN "create" ELSE "ready",
       !.buffer = <<>>]
  /\ UNCHANGED <<files, claims, failures, losses>>

(* flush(), the second half: one sync covers the group, and the segment is  *)
(* rolled between groups.                                                   *)
SyncRecords ==
  /\ writer.pc = "written"
  /\ SetCurrent(Flushed(Current))
  /\ durable' = durable \cup Elements(writer.buffer)
  /\ writer' = [writer EXCEPT
       !.pc = IF Len(Current.frames) >= SegmentTarget THEN "create" ELSE "ready",
       !.buffer = <<>>]
  /\ UNCHANGED <<claims, failures, losses>>

SyncFails ==
  /\ writer.pc = "written"
  /\ failures < MaxFailures
  /\ failures' = failures + 1
  /\ writer' = [writer EXCEPT !.pc = "poisoned"]
  /\ UNCHANGED <<files, durable, claims, losses>>

(* create_segment(), for the first segment and for a roll: two calls, and   *)
(* neither is synced.                                                       *)
CreateSegment ==
  /\ writer.pc = "create"
  /\ files' = Append(files, [base   |-> writer.next - Len(writer.buffer),
                             header |-> FALSE, frames |-> <<>>,
                             torn   |-> FALSE, safe |-> 0, kept |-> FALSE])
  /\ writer' = [writer EXCEPT !.pc = "header"]
  /\ UNCHANGED <<durable, claims, failures, losses>>

WriteHeader ==
  /\ writer.pc = "header"
  /\ SetCurrent([Current EXCEPT !.header = TRUE])
  /\ writer' = [writer EXCEPT
       !.pc = IF writer.buffer = <<>> THEN "ready" ELSE "claim"]
  /\ UNCHANGED <<durable, claims, failures, losses>>

(* The process ends, at any point; the kernel releases the lock.            *)
Kill ==
  /\ writer.pc # "down"
  /\ writer' = Down
  /\ UNCHANGED <<files, durable, claims, failures, losses>>

(* Power is lost: of the last file any part that had not been synced may be *)
(* missing, down to its header and, when none of it had been, the file.     *)
Cut(f, k, t) ==
  [f EXCEPT !.frames = SubSeq(f.frames, 1, k), !.torn = t,
            !.safe = k, !.kept = f.header]

HeaderLost(f) ==
  [f EXCEPT !.header = FALSE, !.frames = <<>>, !.torn = FALSE]

LoseUnsynced ==
  \/ \E k \in Current.safe..Len(Current.frames), t \in BOOLEAN :
       /\ t => (Current.torn \/ k < Len(Current.frames))
       /\ SetCurrent(Cut(Current, k, t))
  \/ ~Current.kept /\ SetCurrent(HeaderLost(Current))
  \/ ~Current.kept /\ files' = SubSeq(files, 1, Len(files) - 1)

PowerLoss ==
  /\ losses < MaxLosses
  /\ losses' = losses + 1
  /\ writer' = Down
  /\ IF files = <<>> THEN UNCHANGED files ELSE LoseUnsynced
  /\ UNCHANGED <<durable, claims, failures>>

WriterNext ==
  \/ Claim \/ AppendRecord \/ WriteRecords \/ WriteCutShort
  \/ SyncRecords \/ SyncFails \/ CreateSegment \/ WriteHeader \/ Kill

JournalNext == WriterNext \/ PowerLoss

JournalSpec == JournalInit /\ [][JournalNext]_journal
-----------------------------------------------------------------------------
(* The sequences of the log count from 1 through all its segments, whatever *)
(* crashed, was truncated or rolled.  claim() checks this inside a segment  *)
(* only, and resumes from the last frame it finds.                          *)
LogIsGapFree ==
  \A i \in DOMAIN files :
    /\ files[i].base = IF i = 1 THEN 1
                       ELSE files[i - 1].base + Len(files[i - 1].frames)
    /\ \A j \in DOMAIN files[i].frames :
         files[i].frames[j].seq = files[i].base + j - 1

(* A record that a flush covered stays in the log for ever: claim()         *)
(* truncates, a failed flush poisons, a roll and a loss of power leave it.  *)
DurableSurvives == durable \subseteq Logged

(* The epoch names the run: two records of one epoch are of one writer, and *)
(* a later record never has an earlier epoch.  claim() takes the epoch from *)
(* the last frame it can read.                                              *)
EpochsAreExclusive ==
  \A a, b \in Logged :
    /\ a.epoch = b.epoch => a.run = b.run
    /\ a.seq <= b.seq => (a.epoch <= b.epoch /\ a.run <= b.run)
=============================================================================
