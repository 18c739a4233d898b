------------------------------ MODULE Projector ------------------------------
(***************************************************************************)
(* projectord: a tailer that follows the journal while it is being         *)
(* written, a batch, a table that ignores a sequence it already has, and a *)
(* cursor kept beside the journal.                                         *)
(*                                                                         *)
(* A call of Next() is several reads of the directory and of a file.  The  *)
(* writer may act between the one that finds no further frame and the one  *)
(* that lists the segments again, so these are steps of their own.         *)
(***************************************************************************)
EXTENDS Journal

CONSTANTS BatchSize,      \* rows of a full batch
          MaxStarts,      \* bound: runs of the projector
          MaxRefusals     \* bound: inserts and cursor writes that fail

ASSUME ProjectorAssumption ==
  BatchSize \in Nat \ {0} /\ MaxStarts \in Nat /\ MaxRefusals \in Nat

VARIABLES
  tail,       \* the tailer and where the loop around it is
  batch,      \* rows read and not yet sent
  table,      \* the rows of the database
  cursor,     \* the cursor file
  starts, refusals            \* how much of each bound has been used

projector == <<tail, batch, table, cursor, starts, refusals>>
vars      == <<journal, projector>>

TailStates ==
  {"closed", "seek", "poll", "end", "gap", "insert", "commit"}

Tails == [pc: TailStates, list: Nat, index: Nat \ {0}, offset: Nat,
          next: Nat \ {0}, leaving: BOOLEAN]

(* Every variable of the journal and of the projector has its type.         *)
TypeOK ==
  /\ JournalTypeOK
  /\ tail \in Tails
  /\ batch \in Seq(Records)
  /\ table \in SUBSET Records
  /\ cursor \in Nat /\ starts \in Nat /\ refusals \in Nat

Closed == [pc |-> "closed", list |-> 0, index |-> 1, offset |-> 0, next |-> 1,
           leaving |-> FALSE]

Init ==
  /\ JournalInit
  /\ tail = Closed
  /\ batch = <<>>
  /\ table = {}
  /\ cursor = 0
  /\ starts = 0 /\ refusals = 0
-----------------------------------------------------------------------------
At(pc) == tail.pc = pc

(* The projector stops; what it had in hand is gone.                        *)
Exit ==
  /\ tail' = Closed
  /\ batch' = <<>>

(* Mutant: the cursor is taken for the next sequence, not for the last.     *)
WantedAtCursor == cursor

(* OpenTailer(after): the first sequence to deliver.                        *)
Wanted == cursor + 1

(* OpenTailer(cursor), the listing: the last segment that begins at or      *)
(* below what is wanted, or the first.                                      *)
Start ==
  /\ At("closed")
  /\ starts < MaxStarts
  /\ starts' = starts + 1
  /\ LET below == {i \in DOMAIN files : files[i].base <= Wanted}
     IN  tail' = [Closed EXCEPT
           !.pc    = IF files = <<>> THEN "poll" ELSE "seek",
           !.list  = Len(files),
           !.next  = Wanted,
           !.index = IF below = {} THEN 1
                     ELSE CHOOSE i \in below : \A j \in below : j <= i]
  /\ UNCHANGED <<journal, batch, table, cursor, refusals>>

(* openCurrent(): a segment without its header ends the process.            *)
Opens == files[tail.index].header

(* seekToStart(), the walk: past every frame below what is wanted, and on   *)
(* from the first one that is not.                                          *)
Seek ==
  /\ At("seek")
  /\ LET frames == files[tail.index].frames
         wanted == {i \in DOMAIN frames : frames[i].seq >= tail.next}
         first  == CHOOSE i \in wanted : \A j \in wanted : i <= j
     IN  IF ~Opens
           THEN Exit
           ELSE /\ tail' = IF wanted = {}
                  THEN [tail EXCEPT !.pc = "poll", !.offset = Len(frames)]
                  ELSE [tail EXCEPT !.pc = "poll", !.offset = first - 1,
                                    !.next = frames[first].seq]
                /\ UNCHANGED batch
  /\ UNCHANGED <<journal, table, cursor, starts, refusals>>

(* Next() finds a whole frame at its offset, and refuses one that is not    *)
(* the one it wants.                                                        *)
HasFile  == tail.index <= tail.list
HasFrame == HasFile /\ tail.offset < Len(files[tail.index].frames)

CannotOpen ==
  /\ At("poll")
  /\ HasFile /\ ~Opens
  /\ Exit
  /\ UNCHANGED <<journal, table, cursor, starts, refusals>>

Deliver ==
  /\ At("poll")
  /\ HasFrame
  /\ LET frame == files[tail.index].frames[tail.offset + 1]
     IN  IF frame.seq # tail.next
           THEN tail' = [tail EXCEPT !.pc = "gap"] /\ UNCHANGED batch
           ELSE /\ batch' = Append(batch, frame)
                /\ tail' = [tail EXCEPT
                     !.pc = IF Len(batch) + 1 >= BatchSize THEN "insert" ELSE "poll",
                     !.offset = @ + 1,
                     !.next = @ + 1]
  /\ UNCHANGED <<journal, table, cursor, starts, refusals>>

(* Next() finds no further frame in the file, or has no file yet.           *)
FindEnd ==
  /\ At("poll")
  /\ HasFile => Opens
  /\ ~HasFrame
  /\ tail' = [tail EXCEPT !.pc = "end"]
  /\ UNCHANGED <<journal, batch, table, cursor, starts, refusals>>

(* advance(): on to the next file, which the next read opens.               *)
MoveOn(list) ==
  tail' = [tail EXCEPT !.pc = "poll", !.list = list, !.index = @ + 1, !.offset = 0]

Advance ==
  /\ At("end")
  /\ tail.index < tail.list
  /\ MoveOn(tail.list)
  /\ UNCHANGED <<journal, batch, table, cursor, starts, refusals>>

(* rescan(): a segment that had not been listed is the next one to read.    *)
Grew == Len(files) > tail.list /\ tail.index < Len(files)

Rescan ==
  /\ At("end")
  /\ tail.index >= tail.list
  /\ IF Grew THEN MoveOn(Len(files))
     ELSE tail' = [tail EXCEPT !.pc = "poll", !.list = Len(files)]
  /\ UNCHANGED <<journal, batch, table, cursor, starts, refusals>>

(* The same rescan has caught up, and the batch has lingered long enough.   *)
Linger ==
  /\ At("end")
  /\ tail.index >= tail.list
  /\ ~Grew
  /\ batch # <<>>
  /\ tail' = [tail EXCEPT !.pc = "insert", !.list = Len(files)]
  /\ UNCHANGED <<journal, batch, table, cursor, starts, refusals>>

(* A signal: send what is in hand, and leave.                               *)
Stop ==
  /\ At("poll")
  /\ tail' = IF batch = <<>> THEN Closed
             ELSE [tail EXCEPT !.pc = "insert", !.leaving = TRUE]
  /\ UNCHANGED <<journal, batch, table, cursor, starts, refusals>>

(* flush(): insert, ignoring sequences the table has, and then commit.      *)
Insert ==
  /\ At("insert")
  /\ table' = table \cup
       {r \in Elements(batch) : \A t \in table : t.seq # r.seq}
  /\ tail' = [tail EXCEPT !.pc = "commit"]
  /\ UNCHANGED <<journal, batch, cursor, starts, refusals>>

Commit ==
  /\ At("commit")
  /\ LET highest == batch[Len(batch)].seq
     IN  cursor' = IF highest < cursor THEN cursor ELSE highest
  /\ batch' = <<>>
  /\ tail' = IF tail.leaving THEN Closed ELSE [tail EXCEPT !.pc = "poll"]
  /\ UNCHANGED <<journal, table, starts, refusals>>

(* Mutant: the batch is emptied whether or not it was sent.                 *)
RefusedDropsBatch ==
  /\ At("insert") \/ At("commit")
  /\ refusals < MaxRefusals
  /\ refusals' = refusals + 1
  /\ batch' = <<>>
  /\ tail' = IF tail.leaving THEN Closed ELSE [tail EXCEPT !.pc = "poll"]
  /\ UNCHANGED <<journal, table, cursor, starts>>

(* The database or the cursor file refuses: the batch is kept for a retry.  *)
Refused ==
  /\ At("insert") \/ At("commit")
  /\ refusals < MaxRefusals
  /\ refusals' = refusals + 1
  /\ IF tail.leaving THEN Exit
     ELSE tail' = [tail EXCEPT !.pc = "poll"] /\ UNCHANGED batch
  /\ UNCHANGED <<journal, table, cursor, starts>>

(* The projector dies, or has read a gap and says so.                       *)
Die ==
  /\ ~At("closed")
  /\ Exit
  /\ UNCHANGED <<journal, table, cursor, starts, refusals>>

(* The machine loses power.  The cursor is renamed into place and not       *)
(* synced, so an earlier one may come back.                                 *)
Blackout ==
  /\ PowerLoss
  /\ Exit
  /\ cursor' \in 0..cursor
  /\ UNCHANGED <<table, starts, refusals>>

Reads == Seek \/ CannotOpen \/ Deliver \/ FindEnd \/ Advance \/ Rescan \/ Insert \/ Commit

Next ==
  \/ WriterNext /\ UNCHANGED projector
  \/ Start \/ Reads \/ Linger \/ Stop \/ Refused \/ Die
  \/ Blackout

Spec == Init /\ [][Next]_vars
-----------------------------------------------------------------------------
(* Unless power is lost, the table holds records of the log and nothing     *)
(* else, and all of them up to the cursor: rows are sent before the cursor  *)
(* moves, a resend is ignored, and a tailer that lost its place stops.      *)
ProjectionIsPrefix ==
  losses = 0 =>
    /\ table \subseteq Logged
    /\ \A r \in Logged : r.seq <= cursor => r \in table
=============================================================================
