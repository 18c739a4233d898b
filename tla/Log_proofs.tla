----------------------------- MODULE Log_proofs -----------------------------
(***************************************************************************)
(* The journal and the projector that reads it while it is written.  First *)
(* the journal alone: what its files hold between any two of its steps,    *)
(* for every segment size and any number of runs, failures and losses of   *)
(* power.  Then the projector beside it, which takes no step of the        *)
(* journal's but the journal's own.                                        *)
(***************************************************************************)
EXTENDS Projector, WellFoundedInduction, TLAPS

(* The journal.                                                             *)
-----------------------------------------------------------------------------
(* What the file f contributes: where the next file begins.                 *)
EndOf(f) == f.base + Len(f.frames)

(* A file that was rolled away from is whole and synced.                    *)
Sealed(f) ==
  /\ f.header /\ f.kept /\ ~f.torn
  /\ f.frames # <<>>
  /\ f.safe = Len(f.frames)

(* The last file: only what was written can be there, or be synced.         *)
Sound(f) ==
  /\ f.safe <= Len(f.frames)
  /\ f.kept => f.header
  /\ ~f.kept => f.safe = 0
  /\ ~f.header => (f.frames = <<>> /\ ~f.torn)

Shape ==
  \A i \in DOMAIN files : IF i < Len(files) THEN Sealed(files[i])
                          ELSE Sound(files[i])

(* The buffer continues the log: nothing is appended twice or skipped.      *)
Pending == writer.next - Len(writer.buffer)

BufferInOrder ==
  \A i \in DOMAIN writer.buffer : writer.buffer[i].seq = Pending + i - 1

(* Where the last file f stands while the writer w is open for appends, has *)
(* just created f, is about to create the next one, or has written a group. *)
Open(f, w) ==
  f.header /\ ~f.torn /\ EndOf(f) = w.next - Len(w.buffer)

Fresh(f, w) ==
  f.frames = <<>> /\ ~f.torn /\ EndOf(f) = w.next - Len(w.buffer)

Rolled(f, w) ==
  Sealed(f) /\ EndOf(f) = w.next - Len(w.buffer)

Written(f, w) ==
  /\ f.header /\ ~f.torn
  /\ EndOf(f) = w.next
  /\ w.buffer # <<>>
  /\ Len(w.buffer) <= Len(f.frames)
  /\ \A i \in DOMAIN w.buffer :
       f.frames[Len(f.frames) - Len(w.buffer) + i] = w.buffer[i]

InPlace ==
  /\ writer.pc \in {"claim", "ready"} => files # <<>> /\ Open(Current, writer)
  /\ writer.pc = "header" => files # <<>> /\ Fresh(Current, writer)
  /\ writer.pc = "create" =>
       IF files = <<>> THEN Pending = 1 ELSE Rolled(Current, writer)
  /\ writer.pc = "written" => files # <<>> /\ Written(Current, writer)

(* A record that was synced is among the safe frames of some file.          *)
DurableIsSafe ==
  \A r \in durable :
    \E i \in DOMAIN files : \E j \in 1..files[i].safe : files[i].frames[j] = r

WriterInv == writer.pc \notin {"down", "poisoned"} => BufferInOrder /\ InPlace

JournalInv ==
  JournalTypeOK /\ LogIsGapFree /\ Shape /\ WriterInv /\ DurableIsSafe
-----------------------------------------------------------------------------
(* The fields of a file, and the last file.                                 *)
LEMMA FileIs ==
  ASSUME NEW f \in Files
  PROVE  /\ f.base \in Nat /\ f.base # 0 /\ f.safe \in Nat
         /\ f.frames \in Seq(Records) /\ Len(f.frames) \in Nat
         /\ f.header \in BOOLEAN /\ f.torn \in BOOLEAN /\ f.kept \in BOOLEAN
  BY DEF Files

LEMMA CurrentIs ==
  ASSUME files \in Seq(Files), files # <<>>
  PROVE  /\ Len(files) \in DOMAIN files /\ Len(files) \in Nat
         /\ DOMAIN files = 1..Len(files)
         /\ Current \in Files
  BY DEF Current

(* Replacing the last file changes nothing else of the directory.           *)
LEMMA SetCurrentIs ==
  ASSUME files \in Seq(Files), files # <<>>, NEW f \in Files, SetCurrent(f)
  PROVE  /\ files' \in Seq(Files)
         /\ files' # <<>>
         /\ Len(files') = Len(files)
         /\ Len(files) \in DOMAIN files
         /\ DOMAIN files' = DOMAIN files
         /\ Current' = f
         /\ \A i \in DOMAIN files : i < Len(files) => files'[i] = files[i]
  BY DEF SetCurrent, Current

(* The directory stays a log when the last file is replaced by one with the *)
(* same base whose sequences count on from it.                              *)
LEMMA KeepsLog ==
  ASSUME files \in Seq(Files), files # <<>>, NEW f \in Files, SetCurrent(f),
         LogIsGapFree, Shape, Sound(f),
         f.base = Current.base,
         \A j \in DOMAIN f.frames : f.frames[j].seq = f.base + j - 1
  PROVE  LogIsGapFree' /\ Shape'
<1>1. /\ Len(files') = Len(files) /\ Len(files) \in DOMAIN files
      /\ DOMAIN files' = DOMAIN files
      /\ files'[Len(files)] = f
      /\ \A i \in DOMAIN files : i < Len(files) => files'[i] = files[i]
  BY SetCurrentIs DEF Current
<1>2. \A i \in DOMAIN files : i \in Nat /\ i <= Len(files)
  OBVIOUS
<1>3. LogIsGapFree'
  BY <1>1, <1>2 DEF LogIsGapFree, Current
<1>4. Shape'
  BY <1>1, <1>2 DEF Shape, Sealed, Sound
<1> QED
  BY <1>3, <1>4

(* What was safe stays safe when the last file keeps its safe frames.       *)
LEMMA KeepsSafe ==
  ASSUME files \in Seq(Files), files # <<>>, NEW f \in Files, SetCurrent(f),
         DurableIsSafe,
         f.safe >= Current.safe,
         \A j \in 1..Current.safe : f.frames[j] = Current.frames[j],
         \A r \in durable' \ durable : \E j \in 1..f.safe : f.frames[j] = r
  PROVE  DurableIsSafe'
<1>1. /\ Len(files') = Len(files) /\ Len(files) \in DOMAIN files
      /\ DOMAIN files' = DOMAIN files
      /\ files'[Len(files)] = f
      /\ \A i \in DOMAIN files : i < Len(files) => files'[i] = files[i]
  BY SetCurrentIs DEF Current
<1>2. SUFFICES ASSUME NEW r \in durable'
               PROVE  \E i \in DOMAIN files' :
                        \E j \in 1..files'[i].safe : files'[i].frames[j] = r
  BY DEF DurableIsSafe
<1>3. CASE r \notin durable
  BY <1>1, <1>3
<1>4. CASE r \in durable
  <2>1. PICK i \in DOMAIN files : \E j \in 1..files[i].safe : files[i].frames[j] = r
    BY <1>4 DEF DurableIsSafe
  <2>2. CASE i < Len(files)
    BY <1>1, <2>1, <2>2
  <2>3. CASE i = Len(files)
    <3>1. PICK j \in 1..Current.safe : Current.frames[j] = r
      BY <2>1, <2>3 DEF Current
    <3>2. j \in 1..f.safe /\ f.frames[j] = r
      <4>1. Current.safe \in Nat /\ f.safe \in Nat
        BY CurrentIs, FileIs
      <4> QED
        BY <3>1, <4>1
    <3> QED
      BY <1>1, <3>2
  <2> QED
    BY <2>2, <2>3
<1> QED
  BY <1>3, <1>4

(* claim() resumes where the last file ends, whichever file holds the last  *)
(* frame.                                                                   *)
LEMMA LastFrameIs ==
  ASSUME files \in Seq(Files), LogIsGapFree, Shape
  PROVE  /\ LastFrame.seq \in Nat /\ LastFrame.epoch \in Nat
         /\ files = <<>> => LastFrame.seq = 0
         /\ files # <<>> => LastFrame.seq + 1 = EndOf(Current)
<1> DEFINE n == Len(files)
<1>0. n \in Nat /\ DOMAIN files = 1..n /\ \A i \in 1..n : files[i] \in Files
  OBVIOUS
<1>7. \A i \in 1..n : EndOf(files[i]) \in Nat
  BY <1>0, FileIs DEF EndOf
<1>1. CASE files = <<>>
  BY <1>1 DEF LastFrame, NonEmpty, NoFrame
<1>2. ASSUME files # <<>> PROVE n \in 1..n /\ n # 0
  BY <1>2
<1>3. ASSUME NEW m \in 1..n, files[m].frames # <<>>,
             \A i \in NonEmpty : i <= m
      PROVE  /\ LastFrame.seq = EndOf(files[m]) - 1
             /\ LastFrame.seq \in Nat /\ LastFrame.epoch \in Nat
  <2>1. m \in NonEmpty
    BY <1>0, <1>3 DEF NonEmpty
  <2>2. m = CHOOSE i \in NonEmpty : \A j \in NonEmpty : j <= i
    <3>1. \A i \in NonEmpty : i \in Nat
      BY <1>0 DEF NonEmpty
    <3> DEFINE P(i) == \A j \in NonEmpty : j <= i
    <3>2. P(m) /\ \A i \in NonEmpty : P(i) => i = m
      BY <1>0, <1>3, <2>1, <3>1
    <3> HIDE DEF P
    <3>3. m = CHOOSE i \in NonEmpty : P(i)
      BY <2>1, <3>2
    <3> QED
      BY <3>3 DEF P
  <2>3. LET fs == files[m].frames IN
          /\ LastFrame.seq = fs[Len(fs)].seq
          /\ LastFrame.epoch = fs[Len(fs)].epoch
          /\ Len(fs) \in DOMAIN fs
          /\ fs[Len(fs)] \in Records
    BY <1>0, <1>3, <2>1, <2>2 DEF LastFrame, EndFrame, Files
  <2>4. files[m].base \in Nat /\ Len(files[m].frames) \in Nat
    BY <1>0 DEF Files
  <2>5. LET fs == files[m].frames IN
          /\ fs[Len(fs)].seq = files[m].base + Len(fs) - 1
          /\ fs[Len(fs)].seq \in Nat /\ fs[Len(fs)].epoch \in Nat
    BY <1>0, <2>3 DEF LogIsGapFree, Records
  <2> DEFINE l == Len(files[m].frames)
             e == files[m].frames[l]
  <2>6. /\ LastFrame.seq = e.seq /\ LastFrame.epoch = e.epoch
        /\ e.seq = files[m].base + l - 1
        /\ e.seq \in Nat /\ e.epoch \in Nat
        /\ EndOf(files[m]) = files[m].base + l
    BY <2>3, <2>5 DEF EndOf
  <2>7. files[m].base \in Nat /\ l \in Nat
    BY <2>4
  <2>8. \A b, k \in Nat : (b + k) - 1 = b + k - 1
    OBVIOUS
  <2> HIDE DEF l, e
  <2> QED
    BY <2>6, <2>7, <2>8
<1>4. CASE files # <<>> /\ Current.frames # <<>>
  <2>1. \A i \in NonEmpty : i <= n
    BY <1>0 DEF NonEmpty
  <2>2. LastFrame.seq = EndOf(files[n]) - 1 /\ LastFrame.epoch \in Nat
        /\ LastFrame.seq \in Nat
    BY <1>2, <1>3, <1>4, <2>1 DEF Current
  <2> QED
    BY <1>2, <1>4, <1>7, <2>2 DEF Current
<1>5. CASE files # <<>> /\ Current.frames = <<>> /\ n = 1
  <2>1. NonEmpty = {}
    BY <1>0, <1>5 DEF NonEmpty, Current
  <2> QED
    BY <1>0, <1>5, <2>1 DEF LastFrame, NoFrame, LogIsGapFree, Current, EndOf
<1>6. CASE files # <<>> /\ Current.frames = <<>> /\ n > 1
  <2>1. n - 1 \in 1..n /\ files[n - 1].frames # <<>>
    BY <1>0, <1>6 DEF Shape, Sealed
  <2>2. \A i \in NonEmpty : i <= n - 1
    BY <1>0, <1>6 DEF NonEmpty, Current
  <2>3. files[n].base = EndOf(files[n - 1])
    BY <1>0, <1>2, <1>6 DEF LogIsGapFree, EndOf
  <2>4. EndOf(Current) = files[n].base
    <3>1. files[n].base \in Nat /\ files[n].frames = <<>>
      BY <1>0, <1>2, <1>6, FileIs DEF Current
    <3> QED
      BY <3>1 DEF EndOf, Current
  <2>5. LastFrame.seq = EndOf(files[n - 1]) - 1 /\ LastFrame.epoch \in Nat
        /\ LastFrame.seq \in Nat
    BY <1>3, <2>1, <2>2
  <2> QED
    BY <1>6, <1>7, <2>1, <2>3, <2>4, <2>5
<1> QED
  BY <1>0, <1>1, <1>2, <1>4, <1>5, <1>6

(* The sequences of a file still count from its base when records that      *)
(* continue it are written behind them.                                     *)
LEMMA Extend ==
  ASSUME NEW g \in Files, NEW b \in Seq(Records),
         \A i \in DOMAIN g.frames : g.frames[i].seq = g.base + i - 1,
         \A i \in DOMAIN b : b[i].seq = EndOf(g) + i - 1
  PROVE  LET s == g.frames \o b
         IN  /\ s \in Seq(Records)
             /\ Len(s) = Len(g.frames) + Len(b)
             /\ \A j \in 1..Len(g.frames) : s[j] = g.frames[j]
             /\ \A i \in 1..Len(b) : s[Len(g.frames) + i] = b[i]
             /\ \A j \in DOMAIN s : s[j].seq = g.base + j - 1
<1> DEFINE s == g.frames \o b
           m == Len(g.frames)
<1>1. /\ g.frames \in Seq(Records) /\ m \in Nat /\ g.base \in Nat
      /\ Len(b) \in Nat /\ DOMAIN b = 1..Len(b) /\ DOMAIN g.frames = 1..m
  BY FileIs
<1>2. /\ s \in Seq(Records)
      /\ Len(s) = m + Len(b)
      /\ DOMAIN s = 1..(m + Len(b))
      /\ \A j \in 1..m : s[j] = g.frames[j]
      /\ \A i \in 1..Len(b) : s[m + i] = b[i]
  BY <1>1
<1>3. ASSUME NEW j \in DOMAIN s PROVE s[j].seq = g.base + j - 1
  <2>1. CASE j \in 1..m
    BY <1>1, <1>2, <2>1
  <2>2. CASE j \notin 1..m
    <3>0. j \in 1..(m + Len(b))
      BY <1>2
    <3>5. EndOf(g) = g.base + m
      BY DEF EndOf
    <3> HIDE DEF m, s
    <3>1. j - m \in 1..Len(b) /\ j = m + (j - m) /\ j \in Nat
      BY <1>1, <2>2, <3>0
    <3>2. s[j] = b[j - m]
      BY <1>2, <3>1
    <3>3. b[j - m].seq = (g.base + m) + (j - m) - 1
      BY <1>1, <3>1, <3>5
    <3>4. \A x \in Nat : (x + m) + (j - m) - 1 = x + j - 1
      BY <1>1, <3>1
    <3> QED
      BY <1>1, <3>2, <3>3, <3>4
  <2> QED
    BY <2>1, <2>2
<1> QED
  BY <1>2, <1>3

LEMMA WriterIs ==
  ASSUME writer \in Writers
  PROVE  /\ writer.pc \in WriterStates /\ writer.epoch \in Nat
         /\ writer.next \in Nat /\ writer.next # 0
         /\ writer.buffer \in Seq(Records) /\ Len(writer.buffer) \in Nat
         /\ DOMAIN writer.buffer = 1..Len(writer.buffer)
  BY DEF Writers

LEMMA DownIs == Down \in Writers /\ Down.pc = "down"
<1> DEFINE e == <<>>
<1>1. e \in Seq(Records)
  OBVIOUS
<1>2. Down = [pc |-> "down", epoch |-> 0, next |-> 1, buffer |-> e]
  BY DEF Down
<1> HIDE DEF e
<1> QED
  BY <1>1, <1>2 DEF Writers, WriterStates

(* The sequences of the last file, as the invariant has them.               *)
LEMMA CurrentCounts ==
  ASSUME files \in Seq(Files), files # <<>>, LogIsGapFree, Shape
  PROVE  /\ Sound(Current)
         /\ \A j \in DOMAIN Current.frames :
              Current.frames[j].seq = Current.base + j - 1
<1>1. Len(files) \in DOMAIN files /\ ~(Len(files) < Len(files))
  BY CurrentIs
<1> QED
  BY <1>1 DEF LogIsGapFree, Shape, Current
-----------------------------------------------------------------------------
(* Appending leaves the files alone and continues the buffer.               *)
LEMMA AppendKeeps ==
  ASSUME JournalInv, AppendRecord PROVE JournalInv'
<1> DEFINE r == [seq |-> writer.next, epoch |-> writer.epoch, run |-> claims]
<1>1. /\ JournalTypeOK /\ LogIsGapFree /\ Shape /\ DurableIsSafe
      /\ writer.pc = "ready" /\ BufferInOrder /\ InPlace
      /\ UNCHANGED <<files, durable, claims, failures, losses>>
      /\ writer' = [writer EXCEPT !.next = @ + 1, !.buffer = Append(@, r)]
  BY DEF JournalInv, AppendRecord, WriterInv
<1>2. r \in Records /\ writer \in Writers
  BY <1>1, WriterIs DEF JournalTypeOK, Records
<1> HIDE DEF r
<1>3. /\ writer' \in Writers /\ writer'.pc = "ready"
      /\ writer'.next = writer.next + 1
      /\ writer'.buffer = Append(writer.buffer, r)
  <2>1. Append(writer.buffer, r) \in Seq(Records)
    BY <1>2, WriterIs
  <2> DEFINE b == Append(writer.buffer, r)
  <2> HIDE DEF b
  <2>2. writer' = [writer EXCEPT !.next = @ + 1, !.buffer = b]
    BY <1>1 DEF b
  <2>3. b \in Seq(Records)
    BY <2>1 DEF b
  <2> DEFINE k == writer.next + 1
  <2>5. k \in Nat \ {0}
    BY <1>2, WriterIs
  <2> HIDE DEF k
  <2>6. writer' = [writer EXCEPT !.next = k, !.buffer = b]
    BY <2>2 DEF k
  <2>4. /\ writer' \in Writers /\ writer'.pc = writer.pc
        /\ writer'.next = k /\ writer'.buffer = b
    BY <1>2, <2>3, <2>5, <2>6 DEF Writers
  <2> QED
    BY <1>1, <2>4 DEF b, k
<1>4. /\ Len(writer'.buffer) = Len(writer.buffer) + 1
      /\ DOMAIN writer'.buffer = 1..(Len(writer.buffer) + 1)
      /\ \A i \in 1..Len(writer.buffer) : writer'.buffer[i] = writer.buffer[i]
      /\ writer'.buffer[Len(writer.buffer) + 1] = r
  BY <1>2, <1>3, WriterIs
<1>5. Pending' = Pending /\ Pending \in Int
  <2>1. writer.next \in Nat /\ Len(writer.buffer) \in Nat
    BY <1>2, WriterIs
  <2>2. \A a, b \in Nat : (a + 1) - (b + 1) = a - b /\ a - b \in Int
    OBVIOUS
  <2>3. Pending' = (writer.next + 1) - (Len(writer.buffer) + 1)
    BY <1>3, <1>4 DEF Pending
  <2> QED
    BY <2>1, <2>2, <2>3, Zenon DEF Pending
<1>6. BufferInOrder'
  <2>1. r.seq = Pending + (Len(writer.buffer) + 1) - 1
    BY <1>2, WriterIs DEF r, Pending
  <2>2. Len(writer.buffer) \in Nat /\ DOMAIN writer.buffer = 1..Len(writer.buffer)
    BY <1>2, WriterIs
  <2>3. ASSUME NEW i \in 1..(Len(writer.buffer) + 1)
        PROVE  writer'.buffer[i].seq = Pending + i - 1
    <3>1. CASE i = Len(writer.buffer) + 1
      BY <1>4, <2>1, <3>1
    <3>2. CASE i # Len(writer.buffer) + 1
      <4>1. i \in 1..Len(writer.buffer)
        BY <2>2, <3>2
      <4> QED
        BY <1>1, <1>4, <2>2, <4>1 DEF BufferInOrder
    <3> QED
      BY <3>1, <3>2
  <2> QED
    BY <1>4, <1>5, <2>3 DEF BufferInOrder
<1>7. InPlace'
  <2>1. Current' = Current /\ files' = files
    BY <1>1 DEF Current
  <2> QED
    BY <1>1, <1>3, <1>5, <2>1 DEF InPlace, Open, Pending
<1>8. JournalTypeOK' /\ LogIsGapFree' /\ Shape' /\ DurableIsSafe'
  BY <1>1, <1>3 DEF JournalTypeOK, LogIsGapFree, Shape, DurableIsSafe
<1> QED
  BY <1>6, <1>7, <1>8 DEF JournalInv, WriterInv

(* A group that reached the file continues it.                              *)
LEMMA WriteKeeps ==
  ASSUME JournalInv, WriteRecords PROVE JournalInv'
<1> DEFINE s == Current.frames \o writer.buffer
           f == [Current EXCEPT !.frames = s]
<1>1. /\ JournalTypeOK /\ LogIsGapFree /\ Shape /\ DurableIsSafe
      /\ writer.pc \in {"claim", "ready"} /\ BufferInOrder /\ InPlace
      /\ writer.buffer # <<>>
      /\ UNCHANGED <<durable, claims, failures, losses>>
      /\ SetCurrent(f)
      /\ writer' = [writer EXCEPT !.pc = "written"]
  BY DEF JournalInv, WriteRecords, CanWrite, WriterInv
<1>2. /\ files \in Seq(Files) /\ files # <<>> /\ writer \in Writers
      /\ EndOf(Current) = Pending /\ ~Current.torn /\ Current.header
  BY <1>1 DEF JournalTypeOK, InPlace, Open, Pending
<1>0. /\ writer.next \in Nat /\ Len(writer.buffer) \in Nat
      /\ Len(writer.buffer) # 0 /\ writer.buffer \in Seq(Records)
      /\ DOMAIN writer.buffer = 1..Len(writer.buffer)
  BY <1>1, <1>2, WriterIs
<1>3. Current \in Files /\ Sound(Current)
      /\ \A j \in DOMAIN Current.frames :
           Current.frames[j].seq = Current.base + j - 1
  BY <1>1, <1>2, CurrentIs, CurrentCounts
<1>12. /\ Current.base \in Nat /\ Current.safe \in Nat
       /\ Len(Current.frames) \in Nat /\ Current.safe <= Len(Current.frames)
  BY <1>3, FileIs DEF Sound
<1>4. /\ s \in Seq(Records)
      /\ Len(s) = Len(Current.frames) + Len(writer.buffer)
      /\ \A j \in 1..Len(Current.frames) : s[j] = Current.frames[j]
      /\ \A i \in 1..Len(writer.buffer) :
           s[Len(Current.frames) + i] = writer.buffer[i]
      /\ \A j \in DOMAIN s : s[j].seq = Current.base + j - 1
  BY <1>0, <1>1, <1>2, <1>3, Extend DEF BufferInOrder
<1>13. s \in Seq(Records) /\ Len(s) = Len(Current.frames) + Len(writer.buffer)
  BY <1>4
<1> HIDE DEF s
<1>5. /\ f \in Files /\ f.frames = s /\ f.base = Current.base
      /\ f.safe = Current.safe /\ f.kept = Current.kept
      /\ f.header = Current.header /\ f.torn = Current.torn
  BY <1>3, <1>4 DEF Files
<1> HIDE DEF f
<1>14. /\ Len(f.frames) = Len(Current.frames) + Len(writer.buffer)
       /\ Len(f.frames) - Len(writer.buffer) = Len(Current.frames)
       /\ Len(writer.buffer) <= Len(f.frames)
       /\ f.safe <= Len(f.frames)
  <2>1. Len(f.frames) = Len(Current.frames) + Len(writer.buffer)
    BY <1>5, <1>13
  <2>2. f.safe = Current.safe
    BY <1>5
  <2>3. Len(writer.buffer) \in Nat /\ Len(Current.frames) \in Nat
        /\ Current.safe \in Nat /\ Current.safe <= Len(Current.frames)
    BY <1>0, <1>12
  <2> DEFINE m == Len(Current.frames)
             k == Len(writer.buffer)
             l == Len(f.frames)
             z == Current.safe
  <2>4. l = m + k /\ m \in Nat /\ k \in Nat /\ z \in Nat /\ z <= m /\ f.safe = z
    BY <2>1, <2>2, <2>3
  <2> HIDE DEF m, k, l, z
  <2>5. l - k = m /\ k <= l /\ z <= l
    BY <2>4
  <2> QED
    BY <2>4, <2>5 DEF m, k, l, z
<1>6. Sound(f)
  BY <1>2, <1>3, <1>5, <1>14 DEF Sound
<1>7. LogIsGapFree' /\ Shape'
  BY <1>1, <1>2, <1>4, <1>5, <1>6, KeepsLog
<1>8. DurableIsSafe'
  <2>1. \A j \in 1..Current.safe : j \in 1..Len(Current.frames)
    BY <1>12
  <2>2. \A j \in 1..Current.safe : f.frames[j] = Current.frames[j]
    BY <1>4, <1>5, <2>1
  <2>3. durable' \ durable = {} /\ f.safe >= Current.safe
    BY <1>1, <1>5, <1>12
  <2> QED
    BY <1>1, <1>2, <1>5, <2>2, <2>3, KeepsSafe
<1>9. /\ writer' \in Writers /\ writer'.pc = "written"
      /\ writer'.next = writer.next /\ writer'.buffer = writer.buffer
  BY <1>1, <1>2 DEF Writers, WriterStates
<1>10. files' \in Seq(Files) /\ files' # <<>> /\ Current' = f
  BY <1>1, <1>2, <1>5, SetCurrentIs
<1>11. BufferInOrder' /\ InPlace'
  <2>1. BufferInOrder'
    BY <1>1, <1>9 DEF BufferInOrder, Pending
  <2>2. EndOf(f) = writer.next
    <3>1. f.base = Current.base
      BY <1>5
    <3>2. Current.base + Len(Current.frames) = writer.next - Len(writer.buffer)
      BY <1>2 DEF EndOf, Pending
    <3> DEFINE base == Current.base
               m == Len(Current.frames)
               k == Len(writer.buffer)
               l == Len(f.frames)
               next == writer.next
    <3>3. /\ base \in Nat /\ m \in Nat /\ k \in Nat /\ next \in Nat
          /\ l = m + k /\ base + m = next - k /\ EndOf(f) = base + l
      BY <1>0, <1>12, <1>14, <3>1, <3>2 DEF EndOf
    <3> HIDE DEF base, m, k, l, next
    <3>4. base + l = next
      BY <3>3
    <3> QED
      BY <3>3, <3>4 DEF next
  <2>3. \A i \in DOMAIN writer.buffer :
           f.frames[Len(f.frames) - Len(writer.buffer) + i] = writer.buffer[i]
    BY <1>0, <1>4, <1>5, <1>14
  <2>4. Len(writer.buffer) <= Len(f.frames)
    BY <1>14
  <2>5. Written(f, writer')
    BY <1>1, <1>2, <1>5, <1>9, <2>2, <2>3, <2>4 DEF Written
  <2>6. InPlace'
    BY <1>9, <1>10, <2>5 DEF InPlace
  <2> QED
    BY <2>1, <2>6
<1> QED
  BY <1>1, <1>7, <1>8, <1>9, <1>10, <1>11
     DEF JournalInv, JournalTypeOK, WriterInv

(* A sync makes the whole last file safe, the group it covers included.     *)
LEMMA SyncKeeps ==
  ASSUME JournalInv, SyncRecords PROVE JournalInv'
<1> DEFINE f == Flushed(Current)
           pc == IF Len(Current.frames) >= SegmentTarget THEN "create" ELSE "ready"
<1>1. /\ JournalTypeOK /\ LogIsGapFree /\ Shape /\ DurableIsSafe
      /\ writer.pc = "written" /\ BufferInOrder /\ InPlace
      /\ UNCHANGED <<claims, failures, losses>>
      /\ durable' = durable \cup Elements(writer.buffer)
      /\ SetCurrent(f)
      /\ writer' = [writer EXCEPT !.pc = pc, !.buffer = <<>>]
  BY DEF JournalInv, SyncRecords, WriterInv
<1>2. /\ files \in Seq(Files) /\ files # <<>> /\ writer \in Writers
      /\ Written(Current, writer)
  BY <1>1 DEF JournalTypeOK, InPlace
<1>3. Current \in Files /\ Sound(Current)
      /\ \A j \in DOMAIN Current.frames :
           Current.frames[j].seq = Current.base + j - 1
  BY <1>1, <1>2, CurrentIs, CurrentCounts
<1>4. /\ Current.base \in Nat /\ Current.safe \in Nat
      /\ Len(Current.frames) \in Nat /\ Current.safe <= Len(Current.frames)
      /\ Current.frames \in Seq(Records)
  BY <1>3, FileIs DEF Sound
<1> DEFINE m == Len(Current.frames)
           k == Len(writer.buffer)
<1>5. /\ k \in Nat /\ k # 0 /\ DOMAIN writer.buffer = 1..k
      /\ writer.buffer \in Seq(Records) /\ writer.next \in Nat
  BY <1>2, WriterIs DEF Written
<1>6. m \in Nat /\ k <= m /\ Current.safe <= m
  BY <1>2, <1>4 DEF Written
<1>7. \A i \in 1..k : Current.frames[m - k + i] = writer.buffer[i]
  BY <1>2, <1>5 DEF Written
<1>8. f = [Current EXCEPT !.safe = m, !.kept = TRUE]
  BY DEF Flushed
<1> HIDE DEF m, k, f, pc
<1>9. /\ f \in Files /\ f.frames = Current.frames /\ f.base = Current.base
      /\ f.safe = m /\ f.kept /\ f.header = Current.header /\ f.torn = Current.torn
  BY <1>3, <1>6, <1>8 DEF Files
<1>10. Len(f.frames) = m
  BY <1>9 DEF m
<1>11. m <= m /\ m >= Current.safe
  BY <1>4, <1>6
<1>12. Sound(f)
  BY <1>2, <1>9, <1>10, <1>11 DEF Sound, Written
<1>13. LogIsGapFree' /\ Shape'
  BY <1>1, <1>2, <1>3, <1>9, <1>12, KeepsLog
<1>14. \A r \in durable' \ durable : \E j \in 1..f.safe : f.frames[j] = r
  <2>1. SUFFICES ASSUME NEW i \in 1..k
                 PROVE  \E j \in 1..m : f.frames[j] = writer.buffer[i]
    BY <1>1, <1>5, <1>9 DEF Elements
  <2>2. m - k + i \in 1..m
    BY <1>5, <1>6
  <2> QED
    BY <1>7, <1>9, <2>2
<1>15. DurableIsSafe'
  <2>1. \A j \in 1..Current.safe : f.frames[j] = Current.frames[j]
    BY <1>9
  <2>2. f.safe >= Current.safe
    BY <1>9, <1>11
  <2> QED
    BY <1>1, <1>2, <1>9, <1>14, <2>1, <2>2, KeepsSafe
<1>16. pc \in {"create", "ready"}
  BY DEF pc
<1>17. /\ writer' \in Writers /\ writer'.pc = pc
       /\ writer'.next = writer.next /\ writer'.buffer = <<>>
  <2> DEFINE e == <<>>
  <2>1. e \in Seq(Records) /\ pc \in WriterStates
    BY <1>16 DEF WriterStates
  <2>2. writer' = [writer EXCEPT !.pc = pc, !.buffer = e]
    BY <1>1
  <2> HIDE DEF e
  <2>3. writer' \in Writers /\ writer'.pc = pc /\ writer'.next = writer.next
        /\ writer'.buffer = e
    BY <1>2, <2>1, <2>2 DEF Writers
  <2> QED
    BY <2>3 DEF e
<1>18. files' \in Seq(Files) /\ files' # <<>> /\ Current' = f
  BY <1>1, <1>2, <1>9, SetCurrentIs
<1>19. BufferInOrder'
  BY <1>17 DEF BufferInOrder
<1>20. EndOf(f) = writer'.next - Len(writer'.buffer)
  <2>1. EndOf(f) = EndOf(Current)
    BY <1>9 DEF EndOf
  <2>2. writer'.next - Len(writer'.buffer) = writer.next
    BY <1>5, <1>17
  <2> QED
    BY <1>2, <2>1, <2>2 DEF Written
<1>21. f.frames # <<>>
  BY <1>5, <1>6, <1>10
<1>22. Open(f, writer') /\ Rolled(f, writer')
  BY <1>2, <1>9, <1>10, <1>20, <1>21 DEF Open, Rolled, Sealed, Written
<1>23. InPlace'
  BY <1>16, <1>17, <1>18, <1>22 DEF InPlace
<1>24. durable' \in SUBSET Records
  BY <1>1, <1>5 DEF JournalTypeOK, Elements
<1> QED
  BY <1>1, <1>13, <1>15, <1>17, <1>18, <1>19, <1>23, <1>24
     DEF JournalInv, JournalTypeOK, WriterInv

(* A poisoned or ended writer promises nothing; the files are as they were. *)
LEMMA StopKeeps ==
  ASSUME JournalInv, SyncFails \/ Kill PROVE JournalInv'
<1>1. /\ files' = files /\ durable' = durable /\ claims' = claims
      /\ losses' = losses
  BY DEF SyncFails, Kill
<1>2. writer' \in Writers /\ writer'.pc \in {"down", "poisoned"}
  <2>1. CASE Kill
    BY <2>1, DownIs DEF Kill
  <2>2. CASE SyncFails
    BY <2>2 DEF JournalInv, JournalTypeOK, SyncFails, Writers, WriterStates
  <2> QED
    BY <2>1, <2>2
<1>3. failures' \in Nat
  BY DEF JournalInv, JournalTypeOK, SyncFails, Kill
<1> QED
  BY <1>1, <1>2, <1>3
     DEF JournalInv, JournalTypeOK, WriterInv, LogIsGapFree, Shape, DurableIsSafe

(* The part of a group that a failed write left behind continues the file.  *)
LEMMA CutShortKeeps ==
  ASSUME JournalInv, WriteCutShort PROVE JournalInv'
<1>1. /\ JournalTypeOK /\ LogIsGapFree /\ Shape /\ DurableIsSafe
      /\ writer.pc \in {"claim", "ready"} /\ BufferInOrder /\ InPlace
      /\ UNCHANGED <<durable, claims, losses>>
      /\ failures' = failures + 1
      /\ writer' = [writer EXCEPT !.pc = "poisoned"]
  BY DEF JournalInv, WriteCutShort, CanWrite, WriterInv
<1>2. /\ files \in Seq(Files) /\ files # <<>> /\ writer \in Writers
      /\ EndOf(Current) = Pending /\ Current.header
  BY <1>1 DEF JournalTypeOK, InPlace, Open, Pending
<1>3. /\ Len(writer.buffer) \in Nat /\ writer.buffer \in Seq(Records)
      /\ DOMAIN writer.buffer = 1..Len(writer.buffer)
  BY <1>2, WriterIs
<1>4. PICK n \in 0..(Len(writer.buffer) - 1), t \in BOOLEAN :
        SetCurrent([Current EXCEPT
          !.frames = @ \o SubSeq(writer.buffer, 1, n), !.torn = t])
  BY DEF WriteCutShort
<1> DEFINE b == SubSeq(writer.buffer, 1, n)
           s == Current.frames \o b
           f == [Current EXCEPT !.frames = s, !.torn = t]
<1>5. SetCurrent(f)
  BY <1>4
<1>6. n \in 0..Len(writer.buffer) /\ n \in Nat
  BY <1>3
<1>7. /\ b \in Seq(Records) /\ Len(b) = n /\ DOMAIN b = 1..n
      /\ \A i \in 1..n : b[i] = writer.buffer[i] /\ i \in 1..Len(writer.buffer)
  BY <1>3, <1>6
<1> HIDE DEF b
<1>8. Current \in Files /\ Sound(Current)
      /\ \A j \in DOMAIN Current.frames :
           Current.frames[j].seq = Current.base + j - 1
  BY <1>1, <1>2, CurrentIs, CurrentCounts
<1>9. /\ Current.base \in Nat /\ Current.safe \in Nat
      /\ Len(Current.frames) \in Nat /\ Current.safe <= Len(Current.frames)
  BY <1>8, FileIs DEF Sound
<1>10. \A i \in DOMAIN b : b[i].seq = EndOf(Current) + i - 1
  BY <1>1, <1>2, <1>3, <1>7 DEF BufferInOrder
<1>11. /\ s \in Seq(Records)
       /\ Len(s) = Len(Current.frames) + Len(b)
       /\ \A j \in 1..Len(Current.frames) : s[j] = Current.frames[j]
       /\ \A j \in DOMAIN s : s[j].seq = Current.base + j - 1
  BY <1>7, <1>8, <1>10, Extend
<1> HIDE DEF s
<1>12. /\ f \in Files /\ f.frames = s /\ f.base = Current.base
       /\ f.safe = Current.safe /\ f.kept = Current.kept
       /\ f.header = Current.header
  BY <1>8, <1>11 DEF Files
<1> HIDE DEF f
<1>13. f.safe <= Len(f.frames)
  <2> DEFINE m == Len(Current.frames)
             z == Current.safe
             l == Len(f.frames)
  <2>1. m \in Nat /\ z \in Nat /\ z <= m /\ l = m + n /\ f.safe = z
    BY <1>7, <1>9, <1>11, <1>12
  <2> HIDE DEF m, z, l
  <2>2. z <= l
    BY <1>6, <2>1
  <2> QED
    BY <2>1, <2>2 DEF l
<1>14. Sound(f)
  BY <1>2, <1>8, <1>12, <1>13 DEF Sound
<1>15. LogIsGapFree' /\ Shape'
  BY <1>1, <1>2, <1>5, <1>11, <1>12, <1>14, KeepsLog
<1>16. DurableIsSafe'
  <2>1. \A j \in 1..Current.safe : j \in 1..Len(Current.frames)
    BY <1>9
  <2>2. \A j \in 1..Current.safe : f.frames[j] = Current.frames[j]
    BY <1>11, <1>12, <2>1
  <2>3. durable' \ durable = {} /\ f.safe >= Current.safe
    BY <1>1, <1>9, <1>12
  <2> QED
    BY <1>1, <1>2, <1>5, <1>12, <2>2, <2>3, KeepsSafe
<1>17. /\ writer' \in Writers /\ writer'.pc = "poisoned"
  BY <1>1, <1>2 DEF Writers, WriterStates
<1>18. files' \in Seq(Files)
  BY <1>2, <1>5, <1>12, SetCurrentIs
<1> QED
  BY <1>1, <1>15, <1>16, <1>17, <1>18 DEF JournalInv, JournalTypeOK, WriterInv

(* A roll seals the last file and opens one where it ends.                  *)
LEMMA CreateKeeps ==
  ASSUME JournalInv, CreateSegment PROVE JournalInv'
<1> DEFINE n == Len(files)
           g == [base |-> Pending, header |-> FALSE, frames |-> <<>>,
                 torn |-> FALSE, safe |-> 0, kept |-> FALSE]
<1>1. /\ JournalTypeOK /\ LogIsGapFree /\ Shape /\ DurableIsSafe
      /\ writer.pc = "create" /\ BufferInOrder /\ InPlace
      /\ UNCHANGED <<durable, claims, failures, losses>>
      /\ files' = Append(files, g)
      /\ writer' = [writer EXCEPT !.pc = "header"]
  BY DEF JournalInv, CreateSegment, WriterInv, Pending
<1>2. files \in Seq(Files) /\ writer \in Writers
  BY <1>1 DEF JournalTypeOK
<1>3. /\ files = <<>> => Pending = 1
      /\ files # <<>> => Sealed(Current) /\ EndOf(Current) = Pending
  BY <1>1 DEF InPlace, Rolled, Pending
<1>4. Pending \in Nat \ {0}
  <2>1. CASE files = <<>>
    BY <1>3, <2>1
  <2>2. CASE files # <<>>
    <3>1. Current.base \in Nat /\ Current.base # 0 /\ Len(Current.frames) \in Nat
      BY <1>2, <2>2, CurrentIs, FileIs
    <3> DEFINE b == Current.base
               m == Len(Current.frames)
    <3>2. b \in Nat /\ b # 0 /\ m \in Nat /\ Pending = b + m
      BY <1>3, <2>2, <3>1 DEF EndOf
    <3> HIDE DEF b, m
    <3> QED
      BY <3>2
  <2> QED
    BY <2>1, <2>2
<1>5. /\ g \in Files /\ g.base = Pending /\ g.frames = <<>> /\ g.safe = 0
      /\ ~g.kept /\ ~g.header /\ ~g.torn
  <2> DEFINE e == <<>>
  <2>1. e \in Seq(Records)
    OBVIOUS
  <2>2. g = [base |-> Pending, header |-> FALSE, frames |-> e,
             torn |-> FALSE, safe |-> 0, kept |-> FALSE]
    OBVIOUS
  <2> HIDE DEF e, g
  <2>3. /\ g \in Files /\ g.base = Pending /\ g.frames = e /\ g.safe = 0
        /\ ~g.kept /\ ~g.header /\ ~g.torn
    BY <1>4, <2>1, <2>2 DEF Files
  <2> QED
    BY <2>3 DEF e
<1> HIDE DEF g
<1>6. /\ n \in Nat /\ DOMAIN files = 1..n
      /\ files' \in Seq(Files) /\ Len(files') = n + 1
      /\ DOMAIN files' = 1..(n + 1)
      /\ files'[n + 1] = g
      /\ \A i \in 1..n : files'[i] = files[i]
  BY <1>1, <1>2, <1>5
<1>7. files' # <<>> /\ Current' = g
  BY <1>6 DEF Current
<1>8. /\ EndOf(g) = Pending /\ Len(g.frames) = 0
  <2>1. Len(g.frames) = 0
    BY <1>5
  <2> QED
    BY <1>4, <1>5, <2>1 DEF EndOf
<1>9. Sound(g)
  <2>1. g.safe <= Len(g.frames)
    BY <1>5, <1>8
  <2> QED
    BY <1>5, <2>1 DEF Sound
<1>10. files # <<>> => n \in 1..n /\ Sealed(files[n]) /\ EndOf(files[n]) = Pending
  BY <1>2, <1>3, <1>6 DEF Current
<1>11. ASSUME NEW i \in 1..(n + 1)
       PROVE  i \in 1..n \/ i = n + 1
  BY <1>6
<1>12. LogIsGapFree'
  <2>1. ASSUME NEW i \in 1..n
        PROVE  /\ files'[i].base = IF i = 1 THEN 1 ELSE EndOf(files'[i - 1])
               /\ \A j \in DOMAIN files'[i].frames :
                    files'[i].frames[j].seq = files'[i].base + j - 1
    <3>1. /\ files[i].base = IF i = 1 THEN 1 ELSE EndOf(files[i - 1])
          /\ \A j \in DOMAIN files[i].frames :
               files[i].frames[j].seq = files[i].base + j - 1
      BY <1>1, <1>6 DEF LogIsGapFree, EndOf
    <3>2. i # 1 => i - 1 \in 1..n
      BY <1>6
    <3> QED
      BY <1>6, <3>1, <3>2
  <2>2. g.base = IF n + 1 = 1 THEN 1 ELSE EndOf(files'[(n + 1) - 1])
    <3>1. CASE files = <<>>
      <4>1. n + 1 = 1
        BY <3>1
      <4> HIDE DEF n
      <4> QED
        BY <1>3, <1>5, <3>1, <4>1
    <3>2. CASE files # <<>>
      <4>1. n + 1 # 1 /\ (n + 1) - 1 = n
        BY <1>6, <1>10, <3>2
      <4>2. files'[n] = files[n]
        BY <1>6, <1>10, <3>2
      <4> QED
        BY <1>5, <1>10, <3>2, <4>1, <4>2
    <3> QED
      BY <3>1, <3>2
  <2>3. \A j \in DOMAIN g.frames : g.frames[j].seq = g.base + j - 1
    BY <1>5
  <2> QED
    BY <1>6, <1>11, <2>1, <2>2, <2>3 DEF LogIsGapFree, EndOf
<1>13. Shape'
  <2>1. ASSUME NEW i \in 1..n PROVE Sealed(files'[i]) /\ i < n + 1
    <3>1. CASE i < n
      BY <1>1, <1>6, <3>1 DEF Shape
    <3>2. CASE i = n
      BY <1>6, <1>10, <3>2
    <3>3. n \in Nat /\ i \in 1..n
      BY <1>6
    <3> HIDE DEF n
    <3>4. i < n + 1 /\ (i < n \/ i = n)
      BY <3>3
    <3> QED
      BY <3>1, <3>2, <3>4
  <2>2. ~(n + 1 < n + 1)
    BY <1>6
  <2> QED
    BY <1>6, <1>9, <1>11, <2>1, <2>2 DEF Shape
<1>14. DurableIsSafe'
  <2>1. \A i \in 1..n : i \in 1..(n + 1)
    BY <1>6
  <2> QED
    BY <1>1, <1>6, <2>1 DEF DurableIsSafe
<1>15. /\ writer' \in Writers /\ writer'.pc = "header"
       /\ writer'.next = writer.next /\ writer'.buffer = writer.buffer
  BY <1>1, <1>2 DEF Writers, WriterStates
<1>16. BufferInOrder'
  BY <1>1, <1>15 DEF BufferInOrder, Pending
<1>17. Fresh(g, writer')
  BY <1>5, <1>8, <1>15 DEF Fresh, Pending
<1>18. InPlace'
  BY <1>7, <1>15, <1>17 DEF InPlace
<1> QED
  BY <1>1, <1>6, <1>12, <1>13, <1>14, <1>15, <1>16, <1>18
     DEF JournalInv, JournalTypeOK, WriterInv

(* The header completes the file that was just created.                     *)
LEMMA HeaderKeeps ==
  ASSUME JournalInv, WriteHeader PROVE JournalInv'
<1> DEFINE f == [Current EXCEPT !.header = TRUE]
           pc == IF writer.buffer = <<>> THEN "ready" ELSE "claim"
<1>1. /\ JournalTypeOK /\ LogIsGapFree /\ Shape /\ DurableIsSafe
      /\ writer.pc = "header" /\ BufferInOrder /\ InPlace
      /\ UNCHANGED <<durable, claims, failures, losses>>
      /\ SetCurrent(f)
      /\ writer' = [writer EXCEPT !.pc = pc]
  BY DEF JournalInv, WriteHeader, WriterInv
<1>2. /\ files \in Seq(Files) /\ files # <<>> /\ writer \in Writers
      /\ Fresh(Current, writer)
  BY <1>1 DEF JournalTypeOK, InPlace
<1>3. Current \in Files /\ Sound(Current)
      /\ \A j \in DOMAIN Current.frames :
           Current.frames[j].seq = Current.base + j - 1
  BY <1>1, <1>2, CurrentIs, CurrentCounts
<1>4. /\ f \in Files /\ f.frames = Current.frames /\ f.base = Current.base
      /\ f.safe = Current.safe /\ f.kept = Current.kept
      /\ f.header /\ f.torn = Current.torn
  BY <1>3 DEF Files
<1> HIDE DEF f
<1>5. Sound(f)
  BY <1>3, <1>4 DEF Sound
<1>6. LogIsGapFree' /\ Shape'
  BY <1>1, <1>2, <1>3, <1>4, <1>5, KeepsLog
<1>7. DurableIsSafe'
  <2>1. durable' \ durable = {} /\ f.safe >= Current.safe
        /\ \A j \in 1..Current.safe : f.frames[j] = Current.frames[j]
    BY <1>1, <1>3, <1>4, FileIs
  <2> QED
    BY <1>1, <1>2, <1>4, <2>1, KeepsSafe
<1>8. pc \in {"ready", "claim"}
  OBVIOUS
<1> HIDE DEF pc
<1>9. /\ writer' \in Writers /\ writer'.pc = pc
      /\ writer'.next = writer.next /\ writer'.buffer = writer.buffer
  BY <1>1, <1>2, <1>8 DEF Writers, WriterStates
<1>10. files' \in Seq(Files) /\ files' # <<>> /\ Current' = f
  BY <1>1, <1>2, <1>4, SetCurrentIs
<1>11. BufferInOrder'
  BY <1>1, <1>9 DEF BufferInOrder, Pending
<1>12. Open(f, writer')
  BY <1>2, <1>4, <1>9 DEF Open, Fresh, EndOf
<1>13. InPlace'
  BY <1>8, <1>9, <1>10, <1>12 DEF InPlace
<1> QED
  BY <1>1, <1>6, <1>7, <1>9, <1>10, <1>11, <1>13
     DEF JournalInv, JournalTypeOK, WriterInv

(* A claim truncates what is torn, which was never whole, and its own       *)
(* record continues the log.                                                *)
LEMMA ClaimKeeps ==
  ASSUME JournalInv, Claim PROVE JournalInv'
<1> DEFINE last == LastFrame.seq
           age == LastFrame.epoch
           r == [seq |-> last + 1, epoch |-> age + 1, run |-> claims + 1]
           pc == IF files = <<>> THEN "create" ELSE "claim"
<1>1. /\ JournalTypeOK /\ LogIsGapFree /\ Shape /\ DurableIsSafe
      /\ UNCHANGED <<durable, failures, losses>>
      /\ claims' = claims + 1
      /\ Scannable
      /\ writer' = [pc |-> pc, epoch |-> age + 1, next |-> last + 2,
                    buffer |-> <<r>>]
  BY DEF JournalInv, Claim, NextEpoch
<1>2. files \in Seq(Files) /\ claims \in Nat
  BY <1>1 DEF JournalTypeOK
<1>3. /\ last \in Nat /\ age \in Nat
      /\ files = <<>> => last = 0
      /\ files # <<>> => last + 1 = EndOf(Current)
  BY <1>1, <1>2, LastFrameIs
<1> HIDE DEF last, age
<1>4. r \in Records /\ r.seq = last + 1
  BY <1>2, <1>3 DEF Records
<1>5. pc \in {"create", "claim"}
  OBVIOUS
<1> DEFINE b == <<r>>
<1> HIDE DEF r
<1>6. /\ b \in Seq(Records) /\ Len(b) = 1 /\ DOMAIN b = 1..1 /\ b[1] = r
  BY <1>4
<1> HIDE DEF b, pc
<1>7. /\ writer' = [pc |-> pc, epoch |-> age + 1, next |-> last + 2, buffer |-> b]
      /\ age + 1 \in Nat /\ last + 2 \in Nat \ {0} /\ pc \in WriterStates
  BY <1>1, <1>3, <1>5 DEF b, WriterStates
<1>8. /\ writer' \in Writers /\ writer'.pc = pc /\ writer'.next = last + 2
      /\ writer'.buffer = b
  <2> DEFINE a == age + 1
             x == last + 2
  <2>1. /\ writer' = [pc |-> pc, epoch |-> a, next |-> x, buffer |-> b]
        /\ a \in Nat /\ x \in Nat \ {0} /\ pc \in WriterStates
        /\ b \in Seq(Records)
    BY <1>6, <1>7
  <2> HIDE DEF a, x
  <2>2. writer' \in Writers /\ writer'.pc = pc /\ writer'.next = x
        /\ writer'.buffer = b
    BY <2>1 DEF Writers
  <2> QED
    BY <2>2 DEF x
<1>9. writer'.next - Len(writer'.buffer) = last + 1
  <2>1. writer'.next = last + 2 /\ Len(writer'.buffer) = 1
    BY <1>6, <1>8
  <2>2. \A x \in Nat : (x + 2) - 1 = x + 1
    OBVIOUS
  <2> QED
    BY <1>3, <2>1, <2>2
<1>10. Pending' = last + 1
  BY <1>9 DEF Pending
<1>11. BufferInOrder'
  <2>1. SUFFICES b[1].seq = (last + 1) + 1 - 1
    BY <1>6, <1>8, <1>10 DEF BufferInOrder
  <2> QED
    BY <1>3, <1>4, <1>6
<1>12. claims' \in Nat
  BY <1>1, <1>2
<1>13. CASE files = <<>>
  <2>1. files' = files /\ pc = "create"
    BY <1>13 DEF Claim, pc
  <2>2. InPlace'
    BY <1>3, <1>8, <1>10, <1>13, <2>1 DEF InPlace
  <2>3. LogIsGapFree' /\ Shape' /\ DurableIsSafe'
    BY <1>1, <2>1 DEF LogIsGapFree, Shape, DurableIsSafe
  <2> QED
    BY <1>1, <1>2, <1>8, <1>11, <1>12, <2>1, <2>2, <2>3
       DEF JournalInv, JournalTypeOK, WriterInv
<1>14. CASE files # <<>>
  <2>1. pc = "claim"
    BY <1>14 DEF pc
  <2>2. Current \in Files /\ Sound(Current)
        /\ \A j \in DOMAIN Current.frames :
             Current.frames[j].seq = Current.base + j - 1
    BY <1>1, <1>2, <1>14, CurrentIs, CurrentCounts
  <2>3. Current.header
    BY <1>1, <1>2, <1>14, CurrentIs DEF Scannable, Readable, Current
  <2>4. CASE ~Current.torn
    <3>1. files' = files
      BY <2>4, <1>14 DEF Claim
    <3>2. Current' = Current
      BY <3>1 DEF Current
    <3>3. Open(Current, writer')
      BY <1>3, <1>9, <1>14, <2>3, <2>4 DEF Open
    <3>4. InPlace'
      BY <1>8, <1>14, <2>1, <3>1, <3>2, <3>3 DEF InPlace
    <3>5. LogIsGapFree' /\ Shape' /\ DurableIsSafe'
      BY <1>1, <3>1 DEF LogIsGapFree, Shape, DurableIsSafe
    <3> QED
      BY <1>1, <1>2, <1>8, <1>11, <1>12, <3>1, <3>4, <3>5
         DEF JournalInv, JournalTypeOK, WriterInv
  <2>5. CASE Current.torn
    <3> DEFINE m == Len(Current.frames)
               f == [Current EXCEPT !.torn = FALSE, !.safe = m, !.kept = TRUE]
    <3>1. SetCurrent(f)
      <4>1. SetCurrent(Flushed([Current EXCEPT !.torn = FALSE]))
        BY <1>14, <2>5 DEF Claim
      <4>2. Flushed([Current EXCEPT !.torn = FALSE]) = f
        BY <2>2 DEF Flushed, Files
      <4> HIDE DEF f
      <4> QED
        BY <4>1, <4>2
    <3>2. m \in Nat /\ Current.safe \in Nat /\ Current.safe <= m
      BY <2>2, FileIs DEF Sound
    <3>11. m <= m
      BY <3>2
    <3> HIDE DEF m
    <3>3. /\ f \in Files /\ f.frames = Current.frames /\ f.base = Current.base
          /\ f.safe = m /\ f.kept /\ f.header = Current.header /\ ~f.torn
      BY <2>2, <3>2 DEF Files
    <3> HIDE DEF f
    <3>4. Len(f.frames) = m
      BY <3>3 DEF m
    <3>5. Sound(f)
      BY <2>3, <3>3, <3>4, <3>11 DEF Sound
    <3>6. LogIsGapFree' /\ Shape'
      BY <1>1, <1>2, <1>14, <2>2, <3>1, <3>3, <3>5, KeepsLog
    <3>7. DurableIsSafe'
      <4>1. durable' \ durable = {} /\ f.safe >= Current.safe
            /\ \A j \in 1..Current.safe : f.frames[j] = Current.frames[j]
        BY <1>1, <3>2, <3>3
      <4> QED
        BY <1>1, <1>2, <1>14, <3>1, <3>3, <4>1, KeepsSafe
    <3>8. files' \in Seq(Files) /\ files' # <<>> /\ Current' = f
      BY <1>2, <1>14, <3>1, <3>3, SetCurrentIs
    <3>9. Open(f, writer')
      <4>1. EndOf(f) = EndOf(Current)
        BY <3>3 DEF EndOf
      <4> QED
        BY <1>3, <1>9, <1>14, <2>3, <3>3, <4>1 DEF Open
    <3>10. InPlace'
      BY <1>8, <2>1, <3>8, <3>9 DEF InPlace
    <3> QED
      BY <1>1, <1>8, <1>11, <1>12, <3>6, <3>7, <3>8, <3>10
         DEF JournalInv, JournalTypeOK, WriterInv
  <2> QED
    BY <2>4, <2>5
<1> QED
  BY <1>13, <1>14

(* A loss of power takes nothing that was safe.                             *)
LEMMA PowerLossKeeps ==
  ASSUME JournalInv, PowerLoss PROVE JournalInv'
<1>1. /\ JournalTypeOK /\ LogIsGapFree /\ Shape /\ DurableIsSafe
      /\ UNCHANGED <<durable, claims, failures>>
      /\ writer' = Down /\ losses' = losses + 1
  BY DEF JournalInv, PowerLoss
<1>2. files \in Seq(Files)
  BY <1>1 DEF JournalTypeOK
<1>3. writer' \in Writers /\ writer'.pc = "down" /\ losses' \in Nat
  BY <1>1, DownIs DEF JournalTypeOK
<1>4. SUFFICES files' \in Seq(Files) /\ LogIsGapFree' /\ Shape' /\ DurableIsSafe'
  BY <1>1, <1>3 DEF JournalInv, JournalTypeOK, WriterInv
<1>5. CASE files = <<>>
  <2>1. files' = files
    BY <1>5 DEF PowerLoss
  <2> QED
    BY <1>1, <1>2, <2>1 DEF LogIsGapFree, Shape, DurableIsSafe
<1>6. CASE files # <<>>
  <2>1. LoseUnsynced
    BY <1>6 DEF PowerLoss
  <2>2. Current \in Files /\ Sound(Current)
        /\ \A j \in DOMAIN Current.frames :
             Current.frames[j].seq = Current.base + j - 1
    BY <1>1, <1>2, <1>6, CurrentIs, CurrentCounts
  <2>3. /\ Len(Current.frames) \in Nat /\ Current.safe \in Nat
        /\ Current.frames \in Seq(Records)
        /\ DOMAIN Current.frames = 1..Len(Current.frames)
    BY <2>2, FileIs
  <2>4. ASSUME NEW k \in Current.safe..Len(Current.frames), NEW t \in BOOLEAN,
               t => (Current.torn \/ k < Len(Current.frames)),
               SetCurrent(Cut(Current, k, t))
        PROVE  files' \in Seq(Files) /\ LogIsGapFree' /\ Shape' /\ DurableIsSafe'
    <3> DEFINE s == SubSeq(Current.frames, 1, k)
               f == [Current EXCEPT !.frames = s, !.torn = t,
                                    !.safe = k, !.kept = Current.header]
    <3>1. SetCurrent(f)
      BY <2>4 DEF Cut
    <3>2. k \in Nat /\ k >= Current.safe /\ k \in 0..Len(Current.frames)
      BY <2>3
    <3>3. /\ s \in Seq(Records) /\ Len(s) = k /\ DOMAIN s = 1..k
          /\ \A j \in 1..k : s[j] = Current.frames[j]
                             /\ j \in DOMAIN Current.frames
      BY <2>3, <3>2
    <3> HIDE DEF s
    <3>4. Current.header \in BOOLEAN
      BY <2>2, FileIs
    <3>5. /\ f \in Files /\ f.frames = s /\ f.base = Current.base
          /\ f.safe = k /\ f.kept = Current.header
          /\ f.header = Current.header /\ f.torn = t
      BY <2>2, <3>2, <3>3, <3>4 DEF Files
    <3> HIDE DEF f
    <3>6. Sound(f)
      <4>1. Len(f.frames) = k /\ f.safe <= k
        BY <3>2, <3>3, <3>5
      <4>2. ASSUME ~Current.header
            PROVE  f.frames = <<>> /\ ~t /\ f.safe = 0
        <5>1. Current.frames = <<>> /\ ~Current.torn
          BY <2>2, <4>2 DEF Sound
        <5>2. Len(Current.frames) = 0
          BY <5>1
        <5>3. k = 0
          BY <2>3, <3>2, <5>2
        <5>4. ~(0 < 0)
          OBVIOUS
        <5>5. f.frames = <<>>
          BY <3>3, <3>5, <5>3
        <5> QED
          BY <2>4, <3>5, <5>1, <5>2, <5>3, <5>4, <5>5
      <4> QED
        BY <3>4, <3>5, <4>1, <4>2 DEF Sound
    <3>7. \A j \in DOMAIN f.frames : f.frames[j].seq = f.base + j - 1
      BY <2>2, <3>3, <3>5
    <3>8. LogIsGapFree' /\ Shape'
      BY <1>1, <1>2, <1>6, <3>1, <3>5, <3>6, <3>7, KeepsLog
    <3>9. DurableIsSafe'
      <4>1. \A j \in 1..Current.safe : j \in 1..k
        BY <2>3, <3>2
      <4>2. durable' \ durable = {} /\ f.safe >= Current.safe
            /\ \A j \in 1..Current.safe : f.frames[j] = Current.frames[j]
        BY <1>1, <3>2, <3>3, <3>5, <4>1
      <4> QED
        BY <1>1, <1>2, <1>6, <3>1, <3>5, <4>2, KeepsSafe
    <3> QED
      BY <1>2, <1>6, <3>1, <3>5, <3>8, <3>9, SetCurrentIs
  <2>5. ASSUME ~Current.kept, SetCurrent(HeaderLost(Current))
        PROVE  files' \in Seq(Files) /\ LogIsGapFree' /\ Shape' /\ DurableIsSafe'
    <3> DEFINE e == <<>>
               f == [Current EXCEPT !.header = FALSE, !.frames = e, !.torn = FALSE]
    <3>1. SetCurrent(f) /\ e \in Seq(Records) /\ Current.safe = 0
      BY <2>2, <2>5 DEF HeaderLost, Sound
    <3> HIDE DEF e
    <3>2. /\ f \in Files /\ f.frames = e /\ f.base = Current.base
          /\ f.safe = 0 /\ ~f.kept /\ ~f.header /\ ~f.torn
      BY <2>2, <2>5, <3>1 DEF Files
    <3> HIDE DEF f
    <3>3. Len(f.frames) = 0 /\ f.frames = <<>> /\ DOMAIN f.frames = {}
      BY <3>2 DEF e
    <3>4. Sound(f)
      <4>1. f.safe <= Len(f.frames)
        BY <3>2, <3>3
      <4> QED
        BY <3>2, <3>3, <4>1 DEF Sound
    <3>5. LogIsGapFree' /\ Shape'
      BY <1>1, <1>2, <1>6, <3>1, <3>2, <3>3, <3>4, KeepsLog
    <3>6. DurableIsSafe'
      <4>1. durable' \ durable = {} /\ f.safe >= Current.safe
            /\ \A j \in 1..Current.safe : f.frames[j] = Current.frames[j]
        BY <1>1, <3>1, <3>2
      <4> QED
        BY <1>1, <1>2, <1>6, <3>1, <3>2, <4>1, KeepsSafe
    <3> QED
      BY <1>2, <1>6, <3>1, <3>2, <3>5, <3>6, SetCurrentIs
  <2>6. ASSUME ~Current.kept, files' = SubSeq(files, 1, Len(files) - 1)
        PROVE  files' \in Seq(Files) /\ LogIsGapFree' /\ Shape' /\ DurableIsSafe'
    <3> DEFINE n == Len(files)
    <3>1. /\ n \in Nat /\ n # 0 /\ DOMAIN files = 1..n
          /\ files' \in Seq(Files) /\ Len(files') = n - 1
          /\ DOMAIN files' = 1..(n - 1)
          /\ \A i \in 1..(n - 1) : files'[i] = files[i]
      <4>1. n \in Nat /\ n # 0 /\ DOMAIN files = 1..n
        BY <1>2, <1>6
      <4> DEFINE p == n - 1
      <4>2. p \in Nat /\ p \in 0..n /\ files' = SubSeq(files, 1, p)
        BY <2>6, <4>1
      <4> HIDE DEF p
      <4>3. /\ files' \in Seq(Files) /\ Len(files') = p /\ DOMAIN files' = 1..p
            /\ \A i \in 1..p : files'[i] = files[i]
        BY <1>2, <4>1, <4>2
      <4> QED
        BY <4>1, <4>3 DEF p
    <3>2. \A i \in 1..(n - 1) : i \in 1..n /\ i < n /\ (i # 1 => i - 1 \in 1..(n - 1))
      BY <3>1
    <3>3. LogIsGapFree'
      <4>1. ASSUME NEW i \in 1..(n - 1)
            PROVE  /\ files'[i].base = IF i = 1 THEN 1 ELSE EndOf(files'[i - 1])
                   /\ \A j \in DOMAIN files'[i].frames :
                        files'[i].frames[j].seq = files'[i].base + j - 1
        <5>1. /\ files[i].base = IF i = 1 THEN 1 ELSE EndOf(files[i - 1])
              /\ \A j \in DOMAIN files[i].frames :
                   files[i].frames[j].seq = files[i].base + j - 1
          BY <1>1, <3>1, <3>2 DEF LogIsGapFree, EndOf
        <5> QED
          BY <3>1, <3>2, <5>1
      <4> QED
        BY <3>1, <4>1 DEF LogIsGapFree, EndOf
    <3>4. Shape'
      <4>1. ASSUME NEW i \in 1..(n - 1) PROVE Sealed(files'[i]) /\ Sound(files'[i])
        <5>1. Sealed(files[i]) /\ files'[i] = files[i] /\ files[i] \in Files
          <6>1. /\ i \in DOMAIN files /\ i < Len(files)
                /\ files'[i] = files[i]
            BY <3>1, <3>2
          <6>2. files[i] \in Files
            BY <1>2, <6>1
          <6> QED
            BY <1>1, <6>1, <6>2 DEF Shape
        <5>2. Len(files[i].frames) \in Nat /\ files[i].safe = Len(files[i].frames)
          BY <5>1, FileIs DEF Sealed
        <5>3. \A x \in Nat : x <= x
          OBVIOUS
        <5> QED
          BY <5>1, <5>2, <5>3 DEF Sealed, Sound
      <4> QED
        BY <3>1, <4>1 DEF Shape
    <3>5. DurableIsSafe'
      <4>1. SUFFICES ASSUME NEW r \in durable
                     PROVE  \E i \in 1..(n - 1) :
                              \E j \in 1..files'[i].safe : files'[i].frames[j] = r
        BY <1>1, <3>1 DEF DurableIsSafe
      <4>2. PICK i \in 1..n : \E j \in 1..files[i].safe : files[i].frames[j] = r
        BY <1>1, <3>1 DEF DurableIsSafe
      <4>3. i # n
        <5>1. files[n].safe = 0
          BY <2>2, <2>6 DEF Sound, Current
        <5> QED
          BY <4>2, <5>1
      <4>4. i \in 1..(n - 1)
        <5>1. n \in Nat /\ i \in 1..n
          BY <3>1
        <5> HIDE DEF n
        <5> QED
          BY <4>3, <5>1
      <4> QED
        BY <3>1, <4>2, <4>4
    <3> QED
      BY <3>1, <3>3, <3>4, <3>5
  <2> QED
    BY <2>1, <2>4, <2>5, <2>6 DEF LoseUnsynced
<1> QED
  BY <1>5, <1>6
-----------------------------------------------------------------------------
(* The inductive invariant holds of every behaviour of the journal.         *)
LEMMA JournalInduction == JournalSpec => []JournalInv
<1>1. JournalInit => JournalInv
  <2>1. JournalInit => JournalTypeOK
    BY DownIs DEF JournalInit, JournalTypeOK
  <2>2. JournalInit => WriterInv
    BY DownIs DEF JournalInit, WriterInv
  <2>3. JournalInit => LogIsGapFree /\ Shape /\ DurableIsSafe
    BY DEF JournalInit, LogIsGapFree, Shape, DurableIsSafe
  <2> QED
    BY <2>1, <2>2, <2>3 DEF JournalInv
<1>2. JournalInv /\ [JournalNext]_journal => JournalInv'
  <2>1. SUFFICES ASSUME JournalInv, [JournalNext]_journal PROVE JournalInv'
    OBVIOUS
  <2>2. CASE Claim
    BY <2>1, <2>2, ClaimKeeps
  <2>3. CASE AppendRecord
    BY <2>1, <2>3, AppendKeeps
  <2>4. CASE WriteRecords
    BY <2>1, <2>4, WriteKeeps
  <2>5. CASE WriteCutShort
    BY <2>1, <2>5, CutShortKeeps
  <2>6. CASE SyncRecords
    BY <2>1, <2>6, SyncKeeps
  <2>7. CASE SyncFails \/ Kill
    BY <2>1, <2>7, StopKeeps
  <2>8. CASE CreateSegment
    BY <2>1, <2>8, CreateKeeps
  <2>9. CASE WriteHeader
    BY <2>1, <2>9, HeaderKeeps
  <2>10. CASE PowerLoss
    BY <2>1, <2>10, PowerLossKeeps
  <2>11. CASE UNCHANGED journal
    BY <2>1, <2>11
       DEF journal, JournalInv, JournalTypeOK, LogIsGapFree, Shape, WriterInv,
           BufferInOrder, InPlace, Pending, Current, DurableIsSafe
  <2> QED
    BY <2>1, <2>2, <2>3, <2>4, <2>5, <2>6, <2>7, <2>8, <2>9, <2>10, <2>11
       DEF JournalNext, WriterNext
<1> QED
  BY <1>1, <1>2, PTL DEF JournalSpec

(* For every size of segment and any number of runs, failures and losses of *)
(* power, the sequences of the log count from 1 with no hole and no repeat: *)
(* claim() truncates and resumes, and the roll begins, where the log ends.  *)
THEOREM JournalIsGapFree == JournalSpec => []LogIsGapFree
<1>1. JournalInv => LogIsGapFree
  BY DEF JournalInv
<1> QED
  BY <1>1, JournalInduction, PTL

(* A record that flush() reported synced is in the log ever after.          *)
THEOREM DurableIsKept == JournalSpec => []DurableSurvives
<1>1. JournalInv => DurableSurvives
  <2>1. SUFFICES ASSUME JournalInv, NEW r \in durable PROVE r \in Logged
    BY DEF DurableSurvives
  <2>2. PICK i \in DOMAIN files :
          \E j \in 1..files[i].safe : files[i].frames[j] = r
    BY <2>1 DEF JournalInv, DurableIsSafe
  <2>3. PICK j \in 1..files[i].safe : files[i].frames[j] = r
    BY <2>2
  <2>4. files[i] \in Files /\ i \in 1..Len(files) /\ Len(files) \in Nat
    BY <2>1 DEF JournalInv, JournalTypeOK
  <2>5. files[i].safe <= Len(files[i].frames)
    <3>1. Sealed(files[i]) \/ Sound(files[i])
      BY <2>1 DEF JournalInv, Shape
    <3>2. CASE Sound(files[i])
      BY <3>2 DEF Sound
    <3>3. CASE Sealed(files[i])
      <4>1. files[i].safe = Len(files[i].frames) /\ files[i].safe \in Nat
        BY <2>4, <3>3, FileIs DEF Sealed
      <4>2. \A x \in Nat : x <= x
        OBVIOUS
      <4> QED
        BY <4>1, <4>2
    <3> QED
      BY <3>1, <3>2, <3>3
  <2>6. j \in DOMAIN files[i].frames
    <3> DEFINE m == Len(files[i].frames)
               z == files[i].safe
    <3>1. m \in Nat /\ z \in Nat /\ z <= m /\ j \in 1..z
          /\ DOMAIN files[i].frames = 1..m
      BY <2>3, <2>4, <2>5, FileIs
    <3> HIDE DEF m, z
    <3>2. j \in 1..m
      BY <3>1
    <3> QED
      BY <3>1, <3>2
  <2> QED
    BY <2>2, <2>3, <2>6 DEF Logged, Elements
<1> QED
  BY <1>1, JournalInduction, PTL
-----------------------------------------------------------------------------
(* What the log holds, as a set.                                            *)

LEMMA LeastNat ==
  ASSUME NEW T, T \subseteq Nat, T # {}
  PROVE  \E x \in T : \A y \in T : x <= y
<1>1. PICK x \in T : \A y \in T : ~ (<<y, x>> \in OpToRel(<, Nat))
  BY NatLessThanWellFounded, WFMin
<1>2. ASSUME NEW y \in T PROVE x <= y
  <2>1. x \in Nat /\ y \in Nat
    OBVIOUS
  <2>2. ~(y < x)
    BY <1>1, <2>1 DEF OpToRel
  <2> QED
    BY <2>1, <2>2
<1> QED
  BY <1>2

LEMMA LoggedIs ==
  ASSUME files \in Seq(Files)
  PROVE  /\ Logged \subseteq Records
         /\ \A r : r \in Logged <=> \E i \in DOMAIN files : \E j \in DOMAIN files[i].frames :
                                      r = files[i].frames[j]
<1>1. \A r : r \in Logged <=> \E i \in DOMAIN files : \E j \in DOMAIN files[i].frames :
                                r = files[i].frames[j]
  BY DEF Logged, Elements
<1>2. ASSUME NEW i \in DOMAIN files, NEW j \in DOMAIN files[i].frames
      PROVE  files[i].frames[j] \in Records
  <2>1. files[i] \in Files
    OBVIOUS
  <2>2. files[i].frames \in Seq(Records)
    BY <2>1, FileIs
  <2> QED
    BY <2>2
<1> QED
  BY <1>1, <1>2

(* No file ends past the last one: the least distance from the end at which *)
(* one did would be a file whose successor did too.                         *)
LEMMA EndsInOrder ==
  ASSUME files \in Seq(Files), files # <<>>, LogIsGapFree, NEW i \in DOMAIN files
  PROVE  EndOf(files[i]) <= EndOf(Current) /\ EndOf(files[i]) \in Nat /\ EndOf(Current) \in Nat
<1> DEFINE n == Len(files)
           T == {k \in 0..(n - 1) : ~(EndOf(files[n - k]) <= EndOf(files[n]))}
<1>1. n \in Nat /\ n # 0 /\ DOMAIN files = 1..n /\ \A j \in 1..n : files[j] \in Files
  OBVIOUS
<1>2. \A j \in 1..n : /\ EndOf(files[j]) \in Nat /\ files[j].base \in Nat
                      /\ files[j].base <= EndOf(files[j])
  BY <1>1, FileIs DEF EndOf
<1>3. T = {}
  <2>1. SUFFICES ASSUME T # {} PROVE FALSE
    OBVIOUS
  <2>2. T \subseteq Nat
    OBVIOUS
  <2>3. PICK k \in T : \A y \in T : k <= y
    <3> HIDE DEF T
    <3> QED
      BY <2>1, <2>2, LeastNat
  <2>4. k \in 0..(n - 1) /\ ~(EndOf(files[n - k]) <= EndOf(files[n]))
    OBVIOUS
  <2>5. n - 0 = n /\ n \in 1..n
    BY <1>1
  <2>6. k # 0
    BY <1>2, <2>4, <2>5
  <2>7. k - 1 \in 0..(n - 1) /\ ~(k <= k - 1) /\ n - (k - 1) = (n - k) + 1
        /\ n - k \in 1..n /\ (n - k) + 1 \in 1..n /\ (n - k) + 1 # 1 /\ ((n - k) + 1) - 1 = n - k
    BY <1>1, <2>4, <2>6
  <2>8. EndOf(files[(n - k) + 1]) <= EndOf(files[n])
    BY <2>3, <2>7
  <2>9. files[(n - k) + 1].base = EndOf(files[n - k])
    BY <1>1, <2>7 DEF LogIsGapFree, EndOf
  <2>10. EndOf(files[n - k]) <= EndOf(files[(n - k) + 1]) /\ EndOf(files[n - k]) \in Nat
         /\ EndOf(files[(n - k) + 1]) \in Nat /\ EndOf(files[n]) \in Nat
    BY <1>2, <2>5, <2>7, <2>9
  <2>11. \A x, y, z \in Nat : x <= y /\ y <= z => x <= z
    OBVIOUS
  <2> QED
    BY <2>4, <2>8, <2>10, <2>11
<1>4. PICK k \in 0..(n - 1) : i = n - k
  <2>1. i \in 1..n
    BY <1>1
  <2>2. n - i \in 0..(n - 1) /\ i = n - (n - i)
    BY <1>1, <2>1
  <2> QED
    BY <2>2
<1>5. EndOf(files[i]) <= EndOf(files[n])
  BY <1>3, <1>4
<1> QED
  BY <1>1, <1>2, <1>5 DEF Current

(* Every sequence in the log is below where its last file ends.             *)
LEMMA LoggedBelow ==
  ASSUME files \in Seq(Files), LogIsGapFree, NEW r \in Logged
  PROVE  /\ files # <<>> /\ r \in Records /\ r.seq \in Nat /\ r.seq # 0
         /\ EndOf(Current) \in Nat /\ r.seq < EndOf(Current)
<1>1. PICK i \in DOMAIN files : \E j \in DOMAIN files[i].frames : r = files[i].frames[j]
  BY LoggedIs
<1>2. PICK j \in DOMAIN files[i].frames : r = files[i].frames[j]
  BY <1>1
<1>3. files # <<>> /\ r \in Records
  BY LoggedIs
<1>4. files[i] \in Files
  OBVIOUS
<1>5. PICK l \in Nat : l = Len(files[i].frames) /\ DOMAIN files[i].frames = 1..l
  BY <1>4, FileIs
<1>6. PICK b \in Nat : b = files[i].base
  BY <1>4, FileIs
<1>7. r.seq = b + j - 1 /\ j \in 1..l /\ EndOf(files[i]) = b + l
  BY <1>2, <1>5, <1>6 DEF LogIsGapFree, EndOf
<1>8. EndOf(files[i]) <= EndOf(Current) /\ EndOf(Current) \in Nat
  BY <1>3, EndsInOrder
<1>9. r.seq \in Nat /\ r.seq # 0
  BY <1>3 DEF Records
<1> QED
  BY <1>3, <1>7, <1>8, <1>9

(* Replacing the last file by f adds at most what f holds; what f keeps of  *)
(* it stays.                                                                *)
LEMMA LoggedSet ==
  ASSUME files \in Seq(Files), files # <<>>, NEW f, SetCurrent(f)
  PROVE  /\ Logged' \subseteq Logged \cup Elements(f.frames)
         /\ Elements(Current.frames) \subseteq Elements(f.frames)
              => Logged' = Logged \cup Elements(f.frames)
<1> DEFINE n == Len(files)
<1>1. /\ n \in DOMAIN files /\ DOMAIN files' = DOMAIN files /\ files'[n] = f
      /\ \A i \in DOMAIN files : i < n => files'[i] = files[i]
  BY CurrentIs DEF SetCurrent
<1>2. \A i \in DOMAIN files : i = n \/ i < n
  OBVIOUS
<1>3. \A r : r \in Logged <=> \E i \in DOMAIN files : r \in Elements(files[i].frames)
  BY DEF Logged
<1>4. \A r : r \in Logged' <=> \E i \in DOMAIN files' : r \in Elements(files'[i].frames)
  BY DEF Logged
<1>5. Current = files[n]
  BY DEF Current
<1> HIDE DEF n
<1>6. Logged' \subseteq Logged \cup Elements(f.frames)
  BY <1>1, <1>2, <1>3, <1>4
<1>7. Elements(f.frames) \subseteq Logged'
  BY <1>1, <1>4
<1>8. ASSUME Elements(Current.frames) \subseteq Elements(f.frames) PROVE Logged \subseteq Logged'
  BY <1>1, <1>2, <1>3, <1>4, <1>5, <1>7, <1>8
<1> QED
  BY <1>6, <1>7, <1>8

LEMMA ElementsConcat ==
  ASSUME NEW s \in Seq(Records), NEW t \in Seq(Records)
  PROVE  Elements(s \o t) = Elements(s) \cup Elements(t)
<1>1. /\ Len(s) \in Nat /\ Len(t) \in Nat /\ DOMAIN s = 1..Len(s) /\ DOMAIN t = 1..Len(t)
      /\ DOMAIN (s \o t) = 1..(Len(s) + Len(t))
      /\ \A i \in 1..Len(s) : (s \o t)[i] = s[i]
      /\ \A i \in 1..Len(t) : (s \o t)[Len(s) + i] = t[i]
  OBVIOUS
<1>2. PICK u : u = s \o t
  OBVIOUS
<1>3. PICK m, n \in Nat : m = Len(s) /\ n = Len(t)
  BY <1>1
<1>4. \A i \in 1..(m + n) : i \in 1..m \/ (i - m \in 1..n /\ i = m + (i - m))
  OBVIOUS
<1>5. \A i \in 1..n : m + i \in 1..(m + n)
  OBVIOUS
<1>6. \A i \in 1..m : i \in 1..(m + n)
  OBVIOUS
<1>7. \A r : r \in Elements(u) <=> \E i \in 1..(m + n) : r = u[i]
  BY <1>1, <1>2, <1>3 DEF Elements
<1>8. \A r : (r \in Elements(s) <=> \E i \in 1..m : r = s[i]) /\ (r \in Elements(t) <=> \E i \in 1..n : r = t[i])
  BY <1>1, <1>3 DEF Elements
<1>9. (\A i \in 1..m : u[i] = s[i]) /\ (\A i \in 1..n : u[m + i] = t[i])
  BY <1>1, <1>2, <1>3
<1>10. Elements(u) \subseteq Elements(s) \cup Elements(t)
  <2>1. SUFFICES ASSUME NEW r \in Elements(u) PROVE r \in Elements(s) \/ r \in Elements(t)
    OBVIOUS
  <2>2. PICK i \in 1..(m + n) : r = u[i]
    BY <1>7, <2>1
  <2>3. CASE i \in 1..m
    BY <1>8, <1>9, <2>2, <2>3
  <2>4. CASE i - m \in 1..n /\ i = m + (i - m)
    <3>1. PICK k : k = i - m
      OBVIOUS
    <3>2. k \in 1..n /\ r = u[m + k]
      BY <2>2, <2>4, <3>1
    <3>3. r = t[k]
      BY <1>9, <3>2
    <3> QED
      BY <1>8, <3>2, <3>3
  <2> QED
    BY <1>4, <2>3, <2>4
<1>11. Elements(s) \cup Elements(t) \subseteq Elements(u)
  BY <1>5, <1>6, <1>7, <1>8, <1>9
<1> QED
  BY <1>2, <1>10, <1>11

LEMMA ElementsPrefix ==
  ASSUME NEW s \in Seq(Records), NEW k \in 0..Len(s)
  PROVE  SubSeq(s, 1, k) \in Seq(Records) /\ Elements(SubSeq(s, 1, k)) \subseteq Elements(s)
<1>1. Len(s) \in Nat /\ DOMAIN s = 1..Len(s)
  OBVIOUS
<1>2. PICK n \in Nat : n = Len(s)
  BY <1>1
<1>3. k \in Nat /\ \A i \in 1..k : i \in 1..n
  BY <1>2
<1>4. /\ SubSeq(s, 1, k) \in Seq(Records) /\ DOMAIN SubSeq(s, 1, k) = 1..k
      /\ \A i \in 1..k : SubSeq(s, 1, k)[i] = s[i]
  BY <1>1
<1>5. PICK u : u = SubSeq(s, 1, k)
  OBVIOUS
<1>6. Elements(u) \subseteq Elements(s)
  BY <1>1, <1>2, <1>3, <1>4, <1>5 DEF Elements
<1> QED
  BY <1>4, <1>5, <1>6

(* A step of the writer only adds to the log, and only from the buffer.     *)
LEMMA LoggedGrows ==
  ASSUME JournalInv, WriterNext
  PROVE  /\ Logged \subseteq Logged'
         /\ \A r \in Logged' : r \in Logged \/ (CanWrite /\ r \in Elements(writer.buffer))
<1>1. files \in Seq(Files) /\ writer \in Writers
  BY DEF JournalInv, JournalTypeOK
<1>2. writer.buffer \in Seq(Records) /\ Len(writer.buffer) \in Nat
  BY <1>1, WriterIs
<1>3. ASSUME files # <<>>
      PROVE  Current \in Files /\ Current.frames \in Seq(Records)
             /\ Elements(Current.frames) \subseteq Logged
  <2>1. Current \in Files /\ Len(files) \in DOMAIN files
    BY <1>1, <1>3, CurrentIs
  <2> QED
    BY <2>1, FileIs DEF Logged, Current
<1>4. ASSUME UNCHANGED files PROVE Logged' = Logged
  BY <1>4 DEF Logged
<1>5. ASSUME files # <<>>, NEW f, SetCurrent(f), f.frames = Current.frames
      PROVE  Logged' = Logged
  <2>1. Logged' = Logged \cup Elements(Current.frames)
    BY <1>1, <1>5, LoggedSet
  <2> QED
    BY <1>3, <1>5, <2>1
<1>6. ASSUME CanWrite PROVE files # <<>>
  BY <1>6 DEF JournalInv, WriterInv, InPlace, CanWrite
<1>7. CASE Claim
  <2>1. CASE files # <<>> /\ Current.torn
    <3>1. SetCurrent(Flushed([Current EXCEPT !.torn = FALSE]))
      BY <1>7, <2>1 DEF Claim
    <3>2. Flushed([Current EXCEPT !.torn = FALSE]).frames = Current.frames
      BY <1>3, <2>1 DEF Flushed, Files
    <3> QED
      BY <1>5, <2>1, <3>1, <3>2
  <2>2. CASE ~(files # <<>> /\ Current.torn)
    BY <1>4, <1>7, <2>2 DEF Claim
  <2> QED
    BY <2>1, <2>2
<1>8. CASE AppendRecord \/ SyncFails \/ Kill
  BY <1>4, <1>8 DEF AppendRecord, SyncFails, Kill
<1>9. CASE WriteRecords
  <2>1. PICK s : s = Current.frames \o writer.buffer
    OBVIOUS
  <2>2. PICK f : f = [Current EXCEPT !.frames = s]
    OBVIOUS
  <2>3. SetCurrent(f) /\ CanWrite
    BY <1>9, <2>1, <2>2 DEF WriteRecords
  <2>4. f.frames = s
    BY <1>3, <1>6, <2>2, <2>3 DEF Files
  <2>5. Elements(s) = Elements(Current.frames) \cup Elements(writer.buffer)
    BY <1>2, <1>3, <1>6, <2>1, <2>3, ElementsConcat
  <2>6. Logged' = Logged \cup Elements(s)
    BY <1>1, <1>6, <2>3, <2>4, <2>5, LoggedSet
  <2> QED
    BY <1>3, <1>6, <2>3, <2>5, <2>6
<1>10. CASE WriteCutShort
  <2>1. CanWrite
    BY <1>10 DEF WriteCutShort
  <2>2. PICK k \in 0..(Len(writer.buffer) - 1), t \in BOOLEAN :
          SetCurrent([Current EXCEPT !.frames = @ \o SubSeq(writer.buffer, 1, k), !.torn = t])
    BY <1>10 DEF WriteCutShort
  <2>3. PICK b : b = SubSeq(writer.buffer, 1, k)
    OBVIOUS
  <2>4. k \in 0..Len(writer.buffer)
    BY <1>2
  <2>5. b \in Seq(Records) /\ Elements(b) \subseteq Elements(writer.buffer)
    BY <1>2, <2>3, <2>4, ElementsPrefix
  <2>6. PICK s : s = Current.frames \o b
    OBVIOUS
  <2>7. PICK f : f = [Current EXCEPT !.frames = s, !.torn = t]
    OBVIOUS
  <2>8. SetCurrent(f)
    BY <2>2, <2>3, <2>6, <2>7
  <2>9. f.frames = s
    BY <1>3, <1>6, <2>1, <2>7 DEF Files
  <2>10. Elements(s) = Elements(Current.frames) \cup Elements(b)
    BY <1>3, <1>6, <2>1, <2>5, <2>6, ElementsConcat
  <2>11. Logged' = Logged \cup Elements(s)
    BY <1>1, <1>6, <2>1, <2>8, <2>9, <2>10, LoggedSet
  <2> QED
    BY <1>3, <1>6, <2>1, <2>5, <2>10, <2>11
<1>11. CASE SyncRecords
  <2>1. SetCurrent(Flushed(Current)) /\ files # <<>>
    BY <1>11 DEF SyncRecords, JournalInv, WriterInv, InPlace
  <2>2. Flushed(Current).frames = Current.frames
    BY <1>3, <2>1 DEF Flushed, Files
  <2> QED
    BY <1>5, <2>1, <2>2
<1>12. CASE WriteHeader
  <2>1. SetCurrent([Current EXCEPT !.header = TRUE]) /\ files # <<>>
    BY <1>12 DEF WriteHeader, JournalInv, WriterInv, InPlace
  <2>2. [Current EXCEPT !.header = TRUE].frames = Current.frames
    BY <1>3, <2>1 DEF Files
  <2> QED
    BY <1>5, <2>1, <2>2
<1>13. CASE CreateSegment
  <2>1. PICK f : f = [base   |-> writer.next - Len(writer.buffer),
                      header |-> FALSE, frames |-> <<>>,
                      torn   |-> FALSE, safe |-> 0, kept |-> FALSE]
    OBVIOUS
  <2>2. files' = Append(files, f) /\ f.frames = <<>>
    BY <1>13, <2>1 DEF CreateSegment
  <2>3. Elements(f.frames) = {}
    BY <2>2 DEF Elements
  <2>4. PICK n \in Nat : n = Len(files) /\ DOMAIN files = 1..n
    BY <1>1
  <2>5. /\ DOMAIN files' = 1..(n + 1) /\ files'[n + 1] = f
        /\ \A i \in 1..n : files'[i] = files[i] /\ i \in 1..(n + 1)
    BY <1>1, <2>2, <2>4
  <2>6. \A i \in 1..(n + 1) : i = n + 1 \/ i \in 1..n
    OBVIOUS
  <2>7. \A r : /\ r \in Logged <=> \E i \in 1..n : r \in Elements(files[i].frames)
               /\ r \in Logged' <=> \E i \in 1..(n + 1) : r \in Elements(files'[i].frames)
    BY <2>4, <2>5 DEF Logged
  <2>8. Logged' = Logged
    BY <2>3, <2>5, <2>6, <2>7
  <2> QED
    BY <2>8
<1> QED
  BY <1>7, <1>8, <1>9, <1>10, <1>11, <1>12, <1>13 DEF WriterNext

(* A loss of power only takes from it.                                      *)
LEMMA LoggedShrinks ==
  ASSUME JournalInv, PowerLoss
  PROVE  Logged' \subseteq Logged
<1>1. files \in Seq(Files)
  BY DEF JournalInv, JournalTypeOK
<1>2. CASE files = <<>>
  BY <1>2 DEF PowerLoss, Logged
<1>3. CASE files # <<>>
  <2>1. /\ Current \in Files /\ Current.frames \in Seq(Records) /\ Current.safe \in Nat
        /\ Len(Current.frames) \in Nat /\ Elements(Current.frames) \subseteq Logged
    <3>1. Current \in Files /\ Len(files) \in DOMAIN files
      BY <1>1, <1>3, CurrentIs
    <3> QED
      BY <3>1, FileIs DEF Logged, Current
  <2>2. ASSUME NEW f, SetCurrent(f), Elements(f.frames) \subseteq Elements(Current.frames)
        PROVE  Logged' \subseteq Logged
    BY <1>1, <1>3, <2>1, <2>2, LoggedSet
  <2>3. ASSUME NEW k \in Current.safe..Len(Current.frames), NEW t \in BOOLEAN,
               SetCurrent(Cut(Current, k, t))
        PROVE  Logged' \subseteq Logged
    <3>1. k \in 0..Len(Current.frames)
      BY <2>1
    <3>2. PICK s : s = SubSeq(Current.frames, 1, k)
      OBVIOUS
    <3>3. PICK f : f = [Current EXCEPT !.frames = s, !.torn = t, !.safe = k, !.kept = Current.header]
      OBVIOUS
    <3>4. SetCurrent(f)
      BY <2>3, <3>2, <3>3 DEF Cut
    <3>5. f.frames = s
      BY <2>1, <3>3 DEF Files
    <3> QED
      BY <2>1, <2>2, <3>1, <3>2, <3>4, <3>5, ElementsPrefix
  <2>4. ASSUME SetCurrent(HeaderLost(Current)) PROVE Logged' \subseteq Logged
    <3>1. HeaderLost(Current).frames = <<>>
      BY <2>1 DEF HeaderLost, Files
    <3>2. Elements(HeaderLost(Current).frames) = {}
      BY <3>1 DEF Elements
    <3> QED
      BY <2>2, <2>4, <3>2
  <2>5. ASSUME files' = SubSeq(files, 1, Len(files) - 1) PROVE Logged' \subseteq Logged
    <3>1. PICK n \in Nat : n = Len(files) /\ DOMAIN files = 1..n /\ n # 0
      BY <1>1, <1>3
    <3>2. PICK p : p = n - 1
      OBVIOUS
    <3>3. p \in Nat /\ p \in 0..n /\ \A i \in 1..p : i \in 1..n
      BY <3>1, <3>2
    <3>4. DOMAIN files' = 1..p /\ \A i \in 1..p : files'[i] = files[i]
      BY <1>1, <2>5, <3>1, <3>2, <3>3
    <3> QED
      BY <3>1, <3>3, <3>4 DEF Logged
  <2> QED
    BY <1>3, <2>3, <2>4, <2>5 DEF PowerLoss, LoseUnsynced
<1> QED
  BY <1>2, <1>3

(* The frame claim() resumes after is a record of the log, and the last.    *)
LEMMA LastFrameLogged ==
  ASSUME files \in Seq(Files), LogIsGapFree, Shape, NEW r \in Logged
  PROVE  \E e \in Logged : /\ e.seq = LastFrame.seq /\ e.epoch = LastFrame.epoch
                           /\ r.seq <= e.seq
<1> DEFINE n == Len(files)
           T == {k \in 0..(n - 1) : files[n - k].frames # <<>>}
<1>1. n \in Nat /\ DOMAIN files = 1..n /\ \A i \in 1..n : files[i] \in Files
  OBVIOUS
<1>2. PICK i \in 1..n : \E j \in DOMAIN files[i].frames : r = files[i].frames[j]
  BY <1>1, LoggedIs
<1>3. files[i].frames # <<>>
  BY <1>2
<1>4. n - i \in 0..(n - 1) /\ n - (n - i) = i
  BY <1>1
<1>5. n - i \in T
  BY <1>3, <1>4
<1>6. PICK k \in T : \A y \in T : k <= y
  <2>1. T \subseteq Nat
    OBVIOUS
  <2> HIDE DEF T
  <2> QED
    BY <1>5, <2>1, LeastNat
<1>7. PICK m : m = n - k
  OBVIOUS
<1>8. m \in 1..n /\ files[m].frames # <<>> /\ m = n - k /\ k \in Nat
  BY <1>1, <1>6, <1>7
<1>9. ASSUME NEW x \in NonEmpty PROVE x <= m /\ x \in 1..n
  <2>1. x \in 1..n /\ files[x].frames # <<>>
    BY <1>1 DEF NonEmpty
  <2>2. n - x \in 0..(n - 1) /\ n - (n - x) = x
    BY <1>1, <2>1
  <2>3. n - x \in T
    BY <2>1, <2>2
  <2>4. k <= n - x
    BY <1>6, <2>3
  <2> QED
    BY <1>1, <1>8, <2>1, <2>4
<1> HIDE DEF n, T
<1>10. m \in NonEmpty
  BY <1>1, <1>8 DEF NonEmpty
<1>11. m = CHOOSE x \in NonEmpty : \A y \in NonEmpty : y <= x
  <2> DEFINE P(x) == \A y \in NonEmpty : y <= x
  <2>1. P(m) /\ \A x \in NonEmpty : P(x) => x = m
    BY <1>8, <1>9, <1>10
  <2> HIDE DEF P
  <2>2. m = CHOOSE x \in NonEmpty : P(x)
    BY <1>10, <2>1
  <2> QED
    BY <2>2 DEF P
<1>12. LastFrame = EndFrame(files[m])
  BY <1>10, <1>11 DEF LastFrame
<1>13. PICK e : e = files[m].frames[Len(files[m].frames)]
  OBVIOUS
<1>14. LastFrame.seq = e.seq /\ LastFrame.epoch = e.epoch
  BY <1>12, <1>13 DEF EndFrame
<1>15. files[m] \in Files
  BY <1>1, <1>8
<1>16. Len(files[m].frames) \in DOMAIN files[m].frames
  BY <1>8, <1>15, FileIs
<1>17. e \in Logged
  BY <1>1, <1>8, <1>13, <1>16, LoggedIs
<1>18. files # <<>> /\ r.seq \in Nat /\ EndOf(Current) \in Nat /\ r.seq < EndOf(Current)
  BY LoggedBelow
<1>19. LastFrame.seq + 1 = EndOf(Current) /\ LastFrame.seq \in Nat
  BY <1>18, LastFrameIs
<1>20. r.seq <= e.seq
  BY <1>14, <1>18, <1>19
<1> QED
  BY <1>14, <1>17, <1>20

(* What is in the buffer of a writer that may write comes after all of it.  *)
LEMMA BufferAfterLog ==
  ASSUME JournalInv, CanWrite, NEW r \in Elements(writer.buffer)
  PROVE  /\ r \in Records
         /\ \A s \in Logged : s.seq \in Nat /\ s.seq < r.seq
<1>1. files \in Seq(Files) /\ writer \in Writers /\ LogIsGapFree
  BY DEF JournalInv, JournalTypeOK
<1>2. writer.buffer \in Seq(Records)
  BY <1>1, WriterIs
<1>3. /\ writer.pc \notin {"down", "poisoned"} /\ writer.pc \in {"claim", "ready"}
  BY DEF CanWrite
<1>4. BufferInOrder /\ files # <<>> /\ Open(Current, writer)
  BY <1>3 DEF JournalInv, WriterInv, InPlace
<1>5. PICK i \in DOMAIN writer.buffer : r = writer.buffer[i]
  BY DEF Elements
<1>6. i \in Nat /\ i >= 1 /\ r \in Records
  BY <1>2, <1>5
<1>7. r.seq = Pending + i - 1 /\ EndOf(Current) = Pending
  BY <1>4, <1>5 DEF BufferInOrder, Open, Pending
<1>8. ASSUME NEW s \in Logged PROVE s.seq \in Nat /\ s.seq < r.seq
  <2>1. s.seq \in Nat /\ EndOf(Current) \in Nat /\ s.seq < EndOf(Current)
    BY <1>1, LoggedBelow
  <2> QED
    BY <1>6, <1>7, <2>1
<1> QED
  BY <1>6, <1>8

(* What the epochs need: no record is of a run to come; while a writer is   *)
(* up no record is of a later epoch, those of its epoch are its own, and so *)
(* is all it has in its buffer.                                             *)
OwnEpoch ==
  /\ \A r \in Logged : r.epoch <= writer.epoch /\ (r.epoch = writer.epoch => r.run = claims)
  /\ \A r \in Elements(writer.buffer) : r.epoch = writer.epoch /\ r.run = claims

EpochInv ==
  /\ EpochsAreExclusive
  /\ \A r \in Logged : r.run <= claims
  /\ writer.pc \notin {"down", "poisoned"} => OwnEpoch

(* A step of a writer that is up, keeping its epoch.                        *)
LEMMA EpochWrite ==
  ASSUME JournalInv, EpochInv, WriterNext, ~Claim
  PROVE  EpochInv'
<1>1. files \in Seq(Files) /\ writer \in Writers /\ claims \in Nat /\ LogIsGapFree
  BY DEF JournalInv, JournalTypeOK
<1>2. /\ Logged \subseteq Logged'
      /\ \A r \in Logged' : r \in Logged \/ (CanWrite /\ r \in Elements(writer.buffer))
  BY LoggedGrows
<1>3. claims' = claims
  BY DEF WriterNext, AppendRecord, WriteRecords, WriteCutShort, SyncRecords, SyncFails,
         CreateSegment, WriteHeader, Kill
<1>4. writer.buffer \in Seq(Records) /\ writer.epoch \in Nat
  BY <1>1, WriterIs DEF Writers
<1>5. ASSUME CanWrite, NEW r \in Elements(writer.buffer)
      PROVE  /\ r.epoch = writer.epoch /\ r.run = claims /\ r \in Records
             /\ \A s \in Logged : s.seq < r.seq
  <2>1. /\ writer.pc \notin {"down", "poisoned"} /\ writer.pc \in {"claim", "ready"}
    BY <1>5 DEF CanWrite
  <2>2. OwnEpoch
    BY <2>1 DEF EpochInv
  <2>3. r.epoch = writer.epoch /\ r.run = claims
    BY <1>5, <2>2 DEF OwnEpoch
  <2> QED
    BY <1>5, <2>3, BufferAfterLog
<1>6. \A r \in Logged : r \in Records /\ r.seq \in Nat /\ r.epoch \in Nat /\ r.run \in Nat
  BY <1>1, LoggedIs DEF Records
<1>7. CanWrite => OwnEpoch
  BY DEF CanWrite, EpochInv
<1>8. EpochsAreExclusive'
  <2>1. SUFFICES ASSUME NEW a \in Logged', NEW b \in Logged'
                 PROVE  /\ a.epoch = b.epoch => a.run = b.run
                        /\ a.seq <= b.seq => (a.epoch <= b.epoch /\ a.run <= b.run)
    BY DEF EpochsAreExclusive
  <2>2. CASE a \in Logged /\ b \in Logged
    BY <2>2 DEF EpochInv, EpochsAreExclusive
  <2>3. CASE a \in Logged /\ CanWrite /\ b \in Elements(writer.buffer)
    <3>1. b.epoch = writer.epoch /\ b.run = claims
      BY <1>5, <2>3
    <3>2. a.epoch <= writer.epoch /\ (a.epoch = writer.epoch => a.run = claims) /\ a.run <= claims
      BY <1>7, <2>3 DEF OwnEpoch, EpochInv
    <3> QED
      BY <3>1, <3>2
  <2>4. CASE b \in Logged /\ CanWrite /\ a \in Elements(writer.buffer)
    <3>1. a.epoch = writer.epoch /\ a.run = claims /\ b.seq < a.seq /\ a \in Records
      BY <1>5, <2>4
    <3>2. b.epoch = writer.epoch => b.run = claims
      BY <1>7, <2>4 DEF OwnEpoch
    <3>3. a.seq \in Nat /\ b.seq \in Nat
      BY <1>6, <2>4, <3>1 DEF Records
    <3>4. ~(a.seq <= b.seq)
      BY <3>1, <3>3
    <3> QED
      BY <3>1, <3>2, <3>4
  <2>5. CASE CanWrite /\ a \in Elements(writer.buffer) /\ b \in Elements(writer.buffer)
    <3>1. a.epoch = writer.epoch /\ a.run = claims /\ b.epoch = writer.epoch /\ b.run = claims
      BY <1>5, <2>5
    <3> QED
      BY <1>1, <1>4, <3>1
  <2> QED
    BY <1>2, <2>2, <2>3, <2>4, <2>5
<1>9. \A r \in Logged' : r.run <= claims'
  BY <1>1, <1>2, <1>3, <1>5 DEF EpochInv
<1>10. ASSUME writer'.pc \notin {"down", "poisoned"} PROVE OwnEpoch'
  <2>0. /\ writer.pc \notin {"down", "poisoned"} /\ writer'.epoch = writer.epoch
        /\ AppendRecord \/ writer'.buffer = writer.buffer \/ writer'.buffer = <<>>
    <3>1. CASE AppendRecord
      BY <1>1, <3>1 DEF AppendRecord, Writers
    <3>2. CASE WriteRecords
      BY <1>1, <3>2 DEF WriteRecords, CanWrite, Writers
    <3>3. CASE SyncRecords
      BY <1>1, <3>3 DEF SyncRecords, Writers
    <3>4. CASE CreateSegment
      BY <1>1, <3>4 DEF CreateSegment, Writers
    <3>5. CASE WriteHeader
      BY <1>1, <3>5 DEF WriteHeader, Writers
    <3>6. CASE WriteCutShort \/ SyncFails
      BY <1>1, <1>10, <3>6 DEF WriteCutShort, SyncFails, Writers
    <3>7. CASE Kill
      BY <1>10, <3>7, DownIs DEF Kill
    <3> QED
      BY <3>1, <3>2, <3>3, <3>4, <3>5, <3>6, <3>7 DEF WriterNext
  <2>1. writer.pc \notin {"down", "poisoned"} /\ writer'.epoch = writer.epoch
    BY <2>0
  <2>2. OwnEpoch
    BY <2>1 DEF EpochInv
  <2>3. \A r \in Logged' : r.epoch <= writer'.epoch /\ (r.epoch = writer'.epoch => r.run = claims')
    BY <1>2, <1>3, <1>4, <1>5, <2>1, <2>2 DEF OwnEpoch
  <2>4. \A r \in Elements(writer'.buffer) : r.epoch = writer.epoch /\ r.run = claims
    <3>1. CASE AppendRecord
      <4>1. PICK x : x = [seq |-> writer.next, epoch |-> writer.epoch, run |-> claims]
        OBVIOUS
      <4>2. x \in Records /\ x.epoch = writer.epoch /\ x.run = claims
        BY <1>1, <1>4, <4>1, WriterIs DEF Records
      <4>3. writer'.buffer = Append(writer.buffer, x)
        BY <1>1, <3>1, <4>1 DEF AppendRecord, Writers
      <4>4. Append(writer.buffer, x) = writer.buffer \o <<x>> /\ <<x>> \in Seq(Records)
        BY <1>4, <4>2
      <4>5. Elements(<<x>>) = {x}
        BY DEF Elements
      <4>6. Elements(writer'.buffer) = Elements(writer.buffer) \cup {x}
        <5>1. Elements(writer.buffer \o <<x>>) = Elements(writer.buffer) \cup Elements(<<x>>)
          BY <1>4, <4>4, ElementsConcat
        <5> QED
          BY <4>3, <4>4, <4>5, <5>1, Zenon
      <4> QED
        BY <2>2, <4>2, <4>6 DEF OwnEpoch
    <3>2. CASE writer'.buffer = writer.buffer
      BY <2>2, <3>2 DEF OwnEpoch
    <3>3. CASE writer'.buffer = <<>>
      BY <3>3 DEF Elements
    <3> QED
      BY <2>0, <3>1, <3>2, <3>3
  <2> QED
    BY <1>3, <2>1, <2>3, <2>4 DEF OwnEpoch
<1> QED
  BY <1>8, <1>9, <1>10 DEF EpochInv

(* The next writer takes an epoch and a run that no record has.             *)
LEMMA EpochClaim ==
  ASSUME JournalInv, EpochInv, Claim
  PROVE  EpochInv'
<1>1. files \in Seq(Files) /\ claims \in Nat /\ LogIsGapFree /\ Shape
  BY DEF JournalInv, JournalTypeOK
<1>2. Logged' = Logged
  <2>1. Logged \subseteq Logged'
    BY LoggedGrows DEF WriterNext
  <2>2. ~CanWrite
    BY DEF Claim, CanWrite
  <2>3. Logged' \subseteq Logged
    BY <2>2, LoggedGrows DEF WriterNext
  <2> QED
    BY <2>1, <2>3
<1>3. PICK age, last \in Nat : age = LastFrame.epoch /\ last = LastFrame.seq
  BY <1>1, LastFrameIs
<1>4. PICK x : x = [seq |-> last + 1, epoch |-> age + 1, run |-> claims + 1]
  OBVIOUS
<1>5. x.epoch = age + 1 /\ x.run = claims + 1
  BY <1>4
<1>6. claims' = claims + 1 /\ writer'.epoch = age + 1 /\ writer'.buffer = <<x>>
  BY <1>3, <1>4 DEF Claim, NextEpoch
<1>7. \A r \in Elements(writer'.buffer) : r.epoch = writer'.epoch /\ r.run = claims'
  BY <1>5, <1>6 DEF Elements
<1>8. ASSUME NEW r \in Logged
      PROVE  r.run <= claims /\ r.run \in Nat /\ r.epoch \in Nat /\ r.epoch <= age
  <2>1. PICK e \in Logged : e.epoch = age /\ r.seq <= e.seq
    BY <1>1, <1>3, LastFrameLogged
  <2> QED
    BY <1>1, <2>1, LoggedIs DEF EpochInv, EpochsAreExclusive, Records
<1>9. \A r \in Logged' : r.run <= claims'
  BY <1>1, <1>2, <1>6, <1>8
<1>10. \A r \in Logged' : r.epoch <= writer'.epoch /\ (r.epoch = writer'.epoch => r.run = claims')
  BY <1>2, <1>3, <1>6, <1>8
<1>11. EpochsAreExclusive'
  BY <1>2 DEF EpochInv, EpochsAreExclusive
<1> QED
  BY <1>7, <1>9, <1>10, <1>11 DEF EpochInv, OwnEpoch

(* An epoch belongs to one run of the writer: claim() reads the highest     *)
(* epoch that any record of the log has, though it looks at one frame.      *)
THEOREM EpochsStayExclusive == JournalSpec => []EpochsAreExclusive
<1>1. JournalInit => EpochInv
  <2>1. JournalInit => Logged = {}
    BY DEF JournalInit, Logged
  <2> QED
    BY <2>1, DownIs DEF JournalInit, EpochInv, EpochsAreExclusive
<1>2. JournalInv /\ EpochInv /\ [JournalNext]_journal => EpochInv'
  <2>1. SUFFICES ASSUME JournalInv, EpochInv, [JournalNext]_journal PROVE EpochInv'
    OBVIOUS
  <2>2. CASE Claim
    BY <2>1, <2>2, EpochClaim
  <2>3. CASE WriterNext /\ ~Claim
    BY <2>1, <2>3, EpochWrite
  <2>4. CASE PowerLoss
    <3>1. Logged' \subseteq Logged
      BY <2>1, <2>4, LoggedShrinks
    <3>2. claims' = claims /\ writer'.pc = "down"
      BY <2>4, DownIs DEF PowerLoss
    <3> QED
      BY <2>1, <3>1, <3>2 DEF EpochInv, EpochsAreExclusive
  <2>5. CASE UNCHANGED journal
    BY <2>1, <2>5 DEF journal, EpochInv, EpochsAreExclusive, OwnEpoch, Logged
  <2> QED
    BY <2>1, <2>2, <2>3, <2>4, <2>5 DEF JournalNext
<1>3. EpochInv => EpochsAreExclusive
  BY DEF EpochInv
<1> QED
  BY <1>1, <1>2, <1>3, JournalInduction, PTL DEF JournalSpec
-----------------------------------------------------------------------------
(* What a reader of the log relies on.                                      *)

(* A file ends before any later one begins.                                 *)
LEMMA FilesInOrder ==
  ASSUME files \in Seq(Files), LogIsGapFree,
         NEW i \in DOMAIN files, NEW k \in DOMAIN files, i < k
  PROVE  EndOf(files[i]) <= files[k].base
<1> DEFINE n == Len(files)
           T == {j \in 1..n : i < j /\ ~(EndOf(files[i]) <= files[j].base)}
<1>1. n \in Nat /\ DOMAIN files = 1..n /\ i \in 1..n /\ k \in 1..n
  OBVIOUS
<1>2. \A j \in 1..n : /\ EndOf(files[j]) \in Nat /\ files[j].base \in Nat
                      /\ files[j].base <= EndOf(files[j])
  BY <1>1, FileIs DEF EndOf
<1>3. T = {}
  <2>1. SUFFICES ASSUME T # {} PROVE FALSE
    OBVIOUS
  <2>2. T \subseteq Nat
    BY <1>1
  <2>3. PICK j \in T : \A y \in T : j <= y
    <3> HIDE DEF T
    <3> QED
      BY <2>1, <2>2, LeastNat
  <2>4. j \in 1..n /\ i < j /\ ~(EndOf(files[i]) <= files[j].base) /\ j # 1
    BY <1>1, <2>3
  <2>5. files[j].base = EndOf(files[j - 1]) /\ j - 1 \in 1..n
    BY <1>1, <2>4 DEF LogIsGapFree, EndOf
  <2>6. i # j - 1
    BY <1>2, <2>4, <2>5
  <2>7. i < j - 1 /\ ~(j <= j - 1)
    BY <1>1, <2>4, <2>6
  <2>8. EndOf(files[i]) <= files[j - 1].base
    BY <2>3, <2>5, <2>7
  <2> QED
    BY <1>1, <1>2, <2>4, <2>5, <2>8
<1> QED
  BY <1>1, <1>3

(* A sequence names one record of the log.                                  *)
LEMMA SequencesAreUnique ==
  ASSUME files \in Seq(Files), LogIsGapFree,
         NEW a \in Logged, NEW b \in Logged, a.seq = b.seq
  PROVE  a = b
<1>1. PICK i \in DOMAIN files : \E x \in DOMAIN files[i].frames : a = files[i].frames[x]
  BY LoggedIs
<1>2. PICK x \in DOMAIN files[i].frames : a = files[i].frames[x]
  BY <1>1
<1>3. PICK k \in DOMAIN files : \E y \in DOMAIN files[k].frames : b = files[k].frames[y]
  BY LoggedIs
<1>4. PICK y \in DOMAIN files[k].frames : b = files[k].frames[y]
  BY <1>3
<1>5. i \in Nat /\ k \in Nat
  OBVIOUS
<1>6. ASSUME NEW m \in DOMAIN files, NEW z \in DOMAIN files[m].frames
      PROVE  /\ files[m].frames[z].seq = files[m].base + z - 1
             /\ files[m].base \in Nat /\ z \in Nat /\ EndOf(files[m]) \in Nat
             /\ files[m].base <= files[m].frames[z].seq
             /\ files[m].frames[z].seq < EndOf(files[m])
  <2>1. files[m] \in Files
    OBVIOUS
  <2>2. PICK l \in Nat : l = Len(files[m].frames) /\ DOMAIN files[m].frames = 1..l
    <3>1. Len(files[m].frames) \in Nat /\ DOMAIN files[m].frames = 1..Len(files[m].frames)
      BY <2>1, FileIs
    <3> QED
      BY <3>1, Zenon
  <2>3. PICK c \in Nat : c = files[m].base
    BY <2>1, FileIs
  <2>4. files[m].frames[z].seq = c + z - 1 /\ z \in 1..l /\ EndOf(files[m]) = c + l
    BY <1>6, <2>2, <2>3 DEF LogIsGapFree, EndOf
  <2>5. z \in Nat /\ c <= c + z - 1 /\ c + z - 1 < c + l /\ c + l \in Nat
    BY <2>4
  <2> QED
    BY <2>3, <2>4, <2>5
<1>7. ~(i < k)
  <2>1. SUFFICES ASSUME i < k PROVE FALSE
    OBVIOUS
  <2>2. EndOf(files[i]) <= files[k].base
    BY <2>1, FilesInOrder
  <2>3. a.seq < EndOf(files[i]) /\ files[k].base <= b.seq /\ EndOf(files[i]) \in Nat /\ files[k].base \in Nat
    BY <1>2, <1>4, <1>6
  <2>4. a.seq \in Nat
    BY LoggedBelow
  <2> QED
    BY <2>2, <2>3, <2>4
<1>8. ~(k < i)
  <2>1. SUFFICES ASSUME k < i PROVE FALSE
    OBVIOUS
  <2>2. EndOf(files[k]) <= files[i].base
    BY <2>1, FilesInOrder
  <2>3. b.seq < EndOf(files[k]) /\ files[i].base <= a.seq /\ EndOf(files[k]) \in Nat /\ files[i].base \in Nat
    BY <1>2, <1>4, <1>6
  <2>4. a.seq \in Nat
    BY LoggedBelow
  <2> QED
    BY <2>2, <2>3, <2>4
<1>9. i = k
  BY <1>5, <1>7, <1>8
<1>10. /\ a.seq = files[i].base + x - 1 /\ b.seq = files[i].base + y - 1
       /\ files[i].base \in Nat /\ x \in Nat /\ y \in Nat
  BY <1>2, <1>4, <1>6, <1>9
<1>11. x = y
  <2>1. PICK c \in Nat : c = files[i].base
    BY <1>10
  <2>2. c + x - 1 = c + y - 1 /\ x \in Nat /\ y \in Nat
    BY <1>10, <2>1
  <2> QED
    BY <2>2
<1> QED
  BY <1>2, <1>4, <1>9, <1>11

(* A step of the writer removes no file and moves none.                     *)
LEMMA FilesStay ==
  ASSUME JournalInv, WriterNext
  PROVE  /\ Len(files) <= Len(files') /\ files' \in Seq(Files)
         /\ \A i \in DOMAIN files : i \in DOMAIN files' /\ files'[i].base = files[i].base
<1>1. files \in Seq(Files) /\ files' \in Seq(Files) /\ Len(files) \in Nat
  <2>1. JournalInv'
    BY ClaimKeeps, AppendKeeps, WriteKeeps, CutShortKeeps, SyncKeeps, StopKeeps,
       CreateKeeps, HeaderKeeps DEF WriterNext
  <2> QED
    BY <2>1 DEF JournalInv, JournalTypeOK
<1>2. ASSUME UNCHANGED files
      PROVE  /\ Len(files) <= Len(files')
             /\ \A i \in DOMAIN files : i \in DOMAIN files' /\ files'[i].base = files[i].base
  BY <1>1, <1>2
<1>3. ASSUME files # <<>>, NEW f, SetCurrent(f), f.base = Current.base
      PROVE  /\ Len(files) <= Len(files')
             /\ \A i \in DOMAIN files : i \in DOMAIN files' /\ files'[i].base = files[i].base
  <2>1. PICK n \in Nat : n = Len(files) /\ DOMAIN files = 1..n
    BY <1>1
  <2>2. /\ files' = [files EXCEPT ![n] = f] /\ f.base = files[n].base
        /\ Len(files') = n /\ DOMAIN files' = DOMAIN files
    BY <1>1, <1>3, <2>1 DEF SetCurrent, Current
  <2>3. \A i \in DOMAIN files : files'[i] = files[i] \/ (i = n /\ files'[i] = f)
    BY <2>1, <2>2
  <2>4. n <= n
    OBVIOUS
  <2> QED
    BY <2>1, <2>2, <2>3, <2>4
<1>4. ASSUME files # <<>> PROVE Current \in Files
  BY <1>1, <1>4, CurrentIs
<1>5. CASE Claim
  <2>1. CASE files # <<>> /\ Current.torn
    <3>1. SetCurrent(Flushed([Current EXCEPT !.torn = FALSE]))
      BY <1>5, <2>1 DEF Claim
    <3>2. Flushed([Current EXCEPT !.torn = FALSE]).base = Current.base
      BY <1>4, <2>1 DEF Flushed, Files
    <3> QED
      BY <1>1, <1>3, <2>1, <3>1, <3>2
  <2>2. CASE ~(files # <<>> /\ Current.torn)
    BY <1>1, <1>2, <1>5, <2>2 DEF Claim
  <2> QED
    BY <2>1, <2>2
<1>6. CASE AppendRecord \/ SyncFails \/ Kill
  BY <1>1, <1>2, <1>6 DEF AppendRecord, SyncFails, Kill
<1>7. ASSUME CanWrite PROVE files # <<>>
  BY <1>7 DEF JournalInv, WriterInv, InPlace, CanWrite
<1>8. CASE WriteRecords
  <2>1. PICK s : s = Current.frames \o writer.buffer
    OBVIOUS
  <2>2. SetCurrent([Current EXCEPT !.frames = s]) /\ files # <<>>
    BY <1>7, <1>8, <2>1 DEF WriteRecords
  <2>3. [Current EXCEPT !.frames = s].base = Current.base
    BY <1>4, <2>2 DEF Files
  <2> QED
    BY <1>1, <1>3, <2>2, <2>3
<1>9. CASE WriteCutShort
  <2>1. PICK k \in 0..(Len(writer.buffer) - 1), t \in BOOLEAN :
          SetCurrent([Current EXCEPT !.frames = @ \o SubSeq(writer.buffer, 1, k), !.torn = t])
    BY <1>9 DEF WriteCutShort
  <2>2. PICK s : s = Current.frames \o SubSeq(writer.buffer, 1, k)
    OBVIOUS
  <2>3. SetCurrent([Current EXCEPT !.frames = s, !.torn = t]) /\ files # <<>>
    BY <1>7, <1>9, <2>1, <2>2 DEF WriteCutShort
  <2>4. [Current EXCEPT !.frames = s, !.torn = t].base = Current.base
    BY <1>4, <2>3 DEF Files
  <2> QED
    BY <1>1, <1>3, <2>3, <2>4
<1>10. CASE SyncRecords
  <2>1. SetCurrent(Flushed(Current)) /\ files # <<>>
    BY <1>10 DEF SyncRecords, JournalInv, WriterInv, InPlace
  <2>2. Flushed(Current).base = Current.base
    BY <1>4, <2>1 DEF Flushed, Files
  <2> QED
    BY <1>1, <1>3, <2>1, <2>2
<1>11. CASE WriteHeader
  <2>1. SetCurrent([Current EXCEPT !.header = TRUE]) /\ files # <<>>
    BY <1>11 DEF WriteHeader, JournalInv, WriterInv, InPlace
  <2>2. [Current EXCEPT !.header = TRUE].base = Current.base
    BY <1>4, <2>1 DEF Files
  <2> QED
    BY <1>1, <1>3, <2>1, <2>2
<1>12. CASE CreateSegment
  <2>1. PICK f : f = [base   |-> writer.next - Len(writer.buffer),
                      header |-> FALSE, frames |-> <<>>,
                      torn   |-> FALSE, safe |-> 0, kept |-> FALSE]
    OBVIOUS
  <2>2. files' = Append(files, f)
    BY <1>12, <2>1 DEF CreateSegment
  <2>3. PICK n \in Nat : n = Len(files) /\ DOMAIN files = 1..n
    BY <1>1
  <2>4. /\ Len(files') = n + 1 /\ DOMAIN files' = 1..(n + 1)
        /\ \A i \in 1..n : files'[i] = files[i] /\ i \in 1..(n + 1)
    BY <1>1, <2>2, <2>3
  <2> QED
    BY <1>1, <2>3, <2>4
<1> QED
  BY <1>1, <1>5, <1>6, <1>8, <1>9, <1>10, <1>11, <1>12 DEF WriterNext
-----------------------------------------------------------------------------
(* The projector beside the journal.                                        *)

(* Where the tailer may stand: it lists no file that is not there, is       *)
(* opened on one that is, sends only a batch that holds something, and      *)
(* has nothing in hand when it is closed.                                   *)
Placed ==
  /\ tail.list <= Len(files)
  /\ At("seek") => tail.index <= Len(files)
  /\ At("insert") \/ At("commit") => batch # <<>>
  /\ At("closed") => batch = <<>>

(* What the projector knows while power is never lost: its rows, its cursor *)
(* and its batch are of the log; the batch is consecutive, ends just before *)
(* what is wanted next and leaves no hole behind the cursor.                *)
Consecutive ==
  /\ Elements(batch) \subseteq Logged
  /\ \A i \in DOMAIN batch : batch[i].seq = (tail.next - Len(batch)) + i - 1
  /\ tail.next - Len(batch) <= cursor + 1

Projected ==
  /\ table \subseteq Logged
  /\ \A r \in Logged : r.seq <= cursor => r \in table
  /\ cursor = 0 \/ \E r \in Logged : r.seq = cursor
  /\ Consecutive
  /\ At("seek") => files[tail.index].base <= tail.next
  /\ At("commit") => Elements(batch) \subseteq table

ProjectorInv == TypeOK /\ Placed /\ (losses = 0 => Projected)
-----------------------------------------------------------------------------
LEMMA TailIs ==
  ASSUME NEW t \in Tails
  PROVE  /\ t.pc \in TailStates /\ t.list \in Nat /\ t.index \in Nat /\ t.index # 0
         /\ t.offset \in Nat /\ t.next \in Nat /\ t.next # 0 /\ t.leaving \in BOOLEAN
  BY DEF Tails

LEMMA ClosedIs ==
  /\ Closed \in Tails /\ Closed.pc = "closed" /\ Closed.list = 0 /\ Closed.next = 1
  /\ <<>> \in Seq(Records) /\ Elements(<<>>) = {} /\ Len(<<>>) = 0 /\ DOMAIN <<>> = {}
  BY DEF Closed, Tails, TailStates, Elements

(* A set of numbers up to n has a greatest one.                             *)
LEMMA GreatestNat ==
  ASSUME NEW n \in Nat, NEW S, S \subseteq 1..n, S # {}
  PROVE  \E x \in S : \A y \in S : y <= x
<1> DEFINE T == {k \in 0..n : n - k \in S}
<1>1. PICK s \in S : TRUE
  OBVIOUS
<1>2. n - s \in 0..n /\ n - (n - s) = s
  OBVIOUS
<1>3. n - s \in T
  BY <1>2
<1>4. PICK k \in T : \A y \in T : k <= y
  <2>1. T \subseteq Nat
    OBVIOUS
  <2> HIDE DEF T
  <2> QED
    BY <1>3, <2>1, LeastNat
<1>5. n - k \in S /\ k \in 0..n
  OBVIOUS
<1>6. ASSUME NEW y \in S PROVE y <= n - k
  <2>1. n - y \in 0..n /\ n - (n - y) = y
    OBVIOUS
  <2>2. n - y \in T
    BY <2>1
  <2>3. k <= n - y
    BY <1>4, <2>2
  <2> QED
    BY <1>5, <2>3
<1> QED
  BY <1>5, <1>6

(* The projector leaves the journal alone, or it is the machine that fails. *)
LEMMA ProjectorRunsJournal == Spec => JournalSpec
<1>1. Init => JournalInit
  BY DEF Init
<1>2. [Next]_vars => [JournalNext]_journal
  BY DEF Next, vars, JournalNext, journal, Start, Reads, Seek, CannotOpen, Deliver, FindEnd,
         Advance, Rescan, Insert, Commit, Linger, Stop, Refused, Die, Blackout
<1> QED
  BY <1>1, <1>2, PTL DEF Spec, JournalSpec

(* Stopping forgets the batch and keeps the rows and the cursor.            *)
LEMMA ExitKeeps ==
  ASSUME JournalInv, ProjectorInv, Exit, UNCHANGED <<journal, table, cursor>>,
         starts' \in Nat, refusals' \in Nat
  PROVE  ProjectorInv'
<1>1. Logged' = Logged /\ cursor \in Nat
  BY DEF journal, Logged, ProjectorInv, TypeOK
<1>2. TypeOK'
  BY ClosedIs DEF ProjectorInv, TypeOK, JournalTypeOK, Exit, journal
<1>3. Placed'
  <2>1. tail'.list <= Len(files')
    BY ClosedIs DEF Exit, ProjectorInv, TypeOK, JournalTypeOK, journal
  <2> QED
    BY <2>1, ClosedIs DEF Placed, At, Exit
<1>4. losses' = 0 => Projected'
  <2>1. SUFFICES ASSUME losses = 0 PROVE Projected'
    BY DEF journal
  <2>2. Projected
    BY <2>1 DEF ProjectorInv
  <2>3. Consecutive'
    BY <1>1, ClosedIs DEF Consecutive, Exit
  <2> QED
    BY <1>1, <2>2, <2>3, ClosedIs DEF Projected, At, Exit
<1> QED
  BY <1>2, <1>3, <1>4 DEF ProjectorInv

(* Moving the tailer only, to anywhere but the start of a file.             *)
LEMMA MoveKeeps ==
  ASSUME JournalInv, ProjectorInv,
         UNCHANGED <<journal, batch, table, cursor, starts>>, refusals' \in Nat,
         tail' \in Tails, losses = 0 => tail'.next = tail.next,
         tail'.list <= Len(files),
         tail'.pc \notin {"closed", "seek", "commit"},
         tail'.pc = "insert" => batch # <<>>
  PROVE  ProjectorInv'
<1>1. Logged' = Logged
  BY DEF journal, Logged
<1>2. TypeOK'
  BY DEF ProjectorInv, TypeOK, JournalTypeOK, journal
<1>3. Placed'
  BY DEF Placed, At, journal
<1>4. losses' = 0 => Projected'
  BY <1>1 DEF ProjectorInv, Projected, Consecutive, At, journal
<1> QED
  BY <1>2, <1>3, <1>4 DEF ProjectorInv

(* The writer acts: the log grows behind every sequence the projector has.  *)
LEMMA WriterKeeps ==
  ASSUME JournalInv, JournalInv', ProjectorInv, WriterNext, UNCHANGED projector
  PROVE  ProjectorInv'
<1>1. files \in Seq(Files) /\ tail \in Tails /\ cursor \in Nat /\ LogIsGapFree
  BY DEF JournalInv, JournalTypeOK, ProjectorInv, TypeOK
<1>2. TypeOK'
  BY DEF ProjectorInv, TypeOK, JournalInv, projector
<1>3. /\ Len(files) <= Len(files') /\ files' \in Seq(Files)
      /\ \A i \in DOMAIN files : i \in DOMAIN files' /\ files'[i].base = files[i].base
  BY FilesStay
<1>4. /\ tail' = tail /\ batch' = batch /\ table' = table /\ cursor' = cursor
  BY DEF projector
<1>5. PICK m, n \in Nat : m = Len(files) /\ n = Len(files') /\ m <= n /\ DOMAIN files = 1..m
  BY <1>1, <1>3
<1>6. Placed'
  BY <1>1, <1>4, <1>5, TailIs DEF ProjectorInv, Placed, At
<1>7. losses' = 0 => Projected'
  <2>1. SUFFICES ASSUME losses = 0 PROVE Projected'
    BY DEF WriterNext, Claim, AppendRecord, WriteRecords, WriteCutShort, SyncRecords,
           SyncFails, CreateSegment, WriteHeader, Kill
  <2>2. Projected
    BY <2>1 DEF ProjectorInv
  <2>3. /\ Logged \subseteq Logged'
        /\ \A r \in Logged' : r \in Logged \/ (CanWrite /\ r \in Elements(writer.buffer))
    BY LoggedGrows
  <2>4. ASSUME NEW r \in Logged', r.seq <= cursor PROVE r \in table
    <3>1. CASE r \in Logged
      BY <2>2, <2>4, <3>1 DEF Projected
    <3>2. CASE CanWrite /\ r \in Elements(writer.buffer)
      <4>1. /\ r \in Records
            /\ \A s \in Logged : s.seq \in Nat /\ s.seq < r.seq
        BY <3>2, BufferAfterLog
      <4>2. r.seq \in Nat /\ r.seq # 0
        BY <4>1 DEF Records
      <4>3. cursor < r.seq
        <5>1. CASE cursor = 0
          BY <4>2, <5>1
        <5>2. CASE \E s \in Logged : s.seq = cursor
          BY <4>1, <5>2
        <5> QED
          BY <2>2, <5>1, <5>2 DEF Projected
      <4> QED
        BY <1>1, <2>4, <4>2, <4>3
    <3> QED
      BY <2>3, <2>4, <3>1, <3>2
  <2>5. Consecutive'
    BY <1>4, <2>2, <2>3 DEF Projected, Consecutive
  <2>6. At("seek")' => files'[tail'.index].base <= tail'.next
    <3>1. SUFFICES ASSUME At("seek") PROVE files'[tail.index].base <= tail.next
      BY <1>4 DEF At
    <3>2. tail.index \in 1..m
      BY <1>1, <1>5, <3>1, TailIs DEF ProjectorInv, Placed
    <3>3. files'[tail.index].base = files[tail.index].base
      BY <1>3, <1>5, <3>2
    <3> QED
      BY <2>2, <3>1, <3>3 DEF Projected
  <2>7. table' \subseteq Logged' /\ (cursor' = 0 \/ \E r \in Logged' : r.seq = cursor')
    BY <1>4, <2>2, <2>3 DEF Projected
  <2>8. At("commit")' => Elements(batch') \subseteq table'
    BY <1>4, <2>2 DEF Projected, At
  <2>9. \A r \in Logged' : r.seq <= cursor' => r \in table'
    BY <1>4, <2>4
  <2> QED
    BY <2>5, <2>6, <2>7, <2>8, <2>9 DEF Projected
<1> QED
  BY <1>2, <1>6, <1>7 DEF ProjectorInv

(* The tailer is opened on the last file that begins at or below what is    *)
(* wanted; there is one, as the first file begins at 1.                     *)
LEMMA StartKeeps ==
  ASSUME JournalInv, ProjectorInv, Start
  PROVE  ProjectorInv'
<1> DEFINE below == {i \in DOMAIN files : files[i].base <= Wanted}
           chosen == CHOOSE i \in below : \A j \in below : j <= i
           index == IF below = {} THEN 1 ELSE chosen
           pc == IF files = <<>> THEN "poll" ELSE "seek"
<1>1. files \in Seq(Files) /\ cursor \in Nat /\ LogIsGapFree /\ starts \in Nat
      /\ JournalTypeOK
  BY DEF JournalInv, JournalTypeOK, ProjectorInv, TypeOK
<1>2. PICK n \in Nat : n = Len(files) /\ DOMAIN files = 1..n
  BY <1>1
<1>3. PICK w : w = cursor + 1
  OBVIOUS
<1>4. w \in Nat /\ w # 0 /\ w = Wanted
  BY <1>1, <1>3 DEF Wanted
<1>5. tail' = [Closed EXCEPT !.pc = pc, !.list = n, !.next = w, !.index = index]
  BY <1>2, <1>4 DEF Start
<1>6. ASSUME files # <<>>
      PROVE  index \in 1..n /\ files[index].base <= w
  <2>1. 1 \in 1..n /\ files[1].base = 1
    BY <1>1, <1>2, <1>6 DEF LogIsGapFree
  <2>2. 1 <= w
    BY <1>4
  <2>3. 1 \in below
    BY <1>2, <1>4, <2>1, <2>2
  <2>4. below \subseteq 1..n
    BY <1>2
  <2>5. \A i \in below : files[i].base <= w
    BY <1>4
  <2> HIDE DEF below
  <2>6. \E x \in below : \A y \in below : y <= x
    BY <2>3, <2>4, GreatestNat
  <2>7. chosen \in below
    BY <2>6
  <2>8. index = chosen
    BY <2>3
  <2> HIDE DEF index, chosen
  <2> QED
    BY <2>4, <2>5, <2>7, <2>8
<1>7. index \in Nat \ {0}
  <2>1. CASE files = <<>>
    <3>1. below = {}
      BY <2>1
    <3> HIDE DEF below
    <3> QED
      BY <3>1
  <2>2. CASE files # <<>>
    <3> HIDE DEF index
    <3> QED
      BY <1>6, <2>2
  <2> QED
    BY <2>1, <2>2
<1>8. pc \in {"poll", "seek"} /\ (pc = "seek" => files # <<>>)
  OBVIOUS
<1> HIDE DEF index, pc
<1>9. /\ tail' \in Tails /\ tail'.pc = pc /\ tail'.list = n /\ tail'.next = w
      /\ tail'.index = index
  BY <1>2, <1>4, <1>5, <1>7, <1>8 DEF Closed, Tails, TailStates
<1>10. /\ UNCHANGED <<files, losses, writer, durable, claims, failures, batch, table, cursor, refusals>>
       /\ starts' = starts + 1 /\ At("closed") /\ batch = <<>>
  BY DEF Start, journal, ProjectorInv, Placed
<1>11. TypeOK'
  BY <1>1, <1>9, <1>10 DEF ProjectorInv, TypeOK, JournalTypeOK
<1>12. Placed'
  <2>1. tail'.list <= Len(files')
    BY <1>2, <1>9, <1>10
  <2>2. tail'.pc = "seek" => tail'.index <= Len(files')
    BY <1>2, <1>6, <1>8, <1>9, <1>10
  <2> QED
    BY <1>8, <1>9, <2>1, <2>2 DEF Placed, At
<1>13. losses' = 0 => Projected'
  <2>1. SUFFICES ASSUME losses = 0 PROVE Projected'
    BY <1>10
  <2>2. Projected
    BY <2>1 DEF ProjectorInv
  <2>3. Logged' = Logged
    BY <1>10 DEF Logged
  <2>4. tail'.next - Len(batch') <= cursor' + 1
    BY <1>1, <1>3, <1>9, <1>10
  <2>5. Consecutive'
    BY <1>10, <2>4, ClosedIs DEF Consecutive
  <2>6. tail'.pc = "seek" => files'[tail'.index].base <= tail'.next
    BY <1>6, <1>8, <1>9, <1>10
  <2> QED
    BY <1>8, <1>9, <1>10, <2>2, <2>3, <2>5, <2>6 DEF Projected, At
<1> QED
  BY <1>11, <1>12, <1>13 DEF ProjectorInv

(* The walk to the start ends at the record that is wanted, never past it:  *)
(* the file begins at or below it and its sequences count up by one.        *)
LEMMA SeekKeeps ==
  ASSUME JournalInv, ProjectorInv, Seek
  PROVE  ProjectorInv'
<1> DEFINE frames == files[tail.index].frames
           wanted == {i \in DOMAIN frames : frames[i].seq >= tail.next}
           first  == CHOOSE i \in wanted : \A j \in wanted : i <= j
<1>1. /\ files \in Seq(Files) /\ tail \in Tails /\ LogIsGapFree
      /\ starts \in Nat /\ refusals \in Nat /\ At("seek")
      /\ UNCHANGED <<journal, table, cursor, starts, refusals>>
  BY DEF JournalInv, JournalTypeOK, ProjectorInv, TypeOK, Seek
<1>2. /\ tail.index \in DOMAIN files /\ files[tail.index] \in Files
      /\ tail.list <= Len(files)
  BY <1>1, TailIs DEF ProjectorInv, Placed
<1>3. PICK b \in Nat : b = files[tail.index].base
  BY <1>2, FileIs
<1>4. PICK l \in Nat : l = Len(frames) /\ DOMAIN frames = 1..l
  <2>1. frames \in Seq(Records) /\ Len(frames) \in Nat
    BY <1>2, FileIs
  <2>2. DOMAIN frames = 1..Len(frames)
    BY <2>1
  <2> QED
    BY <2>1, <2>2, Zenon
<1>5. \A i \in 1..l : frames[i].seq = b + i - 1 /\ frames[i] \in Records
  <2>1. ASSUME NEW i \in 1..l PROVE frames[i].seq = b + i - 1
    BY <1>1, <1>2, <1>3, <1>4 DEF LogIsGapFree
  <2>2. frames \in Seq(Records)
    BY <1>2, FileIs
  <2>3. ASSUME NEW i \in 1..l PROVE frames[i] \in Records
    BY <1>4, <2>2
  <2> QED
    BY <2>1, <2>3
<1>6. CASE ~Opens
  BY <1>1, <1>6, ExitKeeps DEF Seek
<1>7. CASE Opens /\ wanted = {}
  <2>1. tail' = [tail EXCEPT !.pc = "poll", !.offset = l] /\ UNCHANGED batch
    BY <1>4, <1>7 DEF Seek
  <2>2. /\ tail' \in Tails /\ tail'.pc = "poll" /\ tail'.next = tail.next
        /\ tail'.list = tail.list
    BY <1>1, <1>4, <2>1 DEF Tails, TailStates
  <2> QED
    BY <1>1, <1>2, <2>1, <2>2, MoveKeeps
<1>8. CASE Opens /\ wanted # {}
  <2>1. wanted \subseteq 1..l /\ \A i \in wanted : frames[i].seq >= tail.next
    BY <1>4
  <2>2. PICK k : k = first
    OBVIOUS
  <2>3. k \in wanted /\ \A j \in wanted : k <= j
    <3>1. wanted \subseteq Nat
      BY <2>1
    <3> HIDE DEF wanted
    <3>2. \E i \in wanted : \A j \in wanted : i <= j
      BY <1>8, <3>1, LeastNat
    <3> QED
      BY <2>2, <3>2
  <2>4. k \in 1..l /\ frames[k].seq >= tail.next
    BY <2>1, <2>3
  <2>5. PICK s : s = frames[k].seq
    OBVIOUS
  <2>6. /\ tail' = [tail EXCEPT !.pc = "poll", !.offset = k - 1, !.next = s]
        /\ UNCHANGED batch
    BY <1>8, <2>2, <2>5 DEF Seek
  <2>7. /\ s \in Nat /\ s # 0 /\ s = b + k - 1 /\ s >= tail.next
        /\ tail.next \in Nat /\ k - 1 \in Nat
    <3>1. frames[k] \in Records /\ s = b + k - 1 /\ s >= tail.next
      BY <1>5, <2>4, <2>5
    <3>2. s \in Nat /\ s # 0
      BY <2>5, <3>1 DEF Records
    <3>3. tail.next \in Nat
      BY <1>1, TailIs
    <3>4. k - 1 \in Nat
      BY <2>4
    <3> QED
      BY <3>1, <3>2, <3>3, <3>4
  <2>8. /\ tail' \in Tails /\ tail'.pc = "poll" /\ tail'.next = s /\ tail'.list = tail.list
    BY <1>1, <2>6, <2>7 DEF Tails, TailStates
  <2>9. ASSUME losses = 0 PROVE s = tail.next
    <3>1. b <= tail.next
      BY <1>1, <1>3, <2>9 DEF ProjectorInv, Projected
    <3>2. CASE k = 1
      BY <1>3, <2>7, <3>1, <3>2
    <3>3. CASE k # 1
      <4>1. k - 1 \in 1..l /\ ~(k <= k - 1)
        BY <1>4, <2>4, <3>3
      <4>2. k - 1 \notin wanted
        BY <2>3, <4>1
      <4>3. ~(frames[k - 1].seq >= tail.next)
        BY <1>4, <4>1, <4>2
      <4>4. frames[k - 1].seq = b + (k - 1) - 1
        BY <1>5, <4>1
      <4> QED
        BY <1>3, <2>4, <2>7, <4>3, <4>4
    <3> QED
      BY <3>2, <3>3
  <2> QED
    BY <1>1, <1>2, <2>6, <2>8, <2>9, MoveKeeps
<1> QED
  BY <1>6, <1>7, <1>8

(* Next() hands over the record that is wanted, which the log holds.        *)
LEMMA DeliverKeeps ==
  ASSUME JournalInv, ProjectorInv, Deliver
  PROVE  ProjectorInv'
<1>1. /\ files \in Seq(Files) /\ tail \in Tails /\ batch \in Seq(Records)
      /\ starts \in Nat /\ refusals \in Nat /\ cursor \in Nat /\ JournalTypeOK
      /\ UNCHANGED <<journal, table, cursor, starts, refusals>>
  BY DEF JournalInv, JournalTypeOK, ProjectorInv, TypeOK, Deliver
<1>2. /\ tail.list <= Len(files) /\ tail.index <= tail.list
      /\ tail.offset < Len(files[tail.index].frames)
  BY DEF Deliver, HasFrame, HasFile, ProjectorInv, Placed
<1>3. tail.index \in DOMAIN files /\ files[tail.index] \in Files
  BY <1>1, <1>2, TailIs
<1>4. PICK o \in Nat : o = tail.offset
  BY <1>1, TailIs
<1>5. PICK l \in Nat : l = Len(files[tail.index].frames) /\ DOMAIN files[tail.index].frames = 1..l
  BY <1>3, FileIs
<1>6. o + 1 \in 1..l
  BY <1>2, <1>4, <1>5
<1>7. PICK r : r = files[tail.index].frames[o + 1]
  OBVIOUS
<1>8. r \in Logged /\ r \in Records
  BY <1>1, <1>3, <1>5, <1>6, <1>7, LoggedIs
<1>9. CASE r.seq # tail.next
  <2>1. tail' = [tail EXCEPT !.pc = "gap"] /\ UNCHANGED batch
    BY <1>4, <1>7, <1>9 DEF Deliver
  <2>2. /\ tail' \in Tails /\ tail'.pc = "gap" /\ tail'.next = tail.next
        /\ tail'.list = tail.list
    BY <1>1, <2>1 DEF Tails, TailStates
  <2> QED
    BY <1>1, <1>2, <2>1, <2>2, MoveKeeps
<1>10. CASE r.seq = tail.next
  <2>1. PICK pc : pc = IF Len(batch) + 1 >= BatchSize THEN "insert" ELSE "poll"
    OBVIOUS
  <2>2. pc \in {"insert", "poll"}
    BY <2>1
  <2>3. /\ batch' = Append(batch, r)
        /\ tail' = [tail EXCEPT !.pc = pc, !.offset = o + 1, !.next = @ + 1]
    BY <1>4, <1>7, <1>10, <2>1 DEF Deliver
  <2>4. PICK x \in Nat : x = tail.next
    BY <1>1, TailIs
  <2>5. PICK m \in Nat : m = Len(batch) /\ DOMAIN batch = 1..m
    BY <1>1
  <2>6. /\ tail' \in Tails /\ tail'.pc = pc /\ tail'.next = x + 1 /\ tail'.list = tail.list
    <3>1. PICK y, p : y = x + 1 /\ p = o + 1
      OBVIOUS
    <3>2. y \in Nat \ {0} /\ p \in Nat /\ pc \in TailStates
      BY <2>2, <3>1 DEF TailStates
    <3>3. tail' = [tail EXCEPT !.pc = pc, !.offset = p, !.next = y]
      BY <2>3, <2>4, <3>1
    <3>4. tail' \in Tails /\ tail'.pc = pc /\ tail'.next = y /\ tail'.list = tail.list
      BY <1>1, <3>2, <3>3 DEF Tails
    <3> QED
      BY <3>1, <3>4
  <2>7. /\ batch' \in Seq(Records) /\ Len(batch') = m + 1 /\ DOMAIN batch' = 1..(m + 1)
        /\ batch' # <<>> /\ batch'[m + 1] = r /\ \A i \in 1..m : batch'[i] = batch[i]
    BY <1>1, <1>8, <2>3, <2>5
  <2>8. TypeOK'
    BY <1>1, <2>6, <2>7 DEF ProjectorInv, TypeOK, JournalTypeOK, journal
  <2>9. Placed'
    <3>1. files' = files
      BY <1>1 DEF journal
    <3>2. tail'.list <= Len(files')
      BY <1>2, <2>6, <3>1
    <3> QED
      BY <2>2, <2>6, <2>7, <3>2 DEF Placed, At
  <2>10. losses' = 0 => Projected'
    <3>1. SUFFICES ASSUME losses = 0 PROVE Projected'
      BY <1>1 DEF journal
    <3>2. Projected
      BY <3>1 DEF ProjectorInv
    <3>3. Logged' = Logged /\ cursor' = cursor /\ table' = table
      BY <1>1 DEF Logged, journal
    <3>4. \A i \in 1..(m + 1) : i \in 1..m \/ i = m + 1
      OBVIOUS
    <3>5. Elements(batch') \subseteq Logged'
      BY <1>8, <2>5, <2>7, <3>2, <3>3, <3>4 DEF Elements, Projected, Consecutive
    <3>6. ASSUME NEW i \in 1..(m + 1)
          PROVE  batch'[i].seq = ((x + 1) - (m + 1)) + i - 1
      <4>1. CASE i \in 1..m
        <5>1. batch[i].seq = (x - m) + i - 1
          BY <2>4, <2>5, <3>2, <4>1 DEF Projected, Consecutive
        <5>2. batch'[i].seq = (x - m) + i - 1
          BY <2>7, <4>1, <5>1
        <5> QED
          BY <5>2
      <4>2. CASE i = m + 1
        <5>1. batch'[i].seq = x
          BY <1>10, <2>4, <2>7, <4>2
        <5>2. ((x + 1) - (m + 1)) + (m + 1) - 1 = x
          OBVIOUS
        <5> QED
          BY <4>2, <5>1, <5>2
      <4> QED
        BY <3>4, <4>1, <4>2
    <3>7. (x + 1) - (m + 1) <= cursor + 1
      <4>1. x - m <= cursor + 1
        BY <2>4, <2>5, <3>2 DEF Projected, Consecutive
      <4> QED
        BY <1>1, <4>1
    <3>8. Consecutive'
      BY <2>6, <2>7, <3>3, <3>5, <3>6, <3>7 DEF Consecutive
    <3>9. ~At("seek")' /\ ~At("commit")'
      BY <2>2, <2>6 DEF At
    <3> QED
      BY <3>2, <3>3, <3>8, <3>9 DEF Projected
  <2> QED
    BY <2>8, <2>9, <2>10 DEF ProjectorInv
<1> QED
  BY <1>9, <1>10

(* A row that is left out was there already: it is the same record.         *)
LEMMA InsertKeeps ==
  ASSUME JournalInv, ProjectorInv, Insert
  PROVE  ProjectorInv'
<1>1. /\ files \in Seq(Files) /\ tail \in Tails /\ batch \in Seq(Records)
      /\ table \subseteq Records /\ LogIsGapFree /\ JournalTypeOK
      /\ UNCHANGED <<journal, batch, cursor, starts, refusals>>
      /\ At("insert") /\ Placed
  BY DEF JournalInv, JournalTypeOK, ProjectorInv, TypeOK, Insert
<1>2. /\ tail' \in Tails /\ tail'.pc = "commit" /\ tail'.next = tail.next
      /\ tail'.list = tail.list
  BY <1>1 DEF Insert, Tails, TailStates
<1>3. table' = table \cup {r \in Elements(batch) : \A t \in table : t.seq # r.seq}
  BY DEF Insert
<1>4. Elements(batch) \subseteq Records
  BY <1>1 DEF Elements
<1>5. TypeOK'
  BY <1>1, <1>2, <1>3, <1>4 DEF ProjectorInv, TypeOK, JournalTypeOK, journal
<1>6. Placed'
  BY <1>1, <1>2 DEF Placed, At, journal
<1>7. losses' = 0 => Projected'
  <2>1. SUFFICES ASSUME losses = 0 PROVE Projected'
    BY <1>1 DEF journal
  <2>2. Projected
    BY <2>1 DEF ProjectorInv
  <2>3. Logged' = Logged /\ cursor' = cursor /\ batch' = batch
    BY <1>1 DEF Logged, journal
  <2>4. table \subseteq Logged /\ Elements(batch) \subseteq Logged
    BY <2>2 DEF Projected, Consecutive
  <2>5. ASSUME NEW r \in Elements(batch) PROVE r \in table'
    <3>1. CASE \A t \in table : t.seq # r.seq
      BY <1>3, <3>1
    <3>2. ASSUME NEW t \in table, t.seq = r.seq PROVE r \in table'
      <4>1. t = r
        BY <1>1, <2>4, <2>5, <3>2, SequencesAreUnique
      <4> QED
        BY <1>3, <3>2, <4>1
    <3> QED
      BY <3>1, <3>2
  <2>6. table' \subseteq Logged'
    BY <1>3, <2>3, <2>4
  <2>7. Consecutive'
    BY <1>2, <2>2, <2>3 DEF Projected, Consecutive
  <2>8. \A r \in Logged' : r.seq <= cursor' => r \in table'
    BY <1>3, <2>2, <2>3 DEF Projected
  <2>9. cursor' = 0 \/ \E r \in Logged' : r.seq = cursor'
    BY <2>2, <2>3 DEF Projected
  <2>10. ~At("seek")' /\ Elements(batch') \subseteq table'
    BY <1>2, <2>3, <2>5 DEF At
  <2> QED
    BY <2>6, <2>7, <2>8, <2>9, <2>10 DEF Projected
<1> QED
  BY <1>5, <1>6, <1>7 DEF ProjectorInv

(* The cursor moves over the rows that were sent: every record between the  *)
(* old cursor and the new is one of the batch.                              *)
LEMMA CommitKeeps ==
  ASSUME JournalInv, ProjectorInv, Commit
  PROVE  ProjectorInv'
<1>1. /\ files \in Seq(Files) /\ tail \in Tails /\ batch \in Seq(Records)
      /\ cursor \in Nat /\ LogIsGapFree /\ JournalTypeOK
      /\ UNCHANGED <<journal, table, starts, refusals>>
      /\ At("commit") /\ Placed /\ batch' = <<>>
  BY DEF JournalInv, JournalTypeOK, ProjectorInv, TypeOK, Commit
<1>2. batch # <<>>
  BY <1>1 DEF Placed
<1>3. PICK m \in Nat : m = Len(batch) /\ DOMAIN batch = 1..m /\ m # 0
  BY <1>1, <1>2
<1>4. PICK x \in Nat : x = tail.next
  BY <1>1, TailIs
<1>5. PICK e : e = batch[m]
  OBVIOUS
<1>6. m \in 1..m /\ e \in Records /\ e.seq \in Nat
  <2>1. m \in 1..m
    BY <1>3
  <2>2. e \in Records
    BY <1>1, <1>3, <1>5, <2>1
  <2> QED
    BY <2>1, <2>2 DEF Records
<1>7. cursor' = IF e.seq < cursor THEN cursor ELSE e.seq
  BY <1>3, <1>5 DEF Commit
<1>8. /\ tail' \in Tails /\ tail'.pc \in {"poll", "closed"}
      /\ tail'.list = tail.list \/ tail'.list = 0
      /\ tail'.next = x \/ tail'.next = 1
  <2>1. CASE tail.leaving
    BY <2>1, ClosedIs DEF Commit
  <2>2. CASE ~tail.leaving
    BY <1>1, <1>4, <2>2 DEF Commit, Tails, TailStates
  <2> QED
    BY <2>1, <2>2
<1>9. cursor' \in Nat
  BY <1>1, <1>6, <1>7
<1>10. TypeOK'
  BY <1>1, <1>8, <1>9, ClosedIs DEF ProjectorInv, TypeOK, JournalTypeOK, journal
<1>11. Placed'
  <2>1. files' = files /\ Len(files) \in Nat
    BY <1>1 DEF journal
  <2>2. tail'.list <= Len(files')
    BY <1>1, <1>8, <2>1 DEF Placed
  <2> QED
    BY <1>1, <1>8, <2>2 DEF Placed, At
<1>12. losses' = 0 => Projected'
  <2>1. SUFFICES ASSUME losses = 0 PROVE Projected'
    BY <1>1 DEF journal
  <2>2. Projected
    BY <2>1 DEF ProjectorInv
  <2>3. Logged' = Logged /\ table' = table
    BY <1>1 DEF Logged, journal
  <2>4. /\ \A i \in 1..m : batch[i].seq = (x - m) + i - 1
        /\ x - m <= cursor + 1
    BY <1>3, <1>4, <2>2 DEF Projected, Consecutive
  <2>5. \A i \in 1..m : batch[i] \in table /\ batch[i] \in Logged
    BY <1>1, <1>3, <2>2 DEF Projected, Consecutive, Elements
  <2>6. e.seq = (x - m) + m - 1
    BY <1>5, <1>6, <2>4
  <2>7. e.seq = x - 1
    BY <2>6
  <2>8. ASSUME NEW r \in Logged', r.seq <= cursor' PROVE r \in table'
    <3>1. r \in Logged /\ r.seq \in Nat
      BY <1>1, <2>3, <2>8, LoggedBelow
    <3>2. CASE r.seq <= cursor
      BY <2>2, <2>3, <3>1, <3>2 DEF Projected
    <3>3. CASE cursor < r.seq
      <4>1. r.seq <= x - 1
        BY <1>1, <1>7, <2>7, <2>8, <3>1, <3>3
      <4>2. PICK i : i = r.seq - (x - m) + 1
        OBVIOUS
      <4>3. i \in 1..m /\ (x - m) + i - 1 = r.seq
        BY <1>1, <2>4, <3>1, <3>3, <4>1, <4>2
      <4>4. batch[i].seq = r.seq /\ batch[i] \in Logged /\ batch[i] \in table
        BY <2>4, <2>5, <4>3
      <4>5. batch[i] = r
        BY <1>1, <3>1, <4>4, SequencesAreUnique
      <4> QED
        BY <2>3, <4>4, <4>5
    <3> QED
      BY <1>1, <3>1, <3>2, <3>3
  <2>9. cursor' = 0 \/ \E r \in Logged' : r.seq = cursor'
    <3>1. CASE cursor' = cursor
      BY <2>2, <2>3, <3>1 DEF Projected
    <3>2. CASE cursor' = e.seq
      BY <1>5, <1>6, <2>3, <2>5, <3>2
    <3> QED
      BY <1>7, <3>1, <3>2
  <2>10. Consecutive'
    <3>1. tail'.next - 0 <= cursor' + 1
      <4>1. cursor' >= x - 1
        BY <1>1, <1>6, <1>7, <2>7
      <4> QED
        BY <1>8, <1>9, <4>1
    <3> QED
      BY <1>1, <3>1, ClosedIs DEF Consecutive
  <2>11. ~At("seek")' /\ ~At("commit")'
    BY <1>8 DEF At
  <2>12. table' \subseteq Logged'
    BY <2>2, <2>3 DEF Projected
  <2> QED
    BY <2>8, <2>9, <2>10, <2>11, <2>12 DEF Projected
<1> QED
  BY <1>10, <1>11, <1>12 DEF ProjectorInv

(* The steps that only move the tailer.                                     *)
LEMMA MovesKeep ==
  ASSUME JournalInv, ProjectorInv, FindEnd \/ Advance \/ Rescan \/ Linger \/ Stop \/ Refused
  PROVE  ProjectorInv'
<1>1. /\ files \in Seq(Files) /\ tail \in Tails /\ Len(files) \in Nat
      /\ starts \in Nat /\ refusals \in Nat
      /\ UNCHANGED <<journal, table, cursor, starts>>
      /\ tail.list <= Len(files) /\ Placed
  BY DEF JournalInv, JournalTypeOK, ProjectorInv, TypeOK, Placed, FindEnd, Advance, Rescan,
         Linger, Stop, Refused
<1>2. CASE FindEnd
  <2>1. /\ tail' \in Tails /\ tail'.pc = "end" /\ tail'.next = tail.next
        /\ tail'.list = tail.list /\ UNCHANGED <<batch, refusals>>
    BY <1>1, <1>2 DEF FindEnd, Tails, TailStates
  <2> QED
    BY <1>1, <2>1, MoveKeeps
<1>3. ASSUME NEW n \in Nat, MoveOn(n)
      PROVE  /\ tail' \in Tails /\ tail'.pc = "poll" /\ tail'.next = tail.next
             /\ tail'.list = n
  <2>1. PICK i \in Nat : i = tail.index
    BY <1>1, TailIs
  <2>2. tail' = [tail EXCEPT !.pc = "poll", !.list = n, !.index = i + 1, !.offset = 0]
        /\ i + 1 \in Nat \ {0}
    BY <1>3, <2>1 DEF MoveOn
  <2> QED
    BY <1>1, <2>2 DEF Tails, TailStates
<1>4. CASE Advance
  <2>1. MoveOn(tail.list) /\ tail.list \in Nat /\ UNCHANGED <<batch, refusals>>
    BY <1>1, <1>4, TailIs DEF Advance
  <2> QED
    BY <1>1, <1>3, <2>1, MoveKeeps
<1>5. Len(files) <= Len(files)
  BY <1>1
<1>6. CASE Rescan
  <2>1. CASE Grew
    <3>1. MoveOn(Len(files)) /\ UNCHANGED <<batch, refusals>>
      BY <1>6, <2>1 DEF Rescan
    <3> QED
      BY <1>1, <1>3, <1>5, <3>1, MoveKeeps
  <2>2. CASE ~Grew
    <3>1. /\ tail' \in Tails /\ tail'.pc = "poll" /\ tail'.next = tail.next
          /\ tail'.list = Len(files) /\ UNCHANGED <<batch, refusals>>
      BY <1>1, <1>6, <2>2 DEF Rescan, Tails, TailStates
    <3> QED
      BY <1>1, <1>5, <3>1, MoveKeeps
  <2> QED
    BY <2>1, <2>2
<1>7. CASE Linger
  <2>1. /\ tail' \in Tails /\ tail'.pc = "insert" /\ tail'.next = tail.next
        /\ tail'.list = Len(files) /\ UNCHANGED <<batch, refusals>> /\ batch # <<>>
    BY <1>1, <1>7 DEF Linger, Tails, TailStates
  <2> QED
    BY <1>1, <1>5, <2>1, MoveKeeps
<1>8. CASE Stop
  <2>1. CASE batch = <<>>
    BY <1>1, <1>8, <2>1, ExitKeeps DEF Stop, Exit
  <2>2. CASE batch # <<>>
    <3>1. /\ tail' \in Tails /\ tail'.pc = "insert" /\ tail'.next = tail.next
          /\ tail'.list = tail.list /\ UNCHANGED <<batch, refusals>>
      BY <1>1, <1>8, <2>2 DEF Stop, Tails, TailStates
    <3> QED
      BY <1>1, <2>2, <3>1, MoveKeeps
  <2> QED
    BY <2>1, <2>2
<1>9. CASE Refused
  <2>1. refusals' \in Nat
    BY <1>1, <1>9 DEF Refused
  <2>2. CASE tail.leaving
    BY <1>1, <1>9, <2>1, <2>2, ExitKeeps DEF Refused
  <2>3. CASE ~tail.leaving
    <3>1. /\ tail' \in Tails /\ tail'.pc = "poll" /\ tail'.next = tail.next
          /\ tail'.list = tail.list /\ UNCHANGED batch
      BY <1>1, <1>9, <2>3 DEF Refused, Tails, TailStates
    <3> QED
      BY <1>1, <2>1, <3>1, MoveKeeps
  <2> QED
    BY <2>2, <2>3
<1> QED
  BY <1>2, <1>4, <1>6, <1>7, <1>8, <1>9
-----------------------------------------------------------------------------
(* The invariant of the journal and its projector holds throughout.         *)
LEMMA ProjectorInduction == Spec => []ProjectorInv
<1>1. Init => ProjectorInv
  <2>1. SUFFICES ASSUME Init PROVE ProjectorInv
    OBVIOUS
  <2>2. Logged = {} /\ JournalTypeOK /\ Len(files) = 0
    BY <2>1, DownIs DEF Init, JournalInit, Logged, JournalTypeOK
  <2>3. TypeOK
    BY <2>1, <2>2, ClosedIs DEF Init, TypeOK
  <2>4. Placed
    BY <2>1, <2>2, ClosedIs DEF Init, Placed, At
  <2>5. Consecutive
    BY <2>1, ClosedIs DEF Init, Consecutive
  <2>6. Projected
    BY <2>1, <2>2, <2>5, ClosedIs DEF Init, Projected, At
  <2> QED
    BY <2>3, <2>4, <2>6 DEF ProjectorInv
<1>2. JournalInv /\ JournalInv' /\ ProjectorInv /\ [Next]_vars => ProjectorInv'
  <2>1. SUFFICES ASSUME JournalInv, JournalInv', ProjectorInv, [Next]_vars PROVE ProjectorInv'
    OBVIOUS
  <2>2. starts \in Nat /\ refusals \in Nat /\ cursor \in Nat /\ losses \in Nat
    BY <2>1 DEF ProjectorInv, TypeOK, JournalTypeOK
  <2>3. CASE WriterNext /\ UNCHANGED projector
    BY <2>1, <2>3, WriterKeeps
  <2>4. CASE Start
    BY <2>1, <2>4, StartKeeps
  <2>5. CASE Seek
    BY <2>1, <2>5, SeekKeeps
  <2>6. CASE CannotOpen
    BY <2>1, <2>2, <2>6, ExitKeeps DEF CannotOpen
  <2>7. CASE Deliver
    BY <2>1, <2>7, DeliverKeeps
  <2>8. CASE FindEnd \/ Advance \/ Rescan \/ Linger \/ Stop \/ Refused
    BY <2>1, <2>8, MovesKeep
  <2>9. CASE Insert
    BY <2>1, <2>9, InsertKeeps
  <2>10. CASE Commit
    BY <2>1, <2>10, CommitKeeps
  <2>11. CASE Die
    BY <2>1, <2>2, <2>11, ExitKeeps DEF Die
  <2>12. CASE Blackout
    <3>1. /\ losses' = losses + 1 /\ tail' = Closed /\ batch' = <<>> /\ cursor' \in 0..cursor
          /\ UNCHANGED <<table, starts, refusals>>
      BY <2>12 DEF Blackout, PowerLoss, Exit
    <3>2. losses' # 0
      BY <2>2, <3>1
    <3>3. cursor' \in Nat
      BY <2>2, <3>1
    <3>4. TypeOK'
      BY <2>1, <3>1, <3>3, ClosedIs DEF JournalInv, ProjectorInv, TypeOK
    <3>5. files' \in Seq(Files) /\ Len(files') \in Nat
      BY <2>1 DEF JournalInv, JournalTypeOK
    <3>6. Placed'
      BY <3>1, <3>5, ClosedIs DEF Placed, At
    <3> QED
      BY <3>2, <3>4, <3>6 DEF ProjectorInv
  <2>13. CASE UNCHANGED vars
    BY <2>1, <2>13 DEF vars, journal, projector, ProjectorInv, TypeOK, JournalTypeOK, Placed, At,
                       Projected, Consecutive, Logged
  <2> QED
    BY <2>1, <2>3, <2>4, <2>5, <2>6, <2>7, <2>8, <2>9, <2>10, <2>11, <2>12, <2>13 DEF Next, Reads
<1>3. Spec => []JournalInv
  BY ProjectorRunsJournal, JournalInduction, PTL
<1> QED
  BY <1>1, <1>2, <1>3, PTL DEF Spec

(* Every variable keeps its type: the tailer never indexes a file or a      *)
(* frame that is not there, though it lists before it reads.                *)
THEOREM ProjectorIsTyped == Spec => []TypeOK
<1>1. ProjectorInv => TypeOK
  BY DEF ProjectorInv
<1> QED
  BY <1>1, ProjectorInduction, PTL

(* However the writer, the tailer, refused batches, deaths and restarts     *)
(* interleave, while power stays on the table holds records of the log      *)
(* only, and each of them up to the cursor.                                 *)
THEOREM TableIsPrefix == Spec => []ProjectionIsPrefix
<1>1. ProjectorInv => ProjectionIsPrefix
  BY DEF ProjectorInv, Projected, ProjectionIsPrefix
<1> QED
  BY <1>1, ProjectorInduction, PTL

(* What is proved of the journal holds of it beside its projector.          *)
THEOREM JournalBesideProjector ==
  Spec => [](LogIsGapFree /\ DurableSurvives /\ EpochsAreExclusive)
  BY ProjectorRunsJournal, JournalIsGapFree, DurableIsKept, EpochsStayExclusive, PTL
=============================================================================
