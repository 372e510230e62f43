----------------------------- MODULE CopyProof -----------------------------
(***************************************************************************)
(* Proofs about CopyBidirectional for any buffer, window and streams: the  *)
(* buffer loses, repeats and reorders nothing, and the future never waits  *)
(* without being registered for what it could go on with.                  *)
(***************************************************************************)
EXTENDS CopyBidirectional, TLAPS, SequenceTheorems

-----------------------------------------------------------------------------
(* The inductive invariant.                                                 *)

Transfer == [state : {"running", "shutting", "done"},
             pos : 0 .. BufSize, cap : 0 .. BufSize,
             buf : [1 .. BufSize -> Nat],
             read_done : BOOLEAN, need_flush : BOOLEAN]

\* What the place of the future says of the direction it is at.
PlacedAt(d, c) ==
  /\ \A step \in Steps : at = At(d, step) =>
       c.state = IF step = "shutdown" THEN "shutting" ELSE "running"
  /\ at = At(d, "fill") => c.pos = 0 /\ c.cap = 0 /\ ~ c.read_done
  /\ at = At(d, "flush") => c.pos = c.cap /\ ~ c.read_done
  /\ at = At(d, "topup") => c.pos < c.cap /\ c.cap < BufSize /\ ~ c.read_done
  /\ at = At(d, "lastflush") => c.pos = c.cap /\ c.read_done

Placed ==
  /\ \A d \in Ends : PlacedAt(d, copy[d])
  /\ at = Waiting => \E d \in Ends : copy[d].state # "done"

\* A stream shows no more than was written to it and the window takes, and an
\* end takes no more than it was shown.
Streams ==
  \A d \in Ends :
    /\ read[d] <= sent[d]
    /\ taken[d] <= visible[d]
    /\ visible[d] <= Len(out[d])
    /\ visible[d] <= taken[d] + Window

\* NothingLost, byte by byte: r bytes are read, o is written, and pos and cap
\* bound what is left in buf.
CarriedBy(pos, cap, buf, o, r) ==
  /\ Len(o) + (cap - pos) = r
  /\ \A i \in 1 .. Len(o) : o[i] = i
  /\ \A i \in pos + 1 .. cap : buf[i] = Len(o) + (i - pos)

Carried ==
  \A d \in Ends :
    CarriedBy(copy[d].pos, copy[d].cap, copy[d].buf, out[d], read[d])

Places == [dir : Ends, step : Steps] \cup {Waiting, Returned, Failed}

Events == {Readable(e) : e \in Ends} \cup {Writable(e) : e \in Ends} \cup {Signal}

\* The invariant in three parts: what the ends, the signal and the waker hold,
\* the streams with the copies, and the place of the future.
WorldOK ==
  /\ sent \in [Ends -> Nat]
  /\ conn \in [Ends -> {"open", "eof", "reset"}]
  /\ finish \in BOOLEAN
  /\ waits \subseteq Events
  /\ woken \in BOOLEAN

DataOK ==
  /\ read \in [Ends -> Nat]
  /\ out \in [Ends -> Seq(Nat)]
  /\ visible \in [Ends -> Nat]
  /\ taken \in [Ends -> Nat]
  /\ closed \in [Ends -> BOOLEAN]
  /\ copy \in [Ends -> Transfer]
  /\ \A d \in Ends : copy[d].pos <= copy[d].cap
  /\ Streams
  /\ Carried

PlaceOK == at \in Places /\ Placed

CopyInv == WorldOK /\ DataOK /\ PlaceOK

\* Inside a direction: what was registered on the way to this step.
OnTheWay(d) ==
  /\ \A step \in {"fill", "flush", "write", "topup", "lastflush"} :
       at = At(d, step) => ~ finish /\ Signal \in waits
  /\ at = At(d, "flush") => ReadBlocked(d)
  /\ at = At(d, "topup") => WriteBlocked(d)

Registered ==
  ~ woken =>
    /\ \A d \in Ends : OnTheWay(d)
    /\ at = Waiting \/ (\E step \in Steps : at = At("b", step)) => Settled("a")
    /\ at = Waiting => Settled("b")

-----------------------------------------------------------------------------
(* Places and ends.                                                         *)

LEMMA AtEqual ==
  \A d, e, s, t : At(d, s) = At(e, t) <=> d = e /\ s = t
BY DEF At

LEMMA AtIsPlace ==
  \A d \in Ends, s \in Steps : At(d, s) \in Places
BY DEF At, Places

LEMMA OtherEnd ==
  \A d \in Ends : Other(d) \in Ends /\ Other(d) # d /\ Other(Other(d)) = d
BY DEF Other, Ends

\* Where poll goes on: at a direction that is not done, or out of the future.
LEMMA LeavePlaces ==
  ASSUME NEW c \in [Ends -> Transfer], NEW d \in Ends
  PROVE  \/ /\ c["b"].state # "done"
            /\ Leave(d, c) = Entry("b", c)
         \/ /\ \A e \in Ends : c[e].state = "done"
            /\ Leave(d, c) = Returned
         \/ /\ \E e \in Ends : c[e].state # "done"
            /\ Leave(d, c) = Waiting
BY DEF Leave, Ends

LEMMA EntryPlace ==
  ASSUME NEW c \in [Ends -> Transfer], NEW d \in Ends, c[d].state # "done"
  PROVE  \/ /\ c[d].state = "running"
            /\ Entry(d, c) = At(d, "finish")
         \/ /\ c[d].state = "shutting"
            /\ Entry(d, c) = At(d, "shutdown")
BY DEF Entry, Transfer

\* A place that says nothing of a buffer.
LEMMA EntryKeepsPlaced ==
  ASSUME NEW d \in Ends, copy' \in [Ends -> Transfer], copy'[d].state # "done",
         at' = Entry(d, copy')
  PROVE  PlaceOK'
<1>1. CASE copy'[d].state = "running" /\ at' = At(d, "finish")
  BY <1>1, AtEqual, AtIsPlace DEF PlaceOK, Placed, PlacedAt, Steps, Waiting
<1>2. CASE copy'[d].state = "shutting" /\ at' = At(d, "shutdown")
  BY <1>2, AtEqual, AtIsPlace DEF PlaceOK, Placed, PlacedAt, Steps, Waiting
<1>. QED
  BY <1>1, <1>2, EntryPlace

LEMMA LeaveKeepsPlaced ==
  ASSUME NEW d \in Ends, copy' \in [Ends -> Transfer], at' = Leave(d, copy')
  PROVE  PlaceOK'
<1>1. CASE copy'["b"].state # "done" /\ at' = Entry("b", copy')
  BY <1>1, EntryKeepsPlaced DEF Ends
<1>2. CASE at' = Returned
  BY <1>2, AtEqual DEF PlaceOK, Placed, PlacedAt, Steps, Places, Waiting, Returned
<1>3. CASE (\E e \in Ends : copy'[e].state # "done") /\ at' = Waiting
  BY <1>3, AtEqual DEF PlaceOK, Placed, PlacedAt, Steps, Places, Waiting
<1>. QED
  BY <1>1, <1>2, <1>3, LeavePlaces

-----------------------------------------------------------------------------
(* What the invariant says.                                                 *)

LEMMA InvIsTyped ==
  ASSUME CopyInv PROVE TypeOK
BY DEF CopyInv, WorldOK, DataOK, PlaceOK, TypeOK, Places, Events, Transfer

LEMMA NumbersSeq ==
  ASSUME NEW n \in Nat
  PROVE  /\ [i \in 1 .. n |-> i] \in Seq(Nat)
         /\ Len([i \in 1 .. n |-> i]) = n
         /\ \A j \in 1 .. n : [i \in 1 .. n |-> i][j] = j
<1>1. [i \in 1 .. n |-> i] \in [1 .. n -> Nat]
  OBVIOUS
<1>. QED
  BY <1>1

\* The bytes as sequences.
LEMMA CarriedIsNothingLost ==
  ASSUME NEW pos \in Nat, NEW cap \in Nat, pos <= cap,
         NEW buf, \A i \in pos + 1 .. cap : buf[i] \in Nat,
         NEW o \in Seq(Nat), NEW r \in Nat, CarriedBy(pos, cap, buf, o, r)
  PROVE  o \o SubSeq(buf, pos + 1, cap) = [i \in 1 .. r |-> i]
<1>. DEFINE rest == SubSeq(buf, pos + 1, cap)
            n == Len(o)
<1>0. n \in Nat /\ n + (cap - pos) = r
  BY DEF CarriedBy
<1>1. /\ rest \in Seq(Nat)
      /\ Len(rest) = IF pos + 1 <= cap THEN cap - (pos + 1) + 1 ELSE 0
      /\ \A i \in 1 .. cap - (pos + 1) + 1 : rest[i] = buf[(pos + 1) + i - 1]
  <2>. HIDE DEF rest
  <2>1. pos + 1 \in Int /\ cap \in Int
    OBVIOUS
  <2>. QED
    BY <2>1, SubSeqProperties DEF rest
<1>. HIDE DEF rest, n
<1>2. Len(rest) = cap - pos
  BY <1>1
<1>3. /\ o \o rest \in Seq(Nat)
      /\ Len(o \o rest) = n + Len(rest)
      /\ \A i \in 1 .. n + Len(rest) : (o \o rest)[i] = IF i <= n THEN o[i] ELSE rest[i - n]
  BY <1>1, ConcatProperties DEF n
<1>4. ASSUME NEW i \in 1 .. r, i > n PROVE rest[i - n] = i
  <2>. DEFINE k == i - n
              j == (pos + 1) + k - 1
  <2>1. k \in 1 .. cap - (pos + 1) + 1 /\ j \in pos + 1 .. cap
    BY <1>0, <1>4
  <2>2. n + (j - pos) = i
    BY <1>0
  <2>3. rest[k] = buf[j]
    BY <1>1, <2>1
  <2>. HIDE DEF j, k
  <2>4. buf[j] = n + (j - pos)
    BY <2>1 DEF CarriedBy, n
  <2>5. rest[k] = i
    BY <2>2, <2>3, <2>4
  <2>. QED
    BY <2>5 DEF k
<1>5. ASSUME NEW i \in 1 .. r PROVE (o \o rest)[i] = i
  <2>1. i \in 1 .. n + Len(rest) /\ i \in Int
    BY <1>0, <1>2
  <2>2. CASE i <= n
    <3>1. o[i] = i
      BY <2>2 DEF CarriedBy, n
    <3>. QED
      BY <1>3, <2>1, <2>2, <3>1
  <2>3. CASE ~ (i <= n)
    <3>1. rest[i - n] = i
      BY <1>0, <1>4, <2>1, <2>3
    <3>. QED
      BY <1>3, <2>1, <2>3, <3>1
  <2>. QED
    BY <2>2, <2>3
<1>6. Len(o \o rest) = r
  BY <1>0, <1>2, <1>3
<1>. QED
  BY <1>3, <1>5, <1>6, NumbersSeq, SeqEqual DEF rest

\* A copy of a direction, part by part.
LEMMA CopyParts ==
  ASSUME DataOK, NEW d \in Ends
  PROVE  /\ copy[d] \in Transfer
         /\ copy[d].state \in {"running", "shutting", "done"}
         /\ copy[d].pos \in Nat /\ copy[d].cap \in Nat
         /\ copy[d].pos <= copy[d].cap /\ copy[d].cap <= BufSize
         /\ copy[d].buf \in [1 .. BufSize -> Nat]
         /\ copy[d].read_done \in BOOLEAN
         /\ out[d] \in Seq(Nat) /\ Len(out[d]) \in Nat
         /\ read[d] \in Nat /\ visible[d] \in Nat /\ taken[d] \in Nat
         /\ CarriedBy(copy[d].pos, copy[d].cap, copy[d].buf, out[d], read[d])
BY BufSizeAssumption DEF DataOK, Transfer, Carried

LEMMA InvLosesNothing ==
  ASSUME CopyInv PROVE NothingLost
<1>. SUFFICES ASSUME NEW d \in Ends
              PROVE  out[d] \o SubSeq(copy[d].buf, copy[d].pos + 1, copy[d].cap)
                       = [i \in 1 .. read[d] |-> i]
  BY DEF NothingLost
<1>1. DataOK
  BY DEF CopyInv
<1>2. \A i \in copy[d].pos + 1 .. copy[d].cap : copy[d].buf[i] \in Nat
  BY <1>1, CopyParts, BufSizeAssumption
<1>. DEFINE pos == copy[d].pos
            cap == copy[d].cap
            buf == copy[d].buf
<1>3. /\ pos \in Nat /\ cap \in Nat /\ pos <= cap
      /\ out[d] \in Seq(Nat) /\ read[d] \in Nat
      /\ CarriedBy(pos, cap, buf, out[d], read[d])
  BY <1>1, CopyParts
<1>. HIDE DEF pos, cap, buf
<1>4. \A i \in pos + 1 .. cap : buf[i] \in Nat
  BY <1>2 DEF pos, cap, buf
<1>5. out[d] \o SubSeq(buf, pos + 1, cap) = [i \in 1 .. read[d] |-> i]
  BY <1>3, <1>4, CarriedIsNothingLost
<1>. QED
  BY <1>5 DEF pos, cap, buf

\* Reading n bytes behind cap.
LEMMA ReadCarries ==
  ASSUME NEW pos \in Nat, NEW cap \in Nat, pos <= cap, NEW buf, NEW o \in Seq(Nat),
         NEW r \in Nat, CarriedBy(pos, cap, buf, o, r),
         NEW n \in Nat, NEW b,
         \A i \in pos + 1 .. cap + n :
           b[i] = IF i \in cap + 1 .. cap + n THEN r + (i - cap) ELSE buf[i]
  PROVE  CarriedBy(pos, cap + n, b, o, r + n)
<1>1. Len(o) \in Nat /\ Len(o) + (cap - pos) = r
  BY DEF CarriedBy
<1>2. ASSUME NEW i \in pos + 1 .. cap + n PROVE b[i] = Len(o) + (i - pos)
  <2>1. CASE i \in cap + 1 .. cap + n
    BY <1>1, <2>1
  <2>2. CASE i \in pos + 1 .. cap
    BY <1>1, <2>2 DEF CarriedBy
  <2>. QED
    BY <2>1, <2>2
<1>. QED
  BY <1>1, <1>2 DEF CarriedBy

\* Writing n bytes from pos on.
LEMMA WriteCarries ==
  ASSUME NEW size \in Nat, NEW pos \in Nat, NEW cap \in 0 .. size,
         NEW buf \in [1 .. size -> Nat],
         NEW o \in Seq(Nat), NEW r \in Nat, CarriedBy(pos, cap, buf, o, r),
         NEW n \in 1 .. cap - pos
  PROVE  /\ o \o SubSeq(buf, pos + 1, pos + n) \in Seq(Nat)
         /\ Len(o \o SubSeq(buf, pos + 1, pos + n)) = Len(o) + n
         /\ CarriedBy(pos + n, cap, buf, o \o SubSeq(buf, pos + 1, pos + n), r)
<1>. DEFINE new == SubSeq(buf, pos + 1, pos + n)
            m == Len(o)
            o2 == o \o new
<1>0. m \in Nat /\ m + (cap - pos) = r /\ n \in Nat /\ n >= 1
  BY DEF CarriedBy
<1>1. /\ new \in Seq(Nat)
      /\ Len(new) = IF pos + 1 <= pos + n THEN (pos + n) - (pos + 1) + 1 ELSE 0
      /\ \A i \in 1 .. (pos + n) - (pos + 1) + 1 : new[i] = buf[(pos + 1) + i - 1]
  <2>. DEFINE first == pos + 1
              last == pos + n
  <2>1. first \in Int /\ last \in Int /\ \A i \in first .. last : buf[i] \in Nat
    OBVIOUS
  <2>2. new = SubSeq(buf, first, last)
    OBVIOUS
  <2>. HIDE DEF new, first, last
  <2>3. /\ new \in Seq(Nat)
        /\ Len(new) = IF first <= last THEN last - first + 1 ELSE 0
        /\ \A i \in 1 .. last - first + 1 : new[i] = buf[first + i - 1]
    BY <2>1, <2>2, SubSeqProperties
  <2>. QED
    BY <2>3 DEF first, last
<1>. HIDE DEF new, m, o2
<1>2. Len(new) = n
  BY <1>0, <1>1
<1>3. /\ o2 \in Seq(Nat)
      /\ Len(o2) = m + n
      /\ \A i \in 1 .. m + n : o2[i] = IF i <= m THEN o[i] ELSE new[i - m]
  BY <1>1, <1>2, ConcatProperties DEF m, o2
<1>4. ASSUME NEW i \in 1 .. m + n, ~ (i <= m) PROVE new[i - m] = i
  <2>. DEFINE k == i - m
              j == (pos + 1) + k - 1
  <2>1. k \in 1 .. (pos + n) - (pos + 1) + 1 /\ j \in pos + 1 .. cap
    BY <1>0, <1>4
  <2>2. m + (j - pos) = i
    BY <1>0
  <2>3. new[k] = buf[j]
    BY <1>1, <2>1
  <2>. HIDE DEF j, k
  <2>4. buf[j] = m + (j - pos)
    BY <2>1 DEF CarriedBy, m
  <2>5. new[k] = i
    BY <2>2, <2>3, <2>4
  <2>. QED
    BY <2>5 DEF k
<1>5. ASSUME NEW i \in 1 .. m + n PROVE o2[i] = i
  <2>1. CASE i <= m
    <3>1. o[i] = i
      BY <1>0, <2>1 DEF CarriedBy, m
    <3>. QED
      BY <1>3, <2>1, <3>1
  <2>2. CASE ~ (i <= m)
    BY <1>3, <1>4, <2>2
  <2>. QED
    BY <2>1, <2>2
<1>6. ASSUME NEW i \in (pos + n) + 1 .. cap PROVE buf[i] = (m + n) + (i - (pos + n))
  <2>1. buf[i] = m + (i - pos)
    BY <1>0 DEF CarriedBy, m
  <2>. QED
    BY <1>0, <2>1
<1>7. (m + n) + (cap - (pos + n)) = r
  BY <1>0
<1>. QED
  BY <1>3, <1>5, <1>6, <1>7 DEF CarriedBy, o2, new, m

\* Resetting an empty buffer.
LEMMA ResetCarries ==
  ASSUME NEW pos \in Nat, NEW buf, NEW b, NEW o \in Seq(Nat), NEW r \in Nat,
         CarriedBy(pos, pos, buf, o, r)
  PROVE  CarriedBy(0, 0, b, o, r)
BY DEF CarriedBy

-----------------------------------------------------------------------------
(* What the calls on a stream do to the data.                               *)

\* A step of direction d leaves the data of the other alone.
LEMMA DataMoves ==
  ASSUME DataOK, NEW d \in Ends, NEW c \in Transfer, c.pos <= c.cap,
         NEW o \in Seq(Nat), NEW r \in Nat, NEW v \in Nat, NEW b \in BOOLEAN,
         copy' = [copy EXCEPT ![d] = c], out' = [out EXCEPT ![d] = o],
         read' = [read EXCEPT ![d] = r], visible' = [visible EXCEPT ![d] = v],
         closed' = [closed EXCEPT ![d] = b], UNCHANGED <<taken, sent>>,
         r <= sent[d], taken[d] <= v, v <= Len(o), v <= taken[d] + Window,
         CarriedBy(c.pos, c.cap, c.buf, o, r)
  PROVE  DataOK'
<1>1. /\ read' \in [Ends -> Nat] /\ out' \in [Ends -> Seq(Nat)]
      /\ visible' \in [Ends -> Nat] /\ taken' \in [Ends -> Nat]
      /\ closed' \in [Ends -> BOOLEAN] /\ copy' \in [Ends -> Transfer]
  BY DEF DataOK
<1>2. \A e \in Ends :
        /\ copy'[e] = IF e = d THEN c ELSE copy[e]
        /\ out'[e] = IF e = d THEN o ELSE out[e]
        /\ read'[e] = IF e = d THEN r ELSE read[e]
        /\ visible'[e] = IF e = d THEN v ELSE visible[e]
  BY DEF DataOK
<1>3. (\A e \in Ends : copy[e].pos <= copy[e].cap)' /\ Streams'
  BY <1>2 DEF DataOK, Streams
<1>4. Carried'
  BY <1>2 DEF DataOK, Carried
<1>. QED
  BY <1>1, <1>3, <1>4 DEF DataOK

\* Unchanged parts, in the form of DataMoves.
LEMMA Same ==
  ASSUME DataOK, NEW d \in Ends
  PROVE  /\ copy = [copy EXCEPT ![d] = copy[d]] /\ out = [out EXCEPT ![d] = out[d]]
         /\ read = [read EXCEPT ![d] = read[d]]
         /\ visible = [visible EXCEPT ![d] = visible[d]]
         /\ closed = [closed EXCEPT ![d] = closed[d]]
         /\ closed[d] \in BOOLEAN
BY DEF DataOK

\* Nothing but the state and the flags of the copy of d changes.
LEMMA FlagsKeepData ==
  ASSUME DataOK, NEW d \in Ends, NEW c \in Transfer,
         c.pos = copy[d].pos, c.cap = copy[d].cap, c.buf = copy[d].buf,
         copy' = [copy EXCEPT ![d] = c], UNCHANGED <<read, out, visible, taken, sent>>,
         NEW b \in BOOLEAN, closed' = [closed EXCEPT ![d] = b]
  PROVE  DataOK'
<1>1. /\ read[d] <= sent[d] /\ taken[d] <= visible[d] /\ visible[d] <= Len(out[d])
      /\ visible[d] <= taken[d] + Window
  BY DEF DataOK, Streams
<1>. QED
  BY <1>1, CopyParts, Same, DataMoves

LEMMA ReadReadyKeeps ==
  ASSUME WorldOK, DataOK, NEW d \in Ends, ReadReady(d), UNCHANGED sent
  PROVE  /\ DataOK'
         /\ \A e \in Ends : copy'[e].state = copy[e].state
         /\ copy'[d].pos = copy[d].pos
         /\ copy'[d].cap >= copy[d].cap
         /\ read'[d] >= read[d]
         /\ \A e \in Ends \ {d} : copy'[e] = copy[e] /\ read'[e] = read[e]
<1>. DEFINE room == BufSize - copy[d].cap
            more == sent[d] - read[d]
<1>0. /\ sent[d] \in Nat /\ read[d] \in Nat /\ read[d] <= sent[d] /\ BufSize \in Nat
      /\ copy[d].cap \in Nat /\ copy[d].pos \in Nat
      /\ copy[d].pos <= copy[d].cap /\ copy[d].cap <= BufSize
  BY CopyParts, BufSizeAssumption DEF WorldOK, DataOK, Streams
<1>1. PICK n \in 0 .. Least(more, room) :
        /\ copy' = [copy EXCEPT ![d] = Filled(@, read[d], n)]
        /\ read' = [read EXCEPT ![d] = @ + n]
        /\ UNCHANGED <<out, visible, taken, closed>>
  BY DEF ReadReady
<1>2. n \in Nat /\ n <= room /\ n <= more
  BY <1>0 DEF Least
<1>. DEFINE c == Filled(copy[d], read[d], n)
<1>3. /\ c.state = copy[d].state /\ c.pos = copy[d].pos /\ c.cap = copy[d].cap + n
      /\ c.read_done = (n = 0)
      /\ c.buf = [i \in 1 .. BufSize |-> IF i \in copy[d].cap + 1 .. copy[d].cap + n
                                         THEN read[d] + (i - copy[d].cap)
                                         ELSE copy[d].buf[i]]
  BY CopyParts DEF Filled, Transfer
<1>4. c.buf \in [1 .. BufSize -> Nat]
  <2>. DEFINE cap == copy[d].cap
              old == copy[d].buf
  <2>1. \A i \in cap + 1 .. cap + n : read[d] + (i - cap) \in Nat
    BY <1>0, <1>2
  <2>2. \A i \in 1 .. BufSize : old[i] \in Nat
    BY <1>0, CopyParts
  <2>3. c.buf = [i \in 1 .. BufSize |-> IF i \in cap + 1 .. cap + n
                                       THEN read[d] + (i - cap) ELSE old[i]]
    BY <1>3
  <2>. HIDE DEF c, cap, old
  <2>. QED
    BY <2>1, <2>2, <2>3
<1>5. c \in Transfer
  <2>1. copy[d] \in Transfer /\ c.cap \in 0 .. BufSize /\ c.read_done \in BOOLEAN
    BY <1>0, <1>2, <1>3, CopyParts
  <2>. QED
    BY <1>4, <2>1 DEF Filled, Transfer
<1>6. CarriedBy(c.pos, c.cap, c.buf, out[d], read[d] + n)
  <2>. DEFINE pos == copy[d].pos
              cap == copy[d].cap
              buf == copy[d].buf
              new == c.buf
  <2>1. \A i \in pos + 1 .. cap + n :
          new[i] = IF i \in cap + 1 .. cap + n THEN read[d] + (i - cap) ELSE buf[i]
    BY <1>0, <1>2, <1>3
  <2>2. /\ pos \in Nat /\ cap \in Nat /\ pos <= cap /\ out[d] \in Seq(Nat)
        /\ CarriedBy(pos, cap, buf, out[d], read[d])
    BY CopyParts
  <2>. HIDE DEF pos, cap, buf, new
  <2>3. CarriedBy(pos, cap + n, new, out[d], read[d] + n)
    BY <1>0, <1>2, <2>1, <2>2, ReadCarries
  <2>. QED
    BY <1>3, <2>3 DEF pos, cap, new
<1>. HIDE DEF c
<1>7. copy' = [copy EXCEPT ![d] = c] /\ read' = [read EXCEPT ![d] = read[d] + n]
  BY <1>1 DEF c
<1>8. c.pos <= c.cap /\ read[d] + n \in Nat /\ read[d] + n <= sent[d]
  BY <1>0, <1>2, <1>3
<1>9. /\ out' = [out EXCEPT ![d] = out[d]] /\ out[d] \in Seq(Nat)
      /\ visible' = [visible EXCEPT ![d] = visible[d]] /\ visible[d] \in Nat
      /\ closed' = [closed EXCEPT ![d] = closed[d]] /\ closed[d] \in BOOLEAN
      /\ UNCHANGED <<taken, sent>>
      /\ taken[d] <= visible[d] /\ visible[d] <= Len(out[d])
      /\ visible[d] <= taken[d] + Window
  BY <1>1, Same, CopyParts DEF DataOK, Streams
<1>10. DataOK'
  BY <1>5, <1>6, <1>7, <1>8, <1>9, DataMoves
<1>11. \A e \in Ends : /\ copy'[e] = IF e = d THEN c ELSE copy[e]
                       /\ read'[e] = IF e = d THEN read[d] + n ELSE read[e]
  BY <1>7 DEF DataOK
<1>12. copy'[d].cap >= copy[d].cap /\ read'[d] >= read[d]
  BY <1>0, <1>2, <1>3, <1>11
<1>. QED
  BY <1>3, <1>10, <1>11, <1>12

LEMMA WriteReadyKeeps ==
  ASSUME WorldOK, DataOK, NEW d \in Ends, WriteReady(d), UNCHANGED sent
  PROVE  /\ DataOK'
         /\ \A e \in Ends : copy'[e].state = copy[e].state
         /\ copy'[d].read_done = copy[d].read_done
         /\ \A e \in Ends \ {d} :
              copy'[e] = copy[e] /\ out'[e] = out[e] /\ visible'[e] = visible[e]
<1>. DEFINE pos == copy[d].pos
            cap == copy[d].cap
            buf == copy[d].buf
            left == cap - pos
            space == Room(d) - UnderWay(d)
<1>0. /\ pos \in Nat /\ cap \in Nat /\ pos <= cap /\ cap <= BufSize /\ BufSize \in Nat
      /\ buf \in [1 .. BufSize -> Nat]
      /\ out[d] \in Seq(Nat) /\ read[d] \in Nat /\ Len(out[d]) \in Nat
      /\ CarriedBy(pos, cap, buf, out[d], read[d])
  BY CopyParts, BufSizeAssumption
<1>1. /\ visible[d] \in Nat /\ taken[d] \in Nat /\ Window \in Nat /\ Hold[Other(d)] \in Nat
      /\ taken[d] <= visible[d] /\ visible[d] <= Len(out[d]) /\ read[d] <= sent[d]
  BY CopyParts, WindowAssumption, HoldAssumption, OtherEnd DEF DataOK, Streams
<1>2. space \in Int
  <2>1. Room(d) \in Int
    BY <1>1 DEF Room
  <2>2. UnderWay(d) \in Int
    BY <1>0, <1>1 DEF UnderWay
  <2>. HIDE DEF pos, cap, buf
  <2>. QED
    BY <2>1, <2>2
<1>3. PICK n \in 1 .. Least(left, space) :
        /\ out' = [out EXCEPT ![d] = @ \o SubSeq(buf, pos + 1, pos + n)]
        /\ \E v \in visible[d] .. Least(Len(out'[d]), taken[d] + Window) :
             visible' = [visible EXCEPT ![d] = v]
        /\ copy' = [copy EXCEPT ![d].pos = @ + n, ![d].need_flush = TRUE]
        /\ UNCHANGED <<read, taken, closed>>
  BY DEF WriteReady
<1>4. n \in 1 .. left
  <2>. HIDE DEF space
  <2>. QED
    BY <1>0, <1>2 DEF Least
<1>. DEFINE o == out[d] \o SubSeq(buf, pos + 1, pos + n)
            c == [copy[d] EXCEPT !.pos = pos + n, !.need_flush = TRUE]
<1>5. o \in Seq(Nat) /\ Len(o) = Len(out[d]) + n /\ CarriedBy(pos + n, cap, buf, o, read[d])
  <2>. HIDE DEF pos, cap, buf
  <2>. DEFINE w == out[d]
              r == read[d]
  <2>1. n \in 1 .. cap - pos /\ cap \in 0 .. BufSize
    BY <1>0, <1>4
  <2>2. /\ BufSize \in Nat /\ pos \in Nat /\ buf \in [1 .. BufSize -> Nat]
        /\ w \in Seq(Nat) /\ r \in Nat /\ CarriedBy(pos, cap, buf, w, r)
    BY <1>0
  <2>. HIDE DEF w, r
  <2>3. /\ w \o SubSeq(buf, pos + 1, pos + n) \in Seq(Nat)
        /\ Len(w \o SubSeq(buf, pos + 1, pos + n)) = Len(w) + n
        /\ CarriedBy(pos + n, cap, buf, w \o SubSeq(buf, pos + 1, pos + n), r)
    BY <2>1, <2>2, WriteCarries, ZenonT(30)
  <2>. QED
    BY <2>3 DEF w, r
<1>6. /\ c \in Transfer
      /\ c.state = copy[d].state /\ c.read_done = copy[d].read_done
      /\ c.pos = pos + n /\ c.cap = cap /\ c.buf = buf
  <2>1. pos + n \in 0 .. BufSize /\ n \in Nat
    BY <1>0, <1>4
  <2>. QED
    BY <2>1, CopyParts DEF Transfer
<1>7. c.pos <= c.cap
  BY <1>0, <1>4, <1>6
<1>8. copy' = [copy EXCEPT ![d] = c] /\ out' = [out EXCEPT ![d] = o]
  BY <1>3 DEF DataOK
<1>9. out'[d] = o
  BY <1>8 DEF DataOK
<1>10. PICK v \in visible[d] .. Least(Len(o), taken[d] + Window) :
         visible' = [visible EXCEPT ![d] = v]
  BY <1>3, <1>9
<1>11. v \in Nat /\ taken[d] <= v /\ v <= Len(o) /\ v <= taken[d] + Window
  <2>1. Len(o) \in Nat
    BY <1>5
  <2>. HIDE DEF o
  <2>. QED
    BY <1>1, <2>1 DEF Least
<1>12. /\ read' = [read EXCEPT ![d] = read[d]] /\ closed' = [closed EXCEPT ![d] = closed[d]]
       /\ closed[d] \in BOOLEAN /\ UNCHANGED <<taken, sent>>
  BY <1>3, Same
<1>13. CarriedBy(c.pos, c.cap, c.buf, o, read[d])
  BY <1>5, <1>6
<1>. HIDE DEF c, o
<1>14. DataOK'
  BY <1>0, <1>1, <1>5, <1>6, <1>7, <1>8, <1>10, <1>11, <1>12, <1>13, DataMoves
<1>15. \A e \in Ends : /\ copy'[e] = IF e = d THEN c ELSE copy[e]
                       /\ e # d => out'[e] = out[e] /\ visible'[e] = visible[e]
  BY <1>8, <1>10 DEF DataOK
<1>. QED
  BY <1>6, <1>14, <1>15

\* A flush shows more of what was written, up to all of it.
LEMMA ShowKeeps ==
  ASSUME DataOK, NEW d \in Ends, NEW v \in Nat,
         visible[d] <= v, v <= Len(out[d]), v <= taken[d] + Window,
         visible' = [visible EXCEPT ![d] = v],
         NEW c \in Transfer,
         c.pos = copy[d].pos, c.cap = copy[d].cap, c.buf = copy[d].buf,
         copy' = [copy EXCEPT ![d] = c],
         NEW b \in BOOLEAN, closed' = [closed EXCEPT ![d] = b],
         UNCHANGED <<read, out, taken, sent>>
  PROVE  DataOK'
<1>1. taken[d] \in Nat /\ visible[d] \in Nat /\ taken[d] <= visible[d] /\ read[d] <= sent[d]
  BY CopyParts DEF DataOK, Streams
<1>2. taken[d] <= v
  BY <1>1
<1>. QED
  BY <1>1, <1>2, CopyParts, Same, DataMoves

LEMMA FlushPendingKeeps ==
  ASSUME DataOK, NEW d \in Ends, FlushPending(d), UNCHANGED <<copy, sent>>
  PROVE  /\ DataOK'
         /\ visible' = [visible EXCEPT ![d] = taken[d] + Window]
         /\ visible[d] <= taken[d] + Window /\ taken[d] + Window <= Len(out[d])
<1>. DEFINE v == taken[d] + Window
<1>1. /\ visible' = [visible EXCEPT ![d] = v] /\ UNCHANGED <<read, out, taken, closed>>
      /\ UnderWay(d) > Window
  BY DEF FlushPending
<1>2. /\ visible[d] \in Nat /\ taken[d] \in Nat /\ Window \in Nat /\ Len(out[d]) \in Nat
      /\ visible[d] <= v
  BY CopyParts, WindowAssumption DEF DataOK, Streams
<1>3. v \in Nat /\ v <= Len(out[d])
  BY <1>1, <1>2 DEF UnderWay
<1>4. DataOK'
  <2>. HIDE DEF v
  <2>1. /\ copy' = [copy EXCEPT ![d] = copy[d]] /\ copy[d] \in Transfer
        /\ closed' = [closed EXCEPT ![d] = closed[d]] /\ closed[d] \in BOOLEAN
    BY <1>1, Same, CopyParts
  <2>2. v <= taken[d] + Window
    BY <1>2, <1>3 DEF v
  <2>. QED
    BY <1>1, <1>2, <1>3, <2>1, <2>2, ShowKeeps
<1>. QED
  BY <1>1, <1>2, <1>3, <1>4

LEMMA FlushedFits ==
  ASSUME DataOK, NEW d \in Ends, CanFlush(d)
  PROVE  /\ Len(out[d]) \in Nat
         /\ visible[d] <= Len(out[d]) /\ Len(out[d]) <= taken[d] + Window
<1>1. /\ visible[d] <= Len(out[d]) /\ taken[d] \in Nat /\ Len(out[d]) \in Nat
      /\ Window \in Nat
  BY CopyParts, WindowAssumption DEF DataOK, Streams
<1>. QED
  BY <1>1 DEF CanFlush, UnderWay

-----------------------------------------------------------------------------
(* What the ends and the waker do, and where a step goes.                   *)

LEMMA EventsOf ==
  \A e \in Ends : Readable(e) \in Events /\ Writable(e) \in Events /\ Signal \in Events
BY DEF Events

LEMMA HappenTyped ==
  ASSUME WorldOK, NEW events, Happen(events)
  PROVE  waits' \subseteq Events /\ woken' \in BOOLEAN
BY DEF WorldOK, Happen

LEMMA WaitTyped ==
  ASSUME WorldOK, NEW event \in Events, Wait(event), Env PROVE WorldOK'
BY DEF WorldOK, Wait, Env, peerVars

LEMMA NoWaitTyped ==
  ASSUME WorldOK, NoWait, Env PROVE WorldOK'
BY DEF WorldOK, NoWait, Env, peerVars

LEMMA StepKeepsPlaced ==
  ASSUME NEW d \in Ends, NEW s \in Steps, at' = At(d, s),
         copy'[d].state = IF s = "shutdown" THEN "shutting" ELSE "running",
         s = "fill" => copy'[d].pos = 0 /\ copy'[d].cap = 0 /\ ~ copy'[d].read_done,
         s = "flush" => copy'[d].pos = copy'[d].cap /\ ~ copy'[d].read_done,
         s = "topup" => /\ copy'[d].pos < copy'[d].cap /\ copy'[d].cap < BufSize
                        /\ ~ copy'[d].read_done,
         s = "lastflush" => copy'[d].pos = copy'[d].cap /\ copy'[d].read_done
  PROVE  PlaceOK'
<1>1. \A e \in Ends : \A t : at' = At(e, t) <=> e = d /\ t = s
  BY AtEqual
<1>2. at' # Waiting /\ at' \in Places
  BY AtEqual, AtIsPlace DEF Waiting, Steps
<1>. QED
  BY <1>1, <1>2 DEF PlaceOK, Placed, PlacedAt

LEMMA FailKeeps ==
  ASSUME CopyInv, Fail, Env PROVE CopyInv'
<1>1. WorldOK'
  BY NoWaitTyped DEF CopyInv, Fail
<1>2. DataOK'
  BY DEF CopyInv, DataOK, Streams, Carried, Fail, streamVars, Env, peerVars
<1>3. PlaceOK'
  BY AtEqual DEF Fail, Failed, PlaceOK, Placed, PlacedAt, Places, Waiting, Steps
<1>. QED
  BY <1>1, <1>2, <1>3 DEF CopyInv

\* Only the place changes, and poll goes on or returns.
LEMMA LeaveWithoutData ==
  ASSUME CopyInv, NEW d \in Ends, at' = Leave(d, copy), UNCHANGED copy
  PROVE  PlaceOK'
<1>1. copy' \in [Ends -> Transfer] /\ at' = Leave(d, copy')
  BY DEF CopyInv, DataOK
<1>. QED
  BY <1>1, LeaveKeepsPlaced

LEMMA StateDecidesLeave ==
  ASSUME NEW c, NEW c2, NEW d, \A e \in Ends : c2[e].state = c[e].state
  PROVE  Leave(d, c) = Leave(d, c2)
BY DEF Leave, Entry, Ends

\* The streams, the copies and where the future is stay as they are.
LEMMA DataStays ==
  ASSUME DataOK, UNCHANGED <<sent, streamVars, copy>> PROVE DataOK'
BY DEF DataOK, Streams, Carried, streamVars

LEMMA PlaceStays ==
  ASSUME PlaceOK, UNCHANGED <<at, copy>> PROVE PlaceOK'
BY DEF PlaceOK, Placed, PlacedAt

-----------------------------------------------------------------------------
(* One lemma per action: the invariant is kept.                             *)

LEMMA SendKeeps ==
  ASSUME CopyInv, NEW e \in Ends, Send(e) PROVE CopyInv'
<1>1. WorldOK'
  BY HappenTyped DEF CopyInv, WorldOK, Send
<1>2. Streams'
  BY DEF CopyInv, WorldOK, DataOK, Streams, Send, streamVars
<1>3. DataOK'
  BY <1>2 DEF CopyInv, DataOK, Carried, Send, streamVars
<1>. QED
  BY <1>1, <1>3, PlaceStays DEF CopyInv, Send

LEMMA SendEofKeeps ==
  ASSUME CopyInv, NEW e \in Ends, SendEof(e) PROVE CopyInv'
<1>1. WorldOK'
  BY HappenTyped DEF CopyInv, WorldOK, SendEof
<1>. QED
  BY <1>1, DataStays, PlaceStays DEF CopyInv, SendEof

LEMMA ResetKeeps ==
  ASSUME CopyInv, NEW e \in Ends, Reset(e) PROVE CopyInv'
<1>1. WorldOK'
  BY HappenTyped DEF CopyInv, WorldOK, Reset
<1>. QED
  BY <1>1, DataStays, PlaceStays DEF CopyInv, Reset

LEMMA TakeKeeps ==
  ASSUME CopyInv, NEW e \in Ends, Take(e) PROVE CopyInv'
<1>1. WorldOK'
  BY HappenTyped DEF CopyInv, WorldOK, Take, peerVars
<1>2. /\ taken' \in [Ends -> Nat]
      /\ \A d \in Ends : taken'[d] = IF d = e THEN taken[d] + 1 ELSE taken[d]
  BY DEF CopyInv, DataOK, Take
<1>3. Streams'
  <2>1. \A d \in Ends : visible[d] \in Nat /\ taken[d] \in Nat
    BY DEF CopyInv, DataOK
  <2>. QED
    BY <1>2, <2>1, WindowAssumption DEF CopyInv, DataOK, Streams, Take, peerVars
<1>4. DataOK'
  BY <1>2, <1>3 DEF CopyInv, DataOK, Carried, Take
<1>. QED
  BY <1>1, <1>4, PlaceStays DEF CopyInv, Take

LEMMA CloseTunnelKeeps ==
  ASSUME CopyInv, CloseTunnel PROVE CopyInv'
<1>1. WorldOK'
  BY HappenTyped DEF CopyInv, WorldOK, CloseTunnel, peerVars
<1>. QED
  BY <1>1, DataStays, PlaceStays DEF CopyInv, CloseTunnel, peerVars

LEMMA PollKeeps ==
  ASSUME CopyInv, Poll PROVE CopyInv'
<1>1. WorldOK'
  BY DEF CopyInv, WorldOK, Poll, peerVars
<1>2. copy' \in [Ends -> Transfer] /\ UNCHANGED copy
  BY DEF CopyInv, DataOK, Poll
<1>3. \E d \in Ends : copy'[d].state # "done" /\ at' = Entry(d, copy')
  BY <1>2 DEF CopyInv, PlaceOK, Placed, Poll, PollStart, Ends
<1>. QED
  BY <1>1, <1>2, <1>3, EntryKeepsPlaced, DataStays DEF CopyInv, Poll, peerVars

\* What is known of the copy of the direction the future is at.
LEMMA AtStep ==
  ASSUME CopyInv, NEW d \in Ends, NEW s \in Steps, at = At(d, s)
  PROVE  /\ copy[d].state = IF s = "shutdown" THEN "shutting" ELSE "running"
         /\ s = "fill" => copy[d].pos = 0 /\ copy[d].cap = 0 /\ ~ copy[d].read_done
         /\ s = "flush" => copy[d].pos = copy[d].cap /\ ~ copy[d].read_done
         /\ s = "topup" => /\ copy[d].pos < copy[d].cap /\ copy[d].cap < BufSize
                           /\ ~ copy[d].read_done
         /\ s = "lastflush" => copy[d].pos = copy[d].cap /\ copy[d].read_done
BY DEF CopyInv, PlaceOK, Placed, PlacedAt

LEMMA PollFinishKeeps ==
  ASSUME CopyInv, NEW d \in Ends, PollFinish(d) PROVE CopyInv'
<1>1. DataOK /\ WorldOK /\ copy[d] \in Transfer /\ copy[d].state = "running"
      /\ UNCHANGED <<sent, streamVars>>
  BY AtStep, CopyParts DEF CopyInv, PollFinish, Steps, Env, peerVars
<1>2. CASE finish
  <2>. DEFINE c == [copy[d] EXCEPT !.state = "shutting"]
  <2>1. copy' = [copy EXCEPT ![d] = c] /\ at' = At(d, "shutdown") /\ NoWait
    BY <1>2 DEF PollFinish, GoTo
  <2>2. /\ c \in Transfer /\ c.state = "shutting"
        /\ c.pos = copy[d].pos /\ c.cap = copy[d].cap /\ c.buf = copy[d].buf
    BY <1>1 DEF Transfer
  <2>3. WorldOK'
    BY <1>1, <2>1, NoWaitTyped DEF PollFinish
  <2>. HIDE DEF c
  <2>4. DataOK'
    BY <1>1, <2>1, <2>2, Same, FlagsKeepData DEF streamVars
  <2>5. PlaceOK'
    <3>1. copy'[d].state = "shutting"
      BY <1>1, <2>1, <2>2 DEF DataOK
    <3>. QED
      BY <2>1, <3>1, StepKeepsPlaced DEF Steps
  <2>. QED
    BY <2>3, <2>4, <2>5 DEF CopyInv
<1>3. CASE ~ finish /\ copy[d].pos = copy[d].cap /\ ~ copy[d].read_done
  <2>. DEFINE c == [copy[d] EXCEPT !.pos = 0, !.cap = 0]
  <2>1. copy' = [copy EXCEPT ![d] = c] /\ at' = At(d, "fill") /\ Wait(Signal)
    BY <1>1, <1>3 DEF PollFinish, GoTo, DataOK
  <2>2. /\ c \in Transfer /\ c.state = "running" /\ ~ c.read_done
        /\ c.pos = 0 /\ c.cap = 0 /\ c.buf = copy[d].buf
    <3>1. copy[d] \in Transfer /\ 0 \in 0 .. BufSize
      BY <1>1, BufSizeAssumption
    <3>2. c \in Transfer /\ c.pos = 0 /\ c.cap = 0 /\ c.buf = copy[d].buf
          /\ c.state = copy[d].state
      BY <3>1 DEF Transfer
    <3>3. c.read_done = copy[d].read_done
      BY <3>1, Zenon DEF Transfer
    <3>. HIDE DEF c
    <3>. QED
      BY <1>1, <1>3, <3>2, <3>3
  <2>3. WorldOK'
    BY <1>1, <1>3, <2>1, WaitTyped, EventsOf DEF PollFinish
  <2>4. CarriedBy(c.pos, c.cap, c.buf, out[d], read[d])
    <3>1. CarriedBy(copy[d].pos, copy[d].pos, copy[d].buf, out[d], read[d])
          /\ copy[d].pos \in Nat /\ out[d] \in Seq(Nat) /\ read[d] \in Nat
      BY <1>1, <1>3, CopyParts
    <3>2. CarriedBy(0, 0, copy[d].buf, out[d], read[d])
      BY <3>1, ResetCarries
    <3>. HIDE DEF c
    <3>. QED
      BY <2>2, <3>2
  <2>. HIDE DEF c
  <2>5. DataOK'
    <3>1. /\ read[d] <= sent[d] /\ taken[d] <= visible[d] /\ visible[d] <= Len(out[d])
          /\ visible[d] <= taken[d] + Window /\ c.pos <= c.cap
      BY <1>1, <2>2 DEF DataOK, Streams
    <3>2. /\ out' = [out EXCEPT ![d] = out[d]] /\ out[d] \in Seq(Nat)
          /\ read' = [read EXCEPT ![d] = read[d]] /\ read[d] \in Nat
          /\ visible' = [visible EXCEPT ![d] = visible[d]] /\ visible[d] \in Nat
          /\ closed' = [closed EXCEPT ![d] = closed[d]] /\ closed[d] \in BOOLEAN
          /\ UNCHANGED <<taken, sent>>
      BY <1>1, Same, CopyParts DEF streamVars
    <3>. QED
      BY <1>1, <2>1, <2>2, <2>4, <3>1, <3>2, DataMoves
  <2>6. PlaceOK'
    <3>1. copy'[d] = c
      BY <1>1, <2>1 DEF DataOK
    <3>. QED
      BY <2>1, <2>2, <3>1, StepKeepsPlaced DEF Steps
  <2>. QED
    BY <2>3, <2>5, <2>6 DEF CopyInv
<1>4. CASE ~ finish /\ ~ (copy[d].pos = copy[d].cap /\ ~ copy[d].read_done)
  <2>1. UNCHANGED copy /\ at' = At(d, "write") /\ Wait(Signal)
    BY <1>4 DEF PollFinish, GoTo
  <2>2. WorldOK'
    BY <1>1, <2>1, WaitTyped, EventsOf DEF PollFinish
  <2>3. PlaceOK'
    BY <1>1, <2>1, StepKeepsPlaced DEF Steps
  <2>. QED
    BY <1>1, <2>1, <2>2, <2>3, DataStays DEF CopyInv
<1>. QED
  BY <1>2, <1>3, <1>4

LEMMA FillKeeps ==
  ASSUME CopyInv, NEW d \in Ends, Fill(d) PROVE CopyInv'
<1>1. DataOK /\ WorldOK /\ UNCHANGED sent /\ Env
  BY DEF CopyInv, Fill, Env, peerVars
<1>2. /\ copy[d].state = "running" /\ copy[d].pos = 0 /\ copy[d].cap = 0
      /\ ~ copy[d].read_done
  BY AtStep DEF Fill, Steps
<1>3. CASE ReadReady(d) /\ GoTo(d, "write") /\ NoWait
  <2>1. DataOK' /\ copy'[d].state = "running"
    BY <1>1, <1>2, <1>3, ReadReadyKeeps
  <2>2. PlaceOK'
    BY <1>3, <2>1, StepKeepsPlaced DEF GoTo, Steps
  <2>. QED
    BY <1>1, <1>3, <2>1, <2>2, NoWaitTyped DEF CopyInv
<1>4. CASE /\ ReadPending(d)
           /\ at' = IF copy[d].need_flush THEN At(d, "flush") ELSE Leave(d, copy)
           /\ UNCHANGED copy
  <2>1. WorldOK' /\ DataOK'
    BY <1>1, <1>4, WaitTyped, EventsOf, DataStays DEF ReadPending
  <2>2. CASE copy[d].need_flush
    BY <1>2, <1>4, <2>1, <2>2, StepKeepsPlaced DEF Steps, CopyInv
  <2>3. CASE ~ copy[d].need_flush
    BY <1>4, <2>1, <2>3, LeaveWithoutData DEF CopyInv
  <2>. QED
    BY <2>2, <2>3
<1>5. CASE Fail
  BY <1>1, <1>5, FailKeeps
<1>. QED
  BY <1>3, <1>4, <1>5 DEF Fill

\* A pending flush in any place: what the window takes is sent, and poll goes on.
LEMMA FlushPendingLeaves ==
  ASSUME CopyInv, NEW d \in Ends, FlushPending(d), UNCHANGED copy,
         at' = Leave(d, copy), Env
  PROVE  CopyInv'
<1>1. DataOK'
  BY FlushPendingKeeps DEF CopyInv, Env, peerVars
<1>2. WorldOK'
  BY WaitTyped, EventsOf, OtherEnd DEF CopyInv, FlushPending
<1>. QED
  BY <1>1, <1>2, LeaveWithoutData DEF CopyInv

\* A flush that sends everything, and changes the copy to c.
LEMMA FlushedKeeps ==
  ASSUME CopyInv, NEW d \in Ends, CanFlush(d), Flushed(d), NEW c \in Transfer,
         c.pos = copy[d].pos, c.cap = copy[d].cap, c.buf = copy[d].buf,
         copy' = [copy EXCEPT ![d] = c], NEW b \in BOOLEAN,
         closed' = [closed EXCEPT ![d] = b],
         UNCHANGED <<read, out, taken>>, NoWait, Env
  PROVE  WorldOK' /\ DataOK' /\ copy'[d] = c
<1>1. DataOK /\ WorldOK /\ UNCHANGED sent
  BY DEF CopyInv, Env, peerVars
<1>2. /\ Len(out[d]) \in Nat
      /\ visible[d] <= Len(out[d]) /\ Len(out[d]) <= taken[d] + Window
      /\ visible' = [visible EXCEPT ![d] = Len(out[d])]
  BY <1>1, FlushedFits DEF Flushed
<1>3. Len(out[d]) <= Len(out[d])
  BY <1>2
<1>4. DataOK'
  BY <1>1, <1>2, <1>3, ShowKeeps
<1>5. copy'[d] = c
  BY <1>1 DEF DataOK
<1>. QED
  BY <1>1, <1>4, <1>5, NoWaitTyped

LEMMA FlushKeeps ==
  ASSUME CopyInv, NEW d \in Ends, Flush(d) PROVE CopyInv'
<1>1. DataOK /\ copy[d] \in Transfer /\ Env
  BY CopyParts DEF CopyInv, Flush
<1>2. CASE /\ CanFlush(d)
           /\ Flushed(d)
           /\ copy' = [copy EXCEPT ![d].need_flush = FALSE]
           /\ NoWait
           /\ UNCHANGED <<read, out, taken, closed>>
           /\ at' = Leave(d, copy)
  <2>. DEFINE c == [copy[d] EXCEPT !.need_flush = FALSE]
  <2>1. /\ c \in Transfer /\ c.state = copy[d].state
        /\ c.pos = copy[d].pos /\ c.cap = copy[d].cap /\ c.buf = copy[d].buf
    BY <1>1 DEF Transfer
  <2>2. copy' = [copy EXCEPT ![d] = c]
    BY <1>1, <1>2 DEF DataOK
  <2>3. closed' = [closed EXCEPT ![d] = closed[d]] /\ closed[d] \in BOOLEAN
    BY <1>1, <1>2, Same
  <2>. HIDE DEF c
  <2>4. WorldOK' /\ DataOK' /\ copy'[d] = c
    BY <1>1, <1>2, <2>1, <2>2, <2>3, FlushedKeeps
  <2>5. \A e \in Ends : copy'[e].state = copy[e].state
    BY <1>1, <2>1, <2>2 DEF DataOK
  <2>6. at' = Leave(d, copy') /\ copy' \in [Ends -> Transfer]
    BY <1>2, <2>4, <2>5, StateDecidesLeave DEF DataOK
  <2>. QED
    BY <2>4, <2>6, LeaveKeepsPlaced DEF CopyInv
<1>3. CASE FlushPending(d) /\ UNCHANGED copy /\ at' = Leave(d, copy)
  BY <1>1, <1>3, FlushPendingLeaves
<1>4. CASE Fail
  BY <1>1, <1>4, FailKeeps
<1>. QED
  BY <1>2, <1>3, <1>4 DEF Flush

LEMMA WriteKeeps ==
  ASSUME CopyInv, NEW d \in Ends, Write(d) PROVE CopyInv'
<1>1. DataOK /\ WorldOK /\ UNCHANGED sent /\ Env /\ copy[d].state = "running"
      /\ copy[d].pos < copy[d].cap
  BY AtStep DEF CopyInv, Write, Env, peerVars, Steps
<1>2. CASE WriteReady(d) /\ GoTo(d, "write") /\ NoWait
  <2>1. DataOK' /\ copy'[d].state = "running"
    BY <1>1, <1>2, WriteReadyKeeps
  <2>2. PlaceOK'
    BY <1>2, <2>1, StepKeepsPlaced DEF GoTo, Steps
  <2>. QED
    BY <1>1, <1>2, <2>1, <2>2, NoWaitTyped DEF CopyInv
<1>3. CASE /\ WritePending(d)
           /\ at' = IF ~ copy[d].read_done /\ copy[d].cap < BufSize
                    THEN At(d, "topup") ELSE Leave(d, copy)
           /\ UNCHANGED copy
  <2>1. WorldOK' /\ DataOK'
    BY <1>1, <1>3, WaitTyped, EventsOf, OtherEnd, DataStays DEF WritePending
  <2>2. CASE ~ copy[d].read_done /\ copy[d].cap < BufSize
    BY <1>1, <1>3, <2>1, <2>2, StepKeepsPlaced DEF Steps, CopyInv
  <2>3. CASE ~ (~ copy[d].read_done /\ copy[d].cap < BufSize)
    BY <1>3, <2>1, <2>3, LeaveWithoutData DEF CopyInv
  <2>. QED
    BY <2>2, <2>3
<1>4. CASE Fail
  BY <1>1, <1>4, FailKeeps
<1>. QED
  BY <1>2, <1>3, <1>4 DEF Write

LEMMA TopUpKeeps ==
  ASSUME CopyInv, NEW d \in Ends, TopUp(d) PROVE CopyInv'
<1>1. DataOK /\ WorldOK /\ UNCHANGED sent /\ Env
  BY DEF CopyInv, TopUp, Env, peerVars
<1>2. CASE ReadReady(d) /\ at' = Leave(d, copy) /\ NoWait
  <2>1. DataOK' /\ at' = Leave(d, copy') /\ copy' \in [Ends -> Transfer]
    BY <1>1, <1>2, ReadReadyKeeps, StateDecidesLeave DEF DataOK
  <2>. QED
    BY <1>1, <1>2, <2>1, NoWaitTyped, LeaveKeepsPlaced DEF CopyInv
<1>3. CASE ReadPending(d) /\ at' = Leave(d, copy) /\ UNCHANGED copy
  <2>1. WorldOK' /\ DataOK'
    BY <1>1, <1>3, WaitTyped, EventsOf, DataStays DEF ReadPending
  <2>. QED
    BY <1>3, <2>1, LeaveWithoutData DEF CopyInv
<1>4. CASE Fail
  BY <1>1, <1>4, FailKeeps
<1>. QED
  BY <1>2, <1>3, <1>4 DEF TopUp

LEMMA WrittenKeeps ==
  ASSUME CopyInv, NEW d \in Ends, Written(d) PROVE CopyInv'
<1>1. DataOK /\ UNCHANGED <<sent, streamVars, copy>> /\ WorldOK'
  BY NoWaitTyped DEF CopyInv, Written, Env, peerVars
<1>2. copy[d].state = "running" /\ copy[d].pos = copy[d].cap
  BY AtStep DEF Written, Steps
<1>3. PlaceOK'
  <2>1. CASE copy[d].read_done
    BY <1>1, <1>2, <2>1, StepKeepsPlaced DEF Written, GoTo, Steps
  <2>2. CASE ~ copy[d].read_done
    BY <1>1, <1>2, <2>2, StepKeepsPlaced DEF Written, GoTo, Steps
  <2>. QED
    BY <2>1, <2>2
<1>. QED
  BY <1>1, <1>3, DataStays DEF CopyInv

LEMMA LastFlushKeeps ==
  ASSUME CopyInv, NEW d \in Ends, LastFlush(d) PROVE CopyInv'
<1>1. DataOK /\ copy[d] \in Transfer /\ Env
  BY CopyParts DEF CopyInv, LastFlush
<1>2. CASE /\ CanFlush(d)
           /\ Flushed(d)
           /\ copy' = [copy EXCEPT ![d].state = "shutting"]
           /\ GoTo(d, "shutdown")
           /\ NoWait
           /\ UNCHANGED <<read, out, taken, closed>>
  <2>. DEFINE c == [copy[d] EXCEPT !.state = "shutting"]
  <2>1. /\ c \in Transfer /\ c.state = "shutting"
        /\ c.pos = copy[d].pos /\ c.cap = copy[d].cap /\ c.buf = copy[d].buf
    BY <1>1 DEF Transfer
  <2>2. copy' = [copy EXCEPT ![d] = c]
    BY <1>1, <1>2 DEF DataOK
  <2>3. closed' = [closed EXCEPT ![d] = closed[d]] /\ closed[d] \in BOOLEAN
    BY <1>1, <1>2, Same
  <2>. HIDE DEF c
  <2>4. WorldOK' /\ DataOK' /\ copy'[d] = c
    BY <1>1, <1>2, <2>1, <2>2, <2>3, FlushedKeeps
  <2>5. PlaceOK'
    BY <1>2, <2>1, <2>4, StepKeepsPlaced DEF GoTo, Steps
  <2>. QED
    BY <2>4, <2>5 DEF CopyInv
<1>3. CASE FlushPending(d) /\ UNCHANGED copy /\ at' = Leave(d, copy)
  BY <1>1, <1>3, FlushPendingLeaves
<1>4. CASE Fail
  BY <1>1, <1>4, FailKeeps
<1>. QED
  BY <1>2, <1>3, <1>4 DEF LastFlush

LEMMA ShutdownKeeps ==
  ASSUME CopyInv, NEW d \in Ends, Shutdown(d) PROVE CopyInv'
<1>1. DataOK /\ copy[d] \in Transfer /\ Env
  BY CopyParts DEF CopyInv, Shutdown
<1>2. CASE /\ CanFlush(d)
           /\ Flushed(d)
           /\ closed' = [closed EXCEPT ![d] = TRUE]
           /\ copy' = [copy EXCEPT ![d].state = "done"]
           /\ at' = Leave(d, copy')
           /\ NoWait
           /\ UNCHANGED <<read, out, taken>>
  <2>. DEFINE c == [copy[d] EXCEPT !.state = "done"]
  <2>1. /\ c \in Transfer
        /\ c.pos = copy[d].pos /\ c.cap = copy[d].cap /\ c.buf = copy[d].buf
    BY <1>1 DEF Transfer
  <2>2. copy' = [copy EXCEPT ![d] = c]
    BY <1>1, <1>2 DEF DataOK
  <2>. HIDE DEF c
  <2>3. WorldOK' /\ DataOK'
    BY <1>1, <1>2, <2>1, <2>2, FlushedKeeps
  <2>. QED
    BY <1>2, <2>3, LeaveKeepsPlaced DEF CopyInv, DataOK
<1>3. CASE FlushPending(d) /\ UNCHANGED copy /\ at' = Leave(d, copy)
  BY <1>1, <1>3, FlushPendingLeaves
<1>4. CASE Fail
  BY <1>1, <1>4, FailKeeps
<1>. QED
  BY <1>2, <1>3, <1>4 DEF Shutdown

-----------------------------------------------------------------------------
LEMMA CopyInvStarts ==
  ASSUME Init PROVE CopyInv
<1>1. /\ NewCopy \in Transfer /\ NewCopy.state = "running"
      /\ NewCopy.pos = 0 /\ NewCopy.cap = 0
  BY BufSizeAssumption DEF NewCopy, Transfer
<1>2. \A d \in Ends :
        /\ copy[d] = NewCopy /\ out[d] = <<>> /\ read[d] = 0 /\ sent[d] = 0
        /\ visible[d] = 0 /\ taken[d] = 0
  BY DEF Init
<1>3. WorldOK
  BY DEF Init, WorldOK
<1>4. Streams
  BY <1>2, WindowAssumption DEF Streams
<1>5. Carried
  <2>1. CarriedBy(0, 0, NewCopy.buf, <<>>, 0)
    BY DEF CarriedBy
  <2>. QED
    BY <1>1, <1>2, <2>1 DEF Carried
<1>6. DataOK
  BY <1>1, <1>2, <1>4, <1>5 DEF Init, DataOK
<1>7. PlaceOK
  BY <1>1, <1>2, AtEqual DEF Init, PlaceOK, Places, Placed, PlacedAt, Waiting, Steps, Ends
<1>. QED
  BY <1>3, <1>6, <1>7 DEF CopyInv

LEMMA CopyInvStep ==
  ASSUME CopyInv, [Next]_vars PROVE CopyInv'
<1>1. CASE Poll
  BY <1>1, PollKeeps
<1>2. ASSUME NEW d \in Ends, Direction(d) PROVE CopyInv'
  BY <1>2, PollFinishKeeps, FillKeeps, FlushKeeps, WriteKeeps, TopUpKeeps,
     WrittenKeeps, LastFlushKeeps, ShutdownKeeps DEF Direction
<1>3. CASE CloseTunnel
  BY <1>3, CloseTunnelKeeps
<1>4. ASSUME NEW e \in Ends, Peer(e) PROVE CopyInv'
  BY <1>4, SendKeeps, SendEofKeeps, ResetKeeps, TakeKeeps DEF Peer
<1>5. CASE UNCHANGED vars
  <2>1. WorldOK'
    BY <1>5 DEF CopyInv, WorldOK, vars
  <2>. QED
    BY <1>5, <2>1, DataStays, PlaceStays DEF CopyInv, vars, streamVars
<1>. QED
  BY <1>1, <1>2, <1>3, <1>4, <1>5 DEF Next, Task

LEMMA CopyInvAlways == Spec => []CopyInv
<1>1. Init => CopyInv
  BY CopyInvStarts
<1>2. CopyInv /\ [Next]_vars => CopyInv'
  BY CopyInvStep
<1>. QED
  BY <1>1, <1>2, PTL DEF Spec

\* Every variable has its type and pos never passes cap, the assertion of
\* poll_copy in debug builds: no call reads or writes outside the buffer.
THEOREM TypeCorrect == Spec => []TypeOK
BY CopyInvAlways, InvIsTyped, PTL

\* Topping up a part-written buffer, partial writes, flushes and the closing of
\* the tunnel lose, repeat and reorder no byte, for any buffer, window and ends.
THEOREM LosesNothing == Spec => []NothingLost
BY CopyInvAlways, InvLosesNothing, PTL

-----------------------------------------------------------------------------
(* No wake-up is lost.                                                      *)

\* What an end or the signal does to the waker.
LEMMA HappenCases ==
  ASSUME NEW events, Happen(events), ~ woken'
  PROVE  /\ ~ woken /\ waits' = waits
         /\ \A ev \in events : ev \notin waits
BY DEF Happen

LEMMA EventsDiffer ==
  \A d, e \in Ends : /\ Readable(d) = Readable(e) <=> d = e
                     /\ Writable(d) = Writable(e) <=> d = e
BY DEF Readable, Writable

\* What was said of a direction still holds when nothing it speaks of changes.
LEMMA SettledStays ==
  ASSUME NEW d \in Ends, Settled(d), waits \subseteq waits',
         UNCHANGED <<sent, conn, finish, taken>>,
         copy'[d] = copy[d], read'[d] = read[d], out'[d] = out[d]
  PROVE  Settled(d)'
BY DEF Settled, ReadBlocked, WriteBlocked, FlushBlocked, UnderWay, Room, WriteFails

\* A step of the future inside direction d keeps what was said of direction a
\* when d is b.
LEMMA FirstStays ==
  ASSUME Registered, NEW d \in Ends, NEW s \in Steps, at = At(d, s),
         waits \subseteq waits', UNCHANGED woken,
         UNCHANGED <<sent, conn, finish, taken>>,
         \A e \in Ends \ {d} : copy'[e] = copy[e] /\ read'[e] = read[e] /\ out'[e] = out[e]
  PROVE  d = "b" /\ ~ woken' => Settled("a")'
<1>. SUFFICES ASSUME d = "b", ~ woken' PROVE Settled("a")'
  OBVIOUS
<1>1. Settled("a")
  BY DEF Registered
<1>. QED
  BY <1>1, SettledStays DEF Ends

LEMMA StepRegisters ==
  ASSUME NEW d \in Ends, NEW s \in Steps, at' = At(d, s),
         ~ woken' => OnTheWay(d)',
         d = "b" /\ ~ woken' => Settled("a")'
  PROVE  Registered'
<1>1. at' # Waiting
  BY AtEqual DEF Waiting, Steps
<1>2. ASSUME NEW e \in Ends, e # d PROVE OnTheWay(e)'
  BY <1>2, AtEqual DEF OnTheWay
<1>3. ASSUME NEW t \in Steps, at' = At("b", t) PROVE d = "b"
  <2>1. At(d, s) = At("b", t)
    BY <1>3
  <2>. QED
    BY <2>1, AtEqual
<1>. QED
  BY <1>1, <1>2, <1>3 DEF Registered

LEMMA LeaveRegisters ==
  ASSUME NEW d \in Ends, copy' \in [Ends -> Transfer], at' = Leave(d, copy'),
         ~ woken' => Settled(d)',
         d = "b" /\ ~ woken' => Settled("a")'
  PROVE  Registered'
<1>1. CASE d = "a" /\ copy'["b"].state # "done" /\ at' = Entry("b", copy')
  <2>1. at' = At("b", "finish") \/ at' = At("b", "shutdown")
    BY <1>1 DEF Entry
  <2>2. \A e \in Ends : OnTheWay(e)'
    BY <2>1, AtEqual DEF OnTheWay
  <2>3. at' # Waiting
    BY <2>1, AtEqual DEF Waiting
  <2>. QED
    BY <1>1, <2>2, <2>3 DEF Registered
<1>2. CASE at' = Returned
  BY <1>2, AtEqual DEF Registered, OnTheWay, Returned, Waiting, Steps
<1>3. CASE (d = "b" \/ copy'["b"].state = "done") /\ at' = Waiting
  <2>1. \A e \in Ends : OnTheWay(e)'
    BY <1>3, AtEqual DEF OnTheWay, Waiting
  <2>2. copy'["b"].state = "done" => Settled("b")'
    BY DEF Settled
  <2>3. d = "a" \/ d = "b"
    BY DEF Ends
  <2>. QED
    BY <1>3, <2>1, <2>2, <2>3 DEF Registered
<1>4. d = "a" \/ d = "b"
  BY DEF Ends
<1>. QED
  BY <1>1, <1>2, <1>3, <1>4 DEF Leave

LEMMA FailRegisters ==
  ASSUME at' = Failed PROVE Registered'
BY AtEqual DEF Registered, OnTheWay, Failed, Waiting, Steps

\* Nothing but the waker changes, as far as a direction is concerned.
LEMMA RegisteredStays ==
  ASSUME Registered, UNCHANGED <<at, copy, read, out>>,
         ~ woken' =>
           /\ ~ woken /\ waits' = waits
           /\ \A d \in Ends :
                /\ Signal \in waits => UNCHANGED finish
                /\ Readable(d) \in waits /\ conn[d] = "open"
                     => conn'[d] = "open" /\ sent'[d] = sent[d]
                /\ Writable(Other(d)) \in waits /\ ~ WriteFails(d)
                     => ~ WriteFails(d)' /\ taken'[d] = taken[d]
  PROVE  Registered'
<1>. SUFFICES ASSUME ~ woken'
              PROVE  /\ \A d \in Ends : OnTheWay(d)'
                     /\ at = Waiting \/ (\E s \in Steps : at = At("b", s)) => Settled("a")'
                     /\ at = Waiting => Settled("b")'
  BY DEF Registered
<1>1. \A d \in Ends :
        /\ ReadBlocked(d) => ReadBlocked(d)'
        /\ WriteBlocked(d) => WriteBlocked(d)'
        /\ FlushBlocked(d) => FlushBlocked(d)'
  BY DEF ReadBlocked, WriteBlocked, FlushBlocked, UnderWay, Room
<1>2. ~ finish /\ Signal \in waits => ~ finish' /\ Signal \in waits'
  BY DEF Ends
<1>3. \A d \in Ends : Settled(d) => Settled(d)'
  BY <1>1, <1>2 DEF Settled
<1>4. \A d \in Ends : OnTheWay(d) => OnTheWay(d)'
  BY <1>1, <1>2 DEF OnTheWay
<1>. QED
  BY <1>3, <1>4 DEF Registered, Ends

LEMMA PeerRegisters ==
  ASSUME Registered, NEW e \in Ends, Peer(e) PROVE Registered'
<1>1. CASE Send(e)
  <2>1. UNCHANGED <<at, copy, read, out, finish, taken, conn>> /\ Happen({Readable(e)})
    BY <1>1 DEF Send, streamVars
  <2>2. \A d \in Ends : d # e => sent'[d] = sent[d]
    BY <1>1 DEF Send
  <2>. QED
    BY <2>1, <2>2, HappenCases, RegisteredStays DEF WriteFails
<1>2. CASE SendEof(e)
  <2>1. UNCHANGED <<at, copy, read, out, finish, taken, sent>> /\ Happen({Readable(e)})
    BY <1>2 DEF SendEof, streamVars
  <2>2. conn' = [conn EXCEPT ![e] = "eof"] /\ conn[e] = "open"
    BY <1>2 DEF SendEof
  <2>3. /\ \A d \in Ends : d # e => conn'[d] = conn[d]
        /\ \A d \in Ends : ~ WriteFails(d) => ~ WriteFails(d)'
    BY <2>2 DEF WriteFails
  <2>. QED
    BY <2>1, <2>3, HappenCases, RegisteredStays
<1>3. CASE Reset(e)
  <2>1. /\ UNCHANGED <<at, copy, read, out, finish, taken, sent>>
        /\ Happen({Readable(e), Writable(e)})
    BY <1>3 DEF Reset, streamVars
  <2>2. \A d \in Ends : d # e => conn'[d] = conn[d]
    BY <1>3 DEF Reset
  <2>3. \A d \in Ends : Other(d) # e => (~ WriteFails(d) => ~ WriteFails(d)')
    BY <2>2, OtherEnd DEF WriteFails
  <2>. QED
    BY <2>1, <2>2, <2>3, HappenCases, RegisteredStays
<1>4. CASE Take(e)
  <2>1. /\ UNCHANGED <<at, copy, read, out, finish, conn, sent>>
        /\ Happen({Writable(Other(e))})
    BY <1>4 DEF Take, peerVars
  <2>2. \A d \in Ends : d # e => taken'[d] = taken[d]
    BY <1>4 DEF Take
  <2>. QED
    BY <2>1, <2>2, HappenCases, RegisteredStays DEF WriteFails
<1>. QED
  BY <1>1, <1>2, <1>3, <1>4 DEF Peer

LEMMA CloseTunnelRegisters ==
  ASSUME Registered, CloseTunnel PROVE Registered'
<1>1. UNCHANGED <<at, copy, read, out, conn, taken, sent>> /\ Happen({Signal})
  BY DEF CloseTunnel, streamVars, peerVars
<1>. QED
  BY <1>1, HappenCases, RegisteredStays DEF WriteFails

LEMMA PollRegisters ==
  ASSUME CopyInv, Poll PROVE Registered'
<1>1. UNCHANGED copy
  BY DEF Poll
<1>2. CASE copy["a"].state # "done"
  <2>1. at' = At("a", "finish") \/ at' = At("a", "shutdown")
    BY <1>2 DEF Poll, PollStart, Entry
  <2>. QED
    BY <2>1, AtEqual DEF Registered, OnTheWay, Waiting
<1>3. CASE copy["a"].state = "done"
  <2>1. at' = At("b", "finish") \/ at' = At("b", "shutdown")
    BY <1>3 DEF Poll, PollStart, Entry
  <2>2. Settled("a")'
    BY <1>1, <1>3 DEF Settled
  <2>. QED
    BY <2>1, <2>2, AtEqual DEF Registered, OnTheWay, Waiting
<1>. QED
  BY <1>2, <1>3

LEMMA PollFinishRegisters ==
  ASSUME CopyInv, Registered, NEW d \in Ends, PollFinish(d) PROVE Registered'
<1>1. /\ at = At(d, "finish") /\ UNCHANGED <<sent, conn, finish, read, out, taken, woken>>
      /\ waits \subseteq waits'
      /\ \A e \in Ends \ {d} : copy'[e] = copy[e]
  BY DEF PollFinish, Env, peerVars, streamVars, Wait, NoWait, CopyInv, DataOK
<1>2. d = "b" /\ ~ woken' => Settled("a")'
  BY <1>1, FirstStays DEF Steps
<1>3. CASE finish
  <2>1. at' = At(d, "shutdown")
    BY <1>3 DEF PollFinish, GoTo
  <2>2. OnTheWay(d)'
    BY <2>1, AtEqual DEF OnTheWay
  <2>. QED
    BY <1>2, <2>1, <2>2, StepRegisters DEF Steps
<1>4. CASE ~ finish
  <2>1. Signal \in waits' /\ ~ finish'
    BY <1>4 DEF PollFinish, Wait, Env
  <2>2. at' = At(d, "fill") \/ at' = At(d, "write")
    BY <1>4 DEF PollFinish, GoTo
  <2>3. OnTheWay(d)'
    BY <2>1, <2>2, AtEqual DEF OnTheWay
  <2>. QED
    BY <1>2, <2>2, <2>3, StepRegisters DEF Steps
<1>. QED
  BY <1>3, <1>4

LEMMA FillRegisters ==
  ASSUME CopyInv, Registered, NEW d \in Ends, Fill(d) PROVE Registered'
<1>1. at = At(d, "fill") /\ UNCHANGED <<sent, conn, finish>> /\ WorldOK /\ DataOK
  BY DEF Fill, Env, peerVars, CopyInv
<1>2. /\ copy[d].state = "running" /\ copy[d].pos = 0 /\ copy[d].cap = 0
      /\ ~ copy[d].read_done
  BY <1>1, AtStep DEF Steps
<1>3. ~ woken => ~ finish /\ Signal \in waits
  BY <1>1 DEF Registered, OnTheWay
<1>4. CASE ReadReady(d) /\ GoTo(d, "write") /\ NoWait
  <2>1. UNCHANGED <<out, taken, waits, woken>>
        /\ \A e \in Ends \ {d} : copy'[e] = copy[e] /\ read'[e] = read[e]
    BY <1>1, <1>4, ReadReadyKeeps DEF ReadReady, NoWait
  <2>2. d = "b" /\ ~ woken' => Settled("a")'
    BY <1>1, <2>1, FirstStays DEF Steps
  <2>3. at' = At(d, "write")
    BY <1>4 DEF GoTo
  <2>4. ~ woken' => OnTheWay(d)'
    BY <1>1, <1>3, <2>1, <2>3, AtEqual DEF OnTheWay
  <2>. QED
    BY <2>2, <2>3, <2>4, StepRegisters DEF Steps
<1>5. CASE /\ ReadPending(d)
           /\ at' = IF copy[d].need_flush THEN At(d, "flush") ELSE Leave(d, copy)
           /\ UNCHANGED copy
  <2>1. /\ UNCHANGED <<read, out, taken, woken>> /\ waits' = waits \cup {Readable(d)}
        /\ ReadBlocked(d)'
    BY <1>1, <1>5 DEF ReadPending, ReadBlocked, Wait, streamVars
  <2>2. d = "b" /\ ~ woken' => Settled("a")'
    BY <1>1, <1>5, <2>1, FirstStays DEF Steps
  <2>3. CASE copy[d].need_flush
    <3>1. at' = At(d, "flush")
      BY <1>5, <2>3
    <3>2. ~ woken' => OnTheWay(d)'
      BY <1>1, <1>3, <2>1, <3>1, AtEqual DEF OnTheWay
    <3>. QED
      BY <2>2, <3>1, <3>2, StepRegisters DEF Steps
  <2>4. CASE ~ copy[d].need_flush
    <3>1. at' = Leave(d, copy') /\ copy' \in [Ends -> Transfer]
      BY <1>1, <1>5, <2>4 DEF DataOK
    <3>2. ~ woken' => Settled(d)'
      BY <1>1, <1>2, <1>3, <1>5, <2>1, <2>4 DEF Settled
    <3>. QED
      BY <2>2, <3>1, <3>2, LeaveRegisters
  <2>. QED
    BY <2>3, <2>4
<1>6. CASE Fail
  BY <1>6, FailRegisters DEF Fail
<1>. QED
  BY <1>4, <1>5, <1>6 DEF Fill

\* A flush of direction d that does not finish.
LEMMA FlushPendingRegisters ==
  ASSUME CopyInv, Registered, NEW d \in Ends, NEW s \in Steps, at = At(d, s),
         FlushPending(d), UNCHANGED copy, at' = Leave(d, copy), Env,
         ~ woken => \/ copy[d].state # "running"
                    \/ /\ ~ finish /\ Signal \in waits /\ copy[d].pos = copy[d].cap
                       /\ copy[d].read_done \/ ReadBlocked(d)
  PROVE  Registered'
<1>1. /\ UNCHANGED <<read, out, taken, woken, sent, conn, finish>>
      /\ waits \subseteq waits'
  BY DEF FlushPending, Wait, Env, peerVars
<1>2. d = "b" /\ ~ woken' => Settled("a")'
  BY <1>1, FirstStays
<1>3. at' = Leave(d, copy') /\ copy' \in [Ends -> Transfer]
  BY DEF CopyInv, DataOK
<1>4. copy[d].pos \in Nat /\ copy[d].cap \in Nat
  BY CopyParts DEF CopyInv
<1>5. FlushBlocked(d)'
  BY <1>1 DEF FlushPending, Wait, FlushBlocked, UnderWay, WriteFails
<1>6. ReadBlocked(d) => ReadBlocked(d)'
  BY <1>1 DEF ReadBlocked
<1>7. ~ woken' => Settled(d)'
  BY <1>1, <1>4, <1>5, <1>6 DEF Settled
<1>. QED
  BY <1>2, <1>3, <1>7, LeaveRegisters

LEMMA FlushRegisters ==
  ASSUME CopyInv, Registered, NEW d \in Ends, Flush(d) PROVE Registered'
<1>1. at = At(d, "flush") /\ UNCHANGED <<sent, conn, finish>> /\ DataOK /\ Env
  BY DEF Flush, Env, peerVars, CopyInv
<1>2. /\ copy[d].state = "running" /\ copy[d].pos = copy[d].cap /\ copy[d].pos \in Nat
      /\ ~ copy[d].read_done
  BY <1>1, AtStep, CopyParts DEF Steps
<1>3. ~ woken => ~ finish /\ Signal \in waits /\ ReadBlocked(d)
  BY <1>1 DEF Registered, OnTheWay
<1>4. CASE /\ CanFlush(d)
           /\ Flushed(d)
           /\ copy' = [copy EXCEPT ![d].need_flush = FALSE]
           /\ NoWait
           /\ UNCHANGED <<read, out, taken, closed>>
           /\ at' = Leave(d, copy)
  <2>1. /\ copy' \in [Ends -> Transfer]
        /\ \A e \in Ends : /\ copy'[e].state = copy[e].state
                           /\ copy'[e].pos = copy[e].pos
                           /\ copy'[e].cap = copy[e].cap
                           /\ e # d => copy'[e] = copy[e]
    BY <1>1, <1>4 DEF DataOK, Transfer
  <2>2. at' = Leave(d, copy')
    BY <1>4, <2>1, StateDecidesLeave
  <2>3. d = "b" /\ ~ woken' => Settled("a")'
    BY <1>1, <1>4, <2>1, FirstStays DEF Steps, NoWait
  <2>4. ~ woken' => Settled(d)'
    <3>1. copy'[d].read_done = copy[d].read_done /\ ~ copy'[d].need_flush
      BY <1>1, <1>4 DEF DataOK, Transfer
    <3>. QED
      BY <1>1, <1>2, <1>3, <1>4, <2>1, <3>1 DEF Settled, ReadBlocked, NoWait
  <2>. QED
    BY <2>1, <2>2, <2>3, <2>4, LeaveRegisters
<1>5. CASE FlushPending(d) /\ UNCHANGED copy /\ at' = Leave(d, copy)
  BY <1>1, <1>2, <1>3, <1>5, FlushPendingRegisters DEF Steps
<1>6. CASE Fail
  BY <1>6, FailRegisters DEF Fail
<1>. QED
  BY <1>4, <1>5, <1>6 DEF Flush

LEMMA WriteRegisters ==
  ASSUME CopyInv, Registered, NEW d \in Ends, Write(d) PROVE Registered'
<1>1. at = At(d, "write") /\ UNCHANGED <<sent, conn, finish>> /\ DataOK /\ WorldOK
      /\ copy[d].pos < copy[d].cap /\ copy[d].pos \in Nat /\ copy[d].cap \in Nat
  BY CopyParts DEF Write, Env, peerVars, CopyInv
<1>2. ~ woken => ~ finish /\ Signal \in waits
  BY <1>1 DEF Registered, OnTheWay
<1>3. CASE WriteReady(d) /\ GoTo(d, "write") /\ NoWait
  <2>1. UNCHANGED <<read, taken, waits, woken>>
        /\ \A e \in Ends \ {d} : copy'[e] = copy[e] /\ out'[e] = out[e]
    BY <1>1, <1>3, WriteReadyKeeps DEF WriteReady, NoWait
  <2>2. d = "b" /\ ~ woken' => Settled("a")'
    BY <1>1, <2>1, FirstStays DEF Steps
  <2>3. at' = At(d, "write")
    BY <1>3 DEF GoTo
  <2>4. ~ woken' => OnTheWay(d)'
    BY <1>1, <1>2, <2>1, <2>3, AtEqual DEF OnTheWay
  <2>. QED
    BY <2>2, <2>3, <2>4, StepRegisters DEF Steps
<1>4. CASE /\ WritePending(d)
           /\ at' = IF ~ copy[d].read_done /\ copy[d].cap < BufSize
                    THEN At(d, "topup") ELSE Leave(d, copy)
           /\ UNCHANGED copy
  <2>1. UNCHANGED <<read, out, taken, woken>> /\ waits \subseteq waits'
    BY <1>4 DEF WritePending, Wait, streamVars
  <2>2. WriteBlocked(d)'
    BY <1>1, <1>4, <2>1 DEF WritePending, Wait, WriteBlocked, UnderWay, Room, WriteFails
  <2>3. d = "b" /\ ~ woken' => Settled("a")'
    BY <1>1, <1>4, <2>1, FirstStays DEF Steps
  <2>4. CASE ~ copy[d].read_done /\ copy[d].cap < BufSize
    <3>1. at' = At(d, "topup")
      BY <1>4, <2>4
    <3>2. ~ woken' => OnTheWay(d)'
      BY <1>1, <1>2, <2>1, <2>2, <3>1, AtEqual DEF OnTheWay
    <3>. QED
      BY <2>3, <3>1, <3>2, StepRegisters DEF Steps
  <2>5. CASE ~ (~ copy[d].read_done /\ copy[d].cap < BufSize)
    <3>1. at' = Leave(d, copy') /\ copy' \in [Ends -> Transfer]
      BY <1>1, <1>4, <2>5 DEF DataOK
    <3>2. copy'[d] = copy[d] /\ copy[d].state = "running" /\ copy[d].pos # copy[d].cap
      BY <1>1, <1>4, AtStep DEF Steps
    <3>3. ~ woken' => Settled(d)'
      BY <1>1, <1>2, <1>4, <2>1, <2>2, <3>2 DEF Settled
    <3>. QED
      BY <2>3, <3>1, <3>3, LeaveRegisters
  <2>. QED
    BY <2>4, <2>5
<1>5. CASE Fail
  BY <1>5, FailRegisters DEF Fail
<1>. QED
  BY <1>3, <1>4, <1>5 DEF Write

LEMMA TopUpRegisters ==
  ASSUME CopyInv, Registered, NEW d \in Ends, TopUp(d) PROVE Registered'
<1>1. at = At(d, "topup") /\ UNCHANGED <<sent, conn, finish>> /\ DataOK /\ WorldOK
      /\ copy[d].pos \in Nat /\ copy[d].cap \in Nat
  BY CopyParts DEF TopUp, Env, peerVars, CopyInv
<1>2. copy[d].pos < copy[d].cap /\ copy[d].state = "running"
  BY <1>1, AtStep DEF Steps
<1>3. ~ woken => ~ finish /\ Signal \in waits /\ WriteBlocked(d)
  BY <1>1 DEF Registered, OnTheWay
<1>4. CASE ReadReady(d) /\ at' = Leave(d, copy) /\ NoWait
  <2>1. /\ UNCHANGED <<out, taken, waits, woken>>
        /\ \A e \in Ends \ {d} : copy'[e] = copy[e] /\ read'[e] = read[e]
        /\ \A e \in Ends : copy'[e].state = copy[e].state
        /\ copy'[d].pos = copy[d].pos /\ copy'[d].cap >= copy[d].cap /\ DataOK'
    BY <1>1, <1>4, ReadReadyKeeps DEF ReadReady, NoWait
  <2>2. d = "b" /\ ~ woken' => Settled("a")'
    BY <1>1, <2>1, FirstStays DEF Steps
  <2>3. at' = Leave(d, copy') /\ copy' \in [Ends -> Transfer]
    BY <1>4, <2>1, StateDecidesLeave DEF DataOK
  <2>4. copy'[d].pos < copy'[d].cap
    <3>1. copy'[d].cap \in Nat
      BY <2>1, BufSizeAssumption DEF DataOK, Transfer
    <3>. QED
      BY <1>1, <1>2, <2>1, <3>1
  <2>5. copy'[d].pos # copy'[d].cap
    <3>1. copy'[d].cap \in Nat /\ copy'[d].pos \in Nat
      BY <2>1, BufSizeAssumption DEF DataOK, Transfer
    <3>. QED
      BY <2>4, <3>1
  <2>6. ~ woken' => Settled(d)'
    BY <1>1, <1>2, <1>3, <2>1, <2>5 DEF Settled, WriteBlocked, UnderWay, Room, WriteFails
  <2>. QED
    BY <2>2, <2>3, <2>6, LeaveRegisters
<1>5. CASE ReadPending(d) /\ at' = Leave(d, copy) /\ UNCHANGED copy
  <2>1. UNCHANGED <<read, out, taken, woken>> /\ waits \subseteq waits'
    BY <1>5 DEF ReadPending, Wait, streamVars
  <2>2. d = "b" /\ ~ woken' => Settled("a")'
    BY <1>1, <1>5, <2>1, FirstStays DEF Steps
  <2>3. at' = Leave(d, copy') /\ copy' \in [Ends -> Transfer]
    BY <1>1, <1>5 DEF DataOK
  <2>4. ~ woken' => Settled(d)'
    BY <1>1, <1>2, <1>3, <1>5, <2>1 DEF Settled, WriteBlocked, UnderWay, Room, WriteFails
  <2>. QED
    BY <2>2, <2>3, <2>4, LeaveRegisters
<1>6. CASE Fail
  BY <1>6, FailRegisters DEF Fail
<1>. QED
  BY <1>4, <1>5, <1>6 DEF TopUp

LEMMA WrittenRegisters ==
  ASSUME CopyInv, Registered, NEW d \in Ends, Written(d) PROVE Registered'
<1>1. at = At(d, "write") /\ UNCHANGED <<sent, conn, finish, streamVars, copy, waits, woken>>
  BY DEF Written, Env, peerVars, NoWait
<1>2. d = "b" /\ ~ woken' => Settled("a")'
  BY <1>1, FirstStays DEF Steps, streamVars
<1>3. ~ woken => ~ finish /\ Signal \in waits
  BY <1>1 DEF Registered, OnTheWay
<1>4. at' = At(d, "lastflush") \/ at' = At(d, "finish")
  BY DEF Written, GoTo
<1>5. ~ woken' => OnTheWay(d)'
  BY <1>1, <1>3, <1>4, AtEqual DEF OnTheWay
<1>. QED
  BY <1>2, <1>4, <1>5, StepRegisters DEF Steps

LEMMA LastFlushRegisters ==
  ASSUME CopyInv, Registered, NEW d \in Ends, LastFlush(d) PROVE Registered'
<1>1. at = At(d, "lastflush") /\ UNCHANGED <<sent, conn, finish>> /\ DataOK /\ Env
  BY DEF LastFlush, Env, peerVars, CopyInv
<1>2. copy[d].pos = copy[d].cap /\ copy[d].read_done
  BY <1>1, AtStep DEF Steps
<1>3. ~ woken => ~ finish /\ Signal \in waits
  BY <1>1 DEF Registered, OnTheWay
<1>4. CASE /\ CanFlush(d)
           /\ Flushed(d)
           /\ copy' = [copy EXCEPT ![d].state = "shutting"]
           /\ GoTo(d, "shutdown")
           /\ NoWait
           /\ UNCHANGED <<read, out, taken, closed>>
  <2>1. at' = At(d, "shutdown") /\ \A e \in Ends \ {d} : copy'[e] = copy[e]
    BY <1>1, <1>4 DEF GoTo, DataOK
  <2>2. d = "b" /\ ~ woken' => Settled("a")'
    BY <1>1, <1>4, <2>1, FirstStays DEF Steps, NoWait
  <2>3. OnTheWay(d)'
    BY <2>1, AtEqual DEF OnTheWay
  <2>. QED
    BY <2>1, <2>2, <2>3, StepRegisters DEF Steps
<1>5. CASE FlushPending(d) /\ UNCHANGED copy /\ at' = Leave(d, copy)
  BY <1>1, <1>2, <1>3, <1>5, FlushPendingRegisters DEF Steps
<1>6. CASE Fail
  BY <1>6, FailRegisters DEF Fail
<1>. QED
  BY <1>4, <1>5, <1>6 DEF LastFlush

LEMMA ShutdownRegisters ==
  ASSUME CopyInv, Registered, NEW d \in Ends, Shutdown(d) PROVE Registered'
<1>1. at = At(d, "shutdown") /\ UNCHANGED <<sent, conn, finish>> /\ DataOK /\ Env
  BY DEF Shutdown, Env, peerVars, CopyInv
<1>2. copy[d].state = "shutting"
  BY <1>1, AtStep DEF Steps
<1>3. CASE /\ CanFlush(d)
           /\ Flushed(d)
           /\ closed' = [closed EXCEPT ![d] = TRUE]
           /\ copy' = [copy EXCEPT ![d].state = "done"]
           /\ at' = Leave(d, copy')
           /\ NoWait
           /\ UNCHANGED <<read, out, taken>>
  <2>1. /\ copy' \in [Ends -> Transfer] /\ copy'[d].state = "done"
        /\ \A e \in Ends \ {d} : copy'[e] = copy[e]
    BY <1>1, <1>3 DEF DataOK, Transfer
  <2>2. d = "b" /\ ~ woken' => Settled("a")'
    BY <1>1, <1>3, <2>1, FirstStays DEF Steps, NoWait
  <2>3. Settled(d)'
    BY <2>1 DEF Settled
  <2>. QED
    BY <1>3, <2>1, <2>2, <2>3, LeaveRegisters
<1>4. CASE FlushPending(d) /\ UNCHANGED copy /\ at' = Leave(d, copy)
  BY <1>1, <1>2, <1>4, FlushPendingRegisters DEF Steps
<1>5. CASE Fail
  BY <1>5, FailRegisters DEF Fail
<1>. QED
  BY <1>3, <1>4, <1>5 DEF Shutdown

-----------------------------------------------------------------------------
LEMMA RegisteredStep ==
  ASSUME CopyInv, Registered, [Next]_vars PROVE Registered'
<1>1. CASE Poll
  BY <1>1, PollRegisters
<1>2. ASSUME NEW d \in Ends, Direction(d) PROVE Registered'
  BY <1>2, PollFinishRegisters, FillRegisters, FlushRegisters, WriteRegisters,
     TopUpRegisters, WrittenRegisters, LastFlushRegisters, ShutdownRegisters
     DEF Direction
<1>3. CASE CloseTunnel
  BY <1>3, CloseTunnelRegisters
<1>4. ASSUME NEW e \in Ends, Peer(e) PROVE Registered'
  BY <1>4, PeerRegisters
<1>5. CASE UNCHANGED vars
  BY <1>5, RegisteredStays DEF vars, WriteFails
<1>. QED
  BY <1>1, <1>2, <1>3, <1>4, <1>5 DEF Next, Task

LEMMA RegisteredIsSafe ==
  ASSUME Registered PROVE NoLostWakeup
BY DEF Registered, NoLostWakeup, Ends

\* The future never sleeps through what it could go on with: whenever it waits
\* and was not woken, each direction is blocked, in a read, a write, a flush or
\* its shutdown, and the waker is registered with what would unblock it, and
\* with the closing of the tunnel while the direction runs.
THEOREM WakesUp == Spec => []NoLostWakeup
<1>1. Init => Registered
  BY DEF Init, Registered
<1>2. CopyInv /\ Registered /\ [Next]_vars => Registered'
  BY RegisteredStep
<1>. QED
  BY <1>1, <1>2, CopyInvAlways, RegisteredIsSafe, PTL DEF Spec

-----------------------------------------------------------------------------
=============================================================================
