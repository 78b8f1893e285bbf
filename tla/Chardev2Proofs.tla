--------------------------- MODULE Chardev2Proofs ---------------------------
(***************************************************************************)
(* Proofs about chardev2.c and its program (Ioctl, an instance of Chardev2 *)
(* in MCDevices), for any number of processes, any texts and any size of   *)
(* the buffer: no loop over the message that begins in the buffer leaves   *)
(* it, and an ioctl that gets the message gets the last one that an ioctl  *)
(* has set.                                                                *)
(***************************************************************************)
EXTENDS MCDevices, SequenceTheorems, TLAPS

USE DEF Ioctl!devVars, Ioctl!procVars, Ioctl!Goto, Ioctl!Index

-----------------------------------------------------------------------------
(* Operators.                                                              *)

\* The characters of a text, and the NUL behind it.
LEMMA ByteType ==
    ASSUME NEW t \in Seq(Chars), NEW n \in Nat
    PROVE  Ioctl!Byte(t, n) \in Chars \union {0}
BY DEF Ioctl!Byte

\* A text cut to the buffer.
LEMMA CutProperties ==
    ASSUME NEW t \in Seq(Chars)
    PROVE  /\ Ioctl!Cut(t) \in Seq(Chars)
           /\ Len(Ioctl!Cut(t)) = IF Len(t) < BUF_LEN THEN Len(t) ELSE BUF_LEN
           /\ \A n \in 1 .. Len(Ioctl!Cut(t)) : Ioctl!Cut(t)[n] = t[n]
<1> DEFINE m == IF Len(t) < BUF_LEN THEN Len(t) ELSE BUF_LEN
<1>1. m \in Nat /\ m <= Len(t) /\ Ioctl!Cut(t) = SubSeq(t, 1, m)
  BY BufLenAssumption DEF Ioctl!Cut
<1>2. \A n \in 1 .. m : t[n] \in Chars
  BY <1>1
<1> HIDE DEF m
<1>3. /\ SubSeq(t, 1, m) \in Seq(Chars)
      /\ Len(SubSeq(t, 1, m)) = IF 1 <= m THEN m - 1 + 1 ELSE 0
      /\ \A n \in 1 .. m - 1 + 1 : SubSeq(t, 1, m)[n] = t[1 + n - 1]
  BY <1>1, <1>2, SubSeqProperties
<1>4. Len(SubSeq(t, 1, m)) = m /\ \A n \in 1 .. m : SubSeq(t, 1, m)[n] = t[n]
  BY <1>1, <1>3
<1> QED BY <1>1, <1>3, <1>4 DEF m

\* A write never goes to the last byte of the buffer.
LEMMA LimitBound ==
    ASSUME NEW n \in Nat
    PROVE  Ioctl!Limit(n) \in 0 .. BUF_LEN
BY BufLenAssumption DEF Ioctl!Limit

\* So does the length that IOCTL_SET_MSG counts.
LEMMA SetLengthBound ==
    ASSUME NEW t \in Seq(Chars)
    PROVE  /\ Ioctl!SetLength(t) \in 0 .. BUF_LEN
           /\ Ioctl!Limit(Ioctl!SetLength(t)) = Ioctl!SetLength(t)
           /\ t # <<>> => Ioctl!SetLength(t) = Ioctl!Limit(Len(t) + 1)
BY BufLenAssumption DEF Ioctl!Limit, Ioctl!SetLength

\* A buffer of characters that grows by one.
LEMMA BufGrows ==
    ASSUME NEW U, NEW S, NEW f \in [U -> Seq(S)], NEW p \in U, NEW c \in S
    PROVE  /\ [f EXCEPT ![p] = Append(@, c)] \in [U -> Seq(S)]
           /\ Len([f EXCEPT ![p] = Append(@, c)][p]) = Len(f[p]) + 1
           /\ [f EXCEPT ![p] = Append(@, c)][p][Len(f[p]) + 1] = c
           /\ \A n \in 1 .. Len(f[p]) :
                [f EXCEPT ![p] = Append(@, c)][p][n] = f[p][n]
<1>1. f[p] \in Seq(S)
  OBVIOUS
<1>2. /\ Append(f[p], c) \in Seq(S)
      /\ Len(Append(f[p], c)) = Len(f[p]) + 1
      /\ Append(f[p], c)[Len(f[p]) + 1] = c
      /\ \A n \in 1 .. Len(f[p]) : Append(f[p], c)[n] = f[p][n]
  BY <1>1, AppendProperties
<1>3. [f EXCEPT ![p] = Append(@, c)][p] = Append(f[p], c)
  OBVIOUS
<1> HIDE <1>1
<1> QED BY <1>2, <1>3, Zenon

\* The texts of the processes are sequences of characters.
LEMMA TextType ==
    ASSUME Ioctl!TypeOK, NEW p \in Ioctl!Users
    PROVE  text[p] \in Seq(Chars) /\ Len(text[p]) \in Nat
<1>1. text[p] \in Texts \/ text[p] = <<>>
  BY DEF Ioctl!TypeOK
<1>2. \A t \in Texts : t \in Seq(Chars)
  BY TextsAssumption
<1>3. <<>> \in Seq(Chars)
  BY EmptySeq
<1>4. text[p] \in Seq(Chars)
  BY <1>1, <1>2, <1>3, Zenon
<1> QED BY <1>4, LenProperties

-----------------------------------------------------------------------------
(* Types, and the loops over the message.                                  *)

LoopInv == Ioctl!TypeOK /\ Ioctl!LoopsStayInBuffer

\* The first states satisfy the invariant.
LEMMA LoopInit == Ioctl!Init => LoopInv
<1> SUFFICES ASSUME Ioctl!Init PROVE LoopInv
  OBVIOUS
<1>1. party \subseteq Ioctl!Users
  BY PartiesAssumption DEF Ioctl!Init, Ioctl!Users
<1> QED BY <1>1, BufLenAssumption
        DEF Ioctl!Init, LoopInv, Ioctl!TypeOK, Ioctl!LoopsStayInBuffer,
            Ioctl!Locations, Ioctl!InIoctl

\* A process that ends a call, or the program.
LEMMA ReturnKeepsLoopInv ==
    ASSUME LoopInv, NEW p \in Ioctl!Users, Ioctl!Returned(p),
           cpc' = [cpc EXCEPT ![p] = "idle"], busy' \in {0, 1},
           UNCHANGED <<party, message, current>>,
           \/ UNCHANGED position
           \/ p \in Raw /\ i[p] <= BUF_LEN /\ position' = [position EXCEPT ![p] = i[p]]
    PROVE  LoopInv'
<1>1. <<>> \in Seq(Chars \union {0})
  BY EmptySeq
<1>2. /\ text' \in [Ioctl!Users -> Texts \union {<<>>}]
      /\ i' \in [Ioctl!Users -> Nat]
      /\ i'[p] = 0 /\ \A q \in Ioctl!Users : q # p => i'[q] = i[q]
  BY DEF Ioctl!Returned, LoopInv, Ioctl!TypeOK
<1>3. buf' \in [Ioctl!Users -> Seq(Chars \union {0})]
  BY <1>1 DEF Ioctl!Returned, LoopInv, Ioctl!TypeOK
<1>4. position' \in [Raw -> Nat] /\ \A q \in Raw : position'[q] <= BUF_LEN
  BY DEF LoopInv, Ioctl!TypeOK, Ioctl!LoopsStayInBuffer
<1>5. Ioctl!TypeOK'
  BY <1>2, <1>3, <1>4 DEF LoopInv, Ioctl!TypeOK, Ioctl!Locations
<1>6. Ioctl!LoopsStayInBuffer'
  BY <1>2, <1>4 DEF LoopInv, Ioctl!TypeOK, Ioctl!LoopsStayInBuffer
<1> QED BY <1>5, <1>6 DEF LoopInv

\* A round of the loop of device_write.
LEMMA WriteByteKeepsLoopInv ==
    ASSUME LoopInv, NEW p \in Ioctl!Users, NEW length \in Nat,
           NEW loc \in {"set_write", "write"}, NEW after \in {"set_done", "idle"},
           Ioctl!WriteByte(p, loc, length, after), UNCHANGED <<party, position>>
    PROVE  LoopInv'
<1>1. CASE i[p] < Ioctl!Limit(length)
  <2>1. i[p] \in 0 .. BUF_LEN - 1
    BY <1>1, LimitBound, BufLenAssumption DEF LoopInv, Ioctl!TypeOK
  <2>2. text[p] \in Seq(Chars) /\ Len(text[p]) \in Nat
    BY TextType DEF LoopInv
  <2>3. Ioctl!Byte(text[p], i[p]) \in Chars \union {0}
    BY <2>1, <2>2, ByteType
  <2>4. message \in [0 .. BUF_LEN -> Chars \union {0}]
    BY DEF LoopInv, Ioctl!TypeOK
  <2>5. /\ message' = [message EXCEPT ![i[p]] = Ioctl!Byte(text[p], i[p])]
        /\ i' = [i EXCEPT ![p] = i[p] + 1]
        /\ cpc[p] = loc
        /\ UNCHANGED <<cpc, busy, current, text, buf, party, position>>
    BY <1>1 DEF Ioctl!WriteByte
  <2>6. /\ message' \in [0 .. BUF_LEN -> Chars \union {0}]
        /\ message'[BUF_LEN] = message[BUF_LEN]
    <3> DEFINE k == i[p]
               c == Ioctl!Byte(text[p], i[p])
    <3>1. /\ k \in 0 .. BUF_LEN - 1 /\ c \in Chars \union {0}
          /\ message' = [message EXCEPT ![k] = c]
      BY <2>1, <2>3, <2>5
    <3> HIDE DEF k, c
    <3>2. message' \in [0 .. BUF_LEN -> Chars \union {0}]
      BY <2>4, <3>1
    <3>3. BUF_LEN # k /\ BUF_LEN \in 0 .. BUF_LEN
      BY <3>1, BufLenAssumption
    <3> QED BY <2>4, <3>1, <3>2, <3>3
  <2>7. Ioctl!TypeOK'
    BY <2>5, <2>6 DEF LoopInv, Ioctl!TypeOK
  <2>8. Ioctl!LoopsStayInBuffer'
    BY <2>5, <2>6 DEF LoopInv, Ioctl!LoopsStayInBuffer, Ioctl!TypeOK
  <2> QED BY <2>7, <2>8 DEF LoopInv
<1>2. CASE ~(i[p] < Ioctl!Limit(length))
  <2>1. CASE after = "idle"
    BY <1>2, <2>1, ReturnKeepsLoopInv DEF Ioctl!WriteByte, LoopInv, Ioctl!TypeOK
  <2>2. CASE after # "idle"
    BY <1>2, <2>2, ZenonT(60) DEF LoopInv, Ioctl!TypeOK, Ioctl!LoopsStayInBuffer,
                      Ioctl!WriteByte, Ioctl!Locations, Ioctl!InIoctl
  <2> QED BY <2>1, <2>2
<1> QED BY <1>1, <1>2

\* A round of the loop of device_read.
LEMMA ReadByteKeepsLoopInv ==
    ASSUME LoopInv, NEW p \in Ioctl!Users,
           NEW loc \in {"get_read", "read", "pread"}, NEW after \in {"get_done", "idle"},
           Ioctl!ReadByte(p, loc, after), UNCHANGED party,
           \/ UNCHANGED position
           \/ p \in Raw /\ position' = [position EXCEPT ![p] = i[p]]
    PROVE  LoopInv'
<1>1. /\ cpc[p] = loc
      /\ i[p] \in 0 .. BUF_LEN
      /\ message[i[p]] \in Chars \union {0}
      /\ message[i[p]] # 0 => i[p] < BUF_LEN
  BY BufLenAssumption
  DEF LoopInv, Ioctl!TypeOK, Ioctl!LoopsStayInBuffer, Ioctl!ReadByte
<1>2. CASE message[i[p]] # 0
  <2>1. buf \in [Ioctl!Users -> Seq(Chars \union {0})]
    BY DEF LoopInv, Ioctl!TypeOK
  <2>2. /\ buf' = [buf EXCEPT ![p] = Append(@, message[i[p]])]
        /\ i' = [i EXCEPT ![p] = i[p] + 1]
        /\ UNCHANGED <<cpc, message, busy, current, text, party>>
    BY <1>2 DEF Ioctl!ReadByte
  <2>3. buf' \in [Ioctl!Users -> Seq(Chars \union {0})]
    BY <1>1, <2>1, <2>2, BufGrows
  <2>4. Ioctl!TypeOK'
    BY <1>1, <2>2, <2>3 DEF LoopInv, Ioctl!TypeOK
  <2>5. Ioctl!LoopsStayInBuffer'
    <3>1. \A q \in Ioctl!Users : i'[q] = i[q] \/ i'[q] <= BUF_LEN
      BY <1>1, <1>2, <2>2, BufLenAssumption DEF LoopInv, Ioctl!TypeOK
    <3>2. \A q \in Raw : position'[q] <= BUF_LEN
      BY <1>1, BufLenAssumption DEF LoopInv, Ioctl!TypeOK, Ioctl!LoopsStayInBuffer
    <3> QED BY <2>2, <3>1, <3>2 DEF LoopInv, Ioctl!LoopsStayInBuffer
  <2> QED BY <2>4, <2>5 DEF LoopInv
<1>3. CASE message[i[p]] = 0
  <2>1. /\ cpc' = [cpc EXCEPT ![p] = after]
        /\ UNCHANGED <<message, busy, current>>
        /\ IF after = "idle" THEN Ioctl!Returned(p) ELSE UNCHANGED <<text, i, buf>>
    BY <1>3 DEF Ioctl!ReadByte
  <2>2. CASE after = "idle"
    <3>1. busy' \in {0, 1} /\ i[p] <= BUF_LEN
      BY <1>1, <2>1 DEF LoopInv, Ioctl!TypeOK
    <3>2. cpc' = [cpc EXCEPT ![p] = "idle"] /\ Ioctl!Returned(p)
      BY <2>1, <2>2
    <3> QED BY <2>1, <3>1, <3>2, ReturnKeepsLoopInv
  <2>3. CASE after # "idle"
    BY <1>1, <2>1, <2>3
    DEF LoopInv, Ioctl!TypeOK, Ioctl!LoopsStayInBuffer, Ioctl!Locations,
        Ioctl!InIoctl
  <2> QED BY <2>2, <2>3
<1> QED BY <1>2, <1>3

\* Every step keeps the invariant.
LEMMA LoopStep == LoopInv /\ [Ioctl!Next]_Ioctl!vars => LoopInv'
<1> SUFFICES ASSUME LoopInv, [Ioctl!Next]_Ioctl!vars PROVE LoopInv'
  OBVIOUS
<1>1. ASSUME NEW p \in Programs \intersect party, Ioctl!Start(p) PROVE LoopInv'
  BY <1>1 DEF Ioctl!Start, LoopInv, Ioctl!TypeOK, Ioctl!LoopsStayInBuffer,
              Ioctl!Locations, Ioctl!Users
<1>2. ASSUME NEW p \in Programs \intersect party, Ioctl!Program(p)
      PROVE  LoopInv'
  <2>1. p \in Ioctl!Users /\ UNCHANGED <<party, position>>
    BY <1>2 DEF Ioctl!Program, Ioctl!Users
  <2> USE DEF LoopInv, Ioctl!TypeOK, Ioctl!LoopsStayInBuffer, Ioctl!Locations,
              Ioctl!InIoctl
  <2>2. CASE Ioctl!SetMsg(p)
    BY <2>1, <2>2, BufLenAssumption DEF Ioctl!SetMsg, Ioctl!Enter
  <2>3. CASE Ioctl!SetMsgWrite(p)
    <3>1. Ioctl!SetLength(text[p]) \in Nat
      BY <2>1, TextType, SetLengthBound, BufLenAssumption
    <3> QED BY <2>1, <2>3, <3>1, WriteByteKeepsLoopInv DEF Ioctl!SetMsgWrite
  <2>4. CASE Ioctl!SetMsgDone(p)
    <3>1. Ioctl!Cut(text[p]) \in Seq(Chars)
      BY <2>1, TextType, CutProperties
    <3> QED BY <2>1, <2>4, <3>1, BufLenAssumption
            DEF Ioctl!SetMsgDone, Ioctl!Leave
  <2>5. CASE Ioctl!GetNthByte(p)
    BY <2>1, <2>5 DEF Ioctl!GetNthByte, Ioctl!Enter
  <2>6. CASE Ioctl!GetNthByteDone(p)
    <3>1. /\ i[p] \in 0 .. BUF_LEN
          /\ message[i[p]] \in Chars \union {0}
          /\ message[i[p]] # 0 => i[p] < BUF_LEN
      BY <2>1, <2>6, BufLenAssumption DEF Ioctl!GetNthByteDone
    <3>2. buf \in [Ioctl!Users -> Seq(Chars \union {0})]
      OBVIOUS
    <3>3. PICK to \in {"failed", "get", "nth"} :
            /\ to = "nth" => message[i[p]] # 0
            /\ cpc' = [cpc EXCEPT ![p] = to]
            /\ busy' = 0
            /\ buf' = [buf EXCEPT ![p] = Append(@, message[i[p]])]
            /\ i' = [i EXCEPT ![p] = i[p] + 1]
            /\ UNCHANGED <<message, current, text>>
      BY <2>6 DEF Ioctl!GetNthByteDone, Ioctl!Leave
    <3> HIDE DEF Ioctl!TypeOK, LoopInv, Ioctl!LoopsStayInBuffer
    <3>4. buf' \in [Ioctl!Users -> Seq(Chars \union {0})]
      BY <2>1, <3>1, <3>2, <3>3, BufGrows
    <3>5. Ioctl!TypeOK'
      BY <2>1, <3>1, <3>3, <3>4 DEF LoopInv, Ioctl!TypeOK
    <3>6. Ioctl!LoopsStayInBuffer'
      <4>1. \A q \in Ioctl!Users \ {p} : i'[q] = i[q] /\ cpc'[q] = cpc[q]
        BY <2>1, <3>3 DEF LoopInv, Ioctl!TypeOK
      <4>2. cpc'[p] = to /\ i'[p] = i[p] + 1
        BY <2>1, <3>3 DEF LoopInv, Ioctl!TypeOK
      <4> QED BY <2>1, <3>1, <3>3, <4>1, <4>2, BufLenAssumption
              DEF LoopInv, Ioctl!LoopsStayInBuffer
    <3> QED BY <3>5, <3>6 DEF LoopInv
  <2>7. CASE Ioctl!GetMsg(p)
    <3>1. buf' \in [Ioctl!Users -> Seq(Chars \union {0})]
      BY <2>1, <2>7 DEF Ioctl!GetMsg
    <3>2. i' = [i EXCEPT ![p] = 0] /\ UNCHANGED <<message, current, text>>
      BY <2>7 DEF Ioctl!GetMsg, Ioctl!Enter
    <3>3. PICK to \in {"get_read", "failed"} : cpc' = [cpc EXCEPT ![p] = to]
      BY <2>7 DEF Ioctl!GetMsg, Ioctl!Enter
    <3>4. busy' \in {0, 1}
      BY <2>7 DEF Ioctl!GetMsg, Ioctl!Enter
    <3> QED BY <2>1, <3>1, <3>2, <3>3, <3>4, BufLenAssumption
  <2>8. CASE Ioctl!GetMsgRead(p)
    BY <2>1, <2>8, ReadByteKeepsLoopInv DEF Ioctl!GetMsgRead
  <2>9. CASE Ioctl!GetMsgDone(p)
    BY <2>1, <2>9, ReturnKeepsLoopInv DEF Ioctl!GetMsgDone, Ioctl!Leave
  <2>10. CASE Ioctl!Exit(p)
    BY <2>1, <2>10, ReturnKeepsLoopInv DEF Ioctl!Exit
  <2> QED BY <1>2, <2>2, <2>3, <2>4, <2>5, <2>6, <2>7, <2>8, <2>9, <2>10
          DEF Ioctl!Program
<1>3. ASSUME NEW p \in Raw \intersect party, Ioctl!RawStep(p) PROVE LoopInv'
  <2>1. p \in Ioctl!Users /\ UNCHANGED party
    BY <1>3 DEF Ioctl!RawStep, Ioctl!Users
  <2> USE DEF LoopInv, Ioctl!TypeOK, Ioctl!LoopsStayInBuffer, Ioctl!Locations,
              Ioctl!InIoctl
  <2>2. CASE Ioctl!Write(p)
    BY <2>1, <2>2 DEF Ioctl!Write
  <2>3. CASE Ioctl!device_write(p)
    <3>1. Len(text[p]) \in Nat
      BY <2>1, TextType
    <3> QED BY <2>1, <2>3, <3>1, WriteByteKeepsLoopInv DEF Ioctl!device_write
  <2>4. CASE Ioctl!ReadEnd(p)
    BY <2>1, <2>4, BufLenAssumption DEF Ioctl!ReadEnd
  <2>5. CASE Ioctl!Read(p)
    BY <2>1, <2>5, BufLenAssumption DEF Ioctl!Read
  <2>6. CASE Ioctl!ReadCopies(p)
    <3>1. UNCHANGED position \/ position' = [position EXCEPT ![p] = i[p]]
      BY <2>6 DEF Ioctl!ReadCopies
    <3> QED BY <2>1, <2>6, <3>1, ReadByteKeepsLoopInv DEF Ioctl!ReadCopies
  <2>7. CASE Ioctl!ReadFull(p)
    BY <2>1, <2>7, ReturnKeepsLoopInv DEF Ioctl!ReadFull
  <2>8. ASSUME NEW pos \in Positions, Ioctl!Pread(p, pos) PROVE LoopInv'
    BY <2>1, <2>8, PositionsAssumption, BufLenAssumption DEF Ioctl!Pread
  <2>9. CASE Ioctl!PreadCopies(p)
    <3>1. CASE Ioctl!ReadByte(p, "pread", "idle")
      BY <2>1, <2>9, <3>1, ReadByteKeepsLoopInv DEF Ioctl!PreadCopies
    <3>2. CASE ~Ioctl!ReadByte(p, "pread", "idle")
      BY <2>1, <2>9, <3>2, ReturnKeepsLoopInv DEF Ioctl!PreadCopies
    <3> QED BY <3>1, <3>2
  <2>10. ASSUME NEW n \in Positions, Ioctl!AskByte(p, n) PROVE LoopInv'
    <3>1. PICK to \in {"asked", "failed"} : cpc' = [cpc EXCEPT ![p] = to]
      BY <2>10 DEF Ioctl!AskByte, Ioctl!Enter
    <3>2. busy' \in {0, 1} /\ i' = [i EXCEPT ![p] = n] /\ n \in Nat
      BY <2>10, PositionsAssumption DEF Ioctl!AskByte, Ioctl!Enter
    <3>3. UNCHANGED <<message, current, text, buf, position>>
      BY <2>10 DEF Ioctl!AskByte, Ioctl!Enter
    <3> QED BY <2>1, <3>1, <3>2, <3>3
  <2>11. CASE Ioctl!AskByteDone(p)
    BY <2>1, <2>11, ReturnKeepsLoopInv DEF Ioctl!AskByteDone, Ioctl!Leave
  <2>12. CASE Ioctl!Exit(p) /\ UNCHANGED position
    BY <2>1, <2>12, ReturnKeepsLoopInv DEF Ioctl!Exit
  <2> QED BY <1>3, <2>2, <2>3, <2>4, <2>5, <2>6, <2>7, <2>8, <2>9, <2>10,
             <2>11, <2>12
          DEF Ioctl!RawStep, Ioctl!device_read
<1>4. CASE UNCHANGED Ioctl!vars
  BY <1>4 DEF Ioctl!vars, LoopInv, Ioctl!TypeOK, Ioctl!LoopsStayInBuffer
<1> QED BY <1>1, <1>2, <1>3, <1>4 DEF Ioctl!Next

\* The loops of device_read and of the program over the bytes of the message
\* that begin in the buffer stay there, however many processes write to it at
\* the same time, and although read and write take no lock; read(2) always
\* begins there.  (Where pread(2) and IOCTL_GET_NTH_BYTE begin, the caller
\* says, and chardev2.c:68 and 168 do not look.)
THEOREM LoopsStayInBufferHolds == Ioctl!Spec => []Ioctl!LoopsStayInBuffer
<1>1. LoopInv => Ioctl!LoopsStayInBuffer
  BY DEF LoopInv
<1> QED BY <1>1, LoopInit, LoopStep, PTL DEF Ioctl!Spec

-----------------------------------------------------------------------------
(* The ioctls, when nobody uses read and write.                            *)

Setting == {"set_write", "set_done"}

\* The buffer m holds the text t and its NUL.
Holds(m, t) ==
    /\ Len(t) <= BUF_LEN
    /\ \A n \in 0 .. Len(t) - 1 : m[n] = t[n + 1]
    /\ m[Len(t)] = 0

\* The compare-and-swap lets one process at a time into the ioctls.
OneInside ==
    \A p, q \in Ioctl!Users :
        cpc[p] \in Ioctl!InIoctl =>
            busy = 1 /\ (cpc[q] \in Ioctl!InIoctl => p = q)

\* A program that sets a message sets one that is not empty.
TextsAreSet ==
    \A p \in Ioctl!Users :
        cpc[p] \in {"set"} \union Setting => text[p] # <<>>

\* Unless it is being set, the buffer holds the last message.
HoldsCurrent ==
    (\A p \in Ioctl!Users : cpc[p] \notin Setting) => Holds(message, current)

\* While it is set, it holds the beginning of the text that is set.
HoldsBeginning ==
    \A p \in Ioctl!Users :
        cpc[p] \in Setting =>
            /\ i[p] <= Ioctl!SetLength(text[p])
            /\ cpc[p] = "set_done" => i[p] = Ioctl!SetLength(text[p])
            /\ \A n \in 0 .. i[p] - 1 : message[n] = Ioctl!Byte(text[p], n)

\* What a program has got is the beginning of the message, and then all.
GotBeginning ==
    \A p \in Ioctl!Users :
        cpc[p] \in {"get_read", "get_done"} =>
            /\ Len(buf[p]) = i[p]
            /\ i[p] <= Len(current)
            /\ \A n \in 1 .. i[p] : buf[p][n] = current[n]
            /\ cpc[p] = "get_done" => i[p] = Len(current)

IoctlInv ==
    party \subseteq Programs =>
        OneInside /\ TextsAreSet /\ HoldsCurrent /\ HoldsBeginning /\ GotBeginning

\* When all bytes that IOCTL_SET_MSG counts are copied, the buffer holds the
\* text, cut to the buffer.
LEMMA SetHolds ==
    ASSUME NEW t \in Seq(Chars), t # <<>>, NEW m, m[BUF_LEN] = 0,
           \A n \in 0 .. Ioctl!SetLength(t) - 1 : m[n] = Ioctl!Byte(t, n)
    PROVE  Holds(m, Ioctl!Cut(t))
<1>1. Len(t) \in Nat /\ BUF_LEN \in Nat /\ BUF_LEN > 0
  BY BufLenAssumption
<1>2. /\ Len(Ioctl!Cut(t)) = IF Len(t) < BUF_LEN THEN Len(t) ELSE BUF_LEN
      /\ \A n \in 1 .. Len(Ioctl!Cut(t)) : Ioctl!Cut(t)[n] = t[n]
  BY CutProperties
<1>3. Ioctl!SetLength(t) = IF Len(t) < BUF_LEN THEN Len(t) + 1 ELSE BUF_LEN
  BY <1>1 DEF Ioctl!SetLength, Ioctl!Limit
<1>4. \A n \in 0 .. Len(Ioctl!Cut(t)) - 1 : m[n] = Ioctl!Cut(t)[n + 1]
  <2> TAKE n \in 0 .. Len(Ioctl!Cut(t)) - 1
  <2>1. n \in 0 .. Ioctl!SetLength(t) - 1 /\ n < Len(t)
    BY <1>1, <1>2, <1>3
  <2>2. m[n] = t[n + 1]
    BY <2>1 DEF Ioctl!Byte
  <2>3. n + 1 \in 1 .. Len(Ioctl!Cut(t))
    BY <1>1, <1>2
  <2> QED BY <1>2, <2>2, <2>3
<1>5. m[Len(Ioctl!Cut(t))] = 0
  <2>1. CASE Len(t) < BUF_LEN
    <3>1. Len(Ioctl!Cut(t)) = Len(t) /\ Len(t) \in 0 .. Ioctl!SetLength(t) - 1
      BY <1>1, <1>2, <1>3, <2>1
    <3> QED BY <1>1, <3>1 DEF Ioctl!Byte
  <2>2. CASE ~(Len(t) < BUF_LEN)
    BY <1>2, <2>2
  <2> QED BY <2>1, <2>2
<1> QED BY <1>1, <1>2, <1>4, <1>5 DEF Holds

\* The first states satisfy the invariant.
LEMMA IoctlInit == Ioctl!Init => IoctlInv
BY BufLenAssumption
   DEF Ioctl!Init, IoctlInv, OneInside, TextsAreSet, HoldsCurrent,
       HoldsBeginning, GotBeginning, Holds, Setting, Ioctl!InIoctl

\* A step that does not go on with setting or getting a message, and after
\* which its process is not in one, keeps the invariant.
LEMMA OtherStepKeepsIoctlInv ==
    ASSUME LoopInv, party \subseteq Programs, IoctlInv, NEW p \in Ioctl!Users,
           NEW to \in Ioctl!Locations \ {"set_write", "set_done", "get_read", "get_done"},
           cpc' = [cpc EXCEPT ![p] = to],
           cpc[p] \notin Setting,
           \/ UNCHANGED busy /\ cpc[p] \notin Ioctl!InIoctl /\ to \notin Ioctl!InIoctl
           \/ busy = 0 /\ busy' = 1
           \/ cpc[p] \in Ioctl!InIoctl /\ to \notin Ioctl!InIoctl,
           UNCHANGED <<party, message, current>>,
           to = "set" => text'[p] # <<>>,
           \A q \in Ioctl!Users \ {p} :
               text'[q] = text[q] /\ i'[q] = i[q] /\ buf'[q] = buf[q]
    PROVE  IoctlInv'
<1>1. /\ cpc \in [Ioctl!Users -> Ioctl!Locations] /\ busy \in {0, 1}
      /\ OneInside /\ TextsAreSet /\ HoldsCurrent /\ HoldsBeginning /\ GotBeginning
  BY DEF LoopInv, Ioctl!TypeOK, IoctlInv
<1>2. cpc'[p] = to /\ \A q \in Ioctl!Users \ {p} : cpc'[q] = cpc[q]
  BY <1>1
<1>3. OneInside'
  BY <1>1, <1>2 DEF OneInside
<1>4. TextsAreSet'
  BY <1>1, <1>2 DEF TextsAreSet, Setting
<1>5. HoldsCurrent'
  BY <1>1, <1>2 DEF HoldsCurrent, Setting
<1>6. HoldsBeginning'
  BY <1>1, <1>2 DEF HoldsBeginning, Setting
<1>7. GotBeginning'
  BY <1>1, <1>2 DEF GotBeginning
<1> QED BY <1>3, <1>4, <1>5, <1>6, <1>7 DEF IoctlInv

\* Every step of a program keeps the invariant.
LEMMA ProgramStep ==
    ASSUME LoopInv, LoopInv', party \subseteq Programs, IoctlInv,
           NEW p \in Programs, Ioctl!Program(p)
    PROVE  IoctlInv'
<1>1. /\ p \in Ioctl!Users
      /\ cpc \in [Ioctl!Users -> Ioctl!Locations]
      /\ text \in [Ioctl!Users -> Texts \union {<<>>}]
      /\ i \in [Ioctl!Users -> Nat]
      /\ buf \in [Ioctl!Users -> Seq(Chars \union {0})]
      /\ busy \in {0, 1}
      /\ current \in Seq(Chars)
      /\ message \in [0 .. BUF_LEN -> Chars \union {0}]
  BY DEF Ioctl!Users, LoopInv, Ioctl!TypeOK
<1>2. OneInside /\ TextsAreSet /\ HoldsCurrent /\ HoldsBeginning /\ GotBeginning
  BY DEF IoctlInv
<1>3. party' \subseteq Programs /\ UNCHANGED party
  BY DEF Ioctl!Program
<1>4. text[p] \in Seq(Chars) /\ Ioctl!SetLength(text[p]) \in 0 .. BUF_LEN
  BY <1>1, TextType, SetLengthBound DEF LoopInv
<1>5. CASE Ioctl!SetMsg(p)
  <2>1. CASE busy = 0
    <3>1. /\ cpc[p] = "set" /\ busy' = 1
          /\ cpc' = [cpc EXCEPT ![p] = "set_write"]
          /\ i' = [i EXCEPT ![p] = 0]
          /\ UNCHANGED <<message, current, text, buf>>
      BY <1>5, <2>1 DEF Ioctl!SetMsg, Ioctl!Enter
    <3>2. /\ cpc'[p] = "set_write" /\ i'[p] = 0
          /\ \A q \in Ioctl!Users \ {p} : cpc'[q] = cpc[q] /\ i'[q] = i[q]
      BY <1>1, <3>1
    <3>3. \A q \in Ioctl!Users : cpc[q] \notin Ioctl!InIoctl
      BY <1>2, <2>1 DEF OneInside
    <3>4. \A q \in Ioctl!Users \ {p} : cpc'[q] \notin Ioctl!InIoctl
      BY <3>2, <3>3
    <3>5. OneInside'
      BY <3>1, <3>4 DEF OneInside
    <3>6. TextsAreSet'
      BY <1>2, <3>1, <3>2 DEF TextsAreSet, Setting
    <3>7. HoldsCurrent'
      BY <1>1, <3>2 DEF HoldsCurrent, Setting
    <3>8. HoldsBeginning'
      BY <1>4, <3>1, <3>2, <3>4 DEF HoldsBeginning, Setting, Ioctl!InIoctl
    <3>9. GotBeginning'
      BY <3>2, <3>4 DEF GotBeginning, Ioctl!InIoctl
    <3> QED BY <3>5, <3>6, <3>7, <3>8, <3>9 DEF IoctlInv
  <2>2. CASE busy # 0
    <3>1. /\ cpc[p] = "set" /\ cpc' = [cpc EXCEPT ![p] = "failed"]
          /\ \A q \in Ioctl!Users \ {p} : i'[q] = i[q]
          /\ UNCHANGED <<busy, message, current, text, buf>>
      BY <1>1, <1>5, <2>2 DEF Ioctl!SetMsg, Ioctl!Enter
    <3> QED BY <1>1, <1>3, <3>1, OtherStepKeepsIoctlInv
            DEF Ioctl!Locations, Ioctl!InIoctl, Setting
  <2> QED BY <2>1, <2>2
<1>6. CASE Ioctl!SetMsgWrite(p)
  <2>1. /\ cpc[p] = "set_write"
        /\ \A q \in Ioctl!Users \ {p} : cpc[q] \notin Ioctl!InIoctl
    BY <1>1, <1>2, <1>6
    DEF Ioctl!SetMsgWrite, Ioctl!WriteByte, OneInside, Ioctl!InIoctl
  <2>2. Ioctl!Limit(Ioctl!SetLength(text[p])) = Ioctl!SetLength(text[p])
    BY <1>4, SetLengthBound
  <2>3. UNCHANGED <<busy, current, text, buf>>
    BY <1>6 DEF Ioctl!SetMsgWrite, Ioctl!WriteByte
  <2>4. CASE i[p] < Ioctl!SetLength(text[p])
    <3>1. /\ message' = [message EXCEPT ![i[p]] = Ioctl!Byte(text[p], i[p])]
          /\ i' = [i EXCEPT ![p] = i[p] + 1]
          /\ UNCHANGED cpc
      BY <1>6, <2>2, <2>4 DEF Ioctl!SetMsgWrite, Ioctl!WriteByte
    <3>2. i[p] \in 0 .. BUF_LEN - 1 /\ i'[p] = i[p] + 1
      BY <1>1, <1>4, <2>4, <3>1, BufLenAssumption
    <3>3. \A n \in 0 .. i[p] : message'[n] = Ioctl!Byte(text[p], n)
      <4>1. message'[i[p]] = Ioctl!Byte(text[p], i[p])
        BY <1>1, <3>1, <3>2, BufLenAssumption
      <4>2. \A n \in 0 .. i[p] - 1 : message'[n] = message[n]
        BY <1>1, <3>1, <3>2, BufLenAssumption
      <4>3. \A n \in 0 .. i[p] - 1 : message[n] = Ioctl!Byte(text[p], n)
        BY <1>1, <1>2, <2>1 DEF HoldsBeginning, Setting
      <4> QED BY <3>2, <4>1, <4>2, <4>3
    <3>4. i'[p] <= Ioctl!SetLength(text[p]) /\ i'[p] - 1 = i[p]
      BY <1>1, <1>4, <2>4, <3>2, BufLenAssumption
    <3>5. OneInside' /\ TextsAreSet'
      BY <1>2, <2>3, <3>1 DEF OneInside, TextsAreSet
    <3>6. HoldsCurrent'
      BY <1>1, <2>1, <3>1 DEF HoldsCurrent, Setting
    <3>7. HoldsBeginning'
      BY <2>1, <2>3, <3>1, <3>3, <3>4 DEF HoldsBeginning, Setting, Ioctl!InIoctl
    <3>8. GotBeginning'
      BY <2>1, <3>1 DEF GotBeginning, Ioctl!InIoctl
    <3> QED BY <3>5, <3>6, <3>7, <3>8 DEF IoctlInv
  <2>5. CASE ~(i[p] < Ioctl!SetLength(text[p]))
    <3>1. cpc' = [cpc EXCEPT ![p] = "set_done"] /\ UNCHANGED <<message, i>>
      BY <1>6, <2>2, <2>5 DEF Ioctl!SetMsgWrite, Ioctl!WriteByte
    <3>2. cpc'[p] = "set_done" /\ \A q \in Ioctl!Users \ {p} : cpc'[q] = cpc[q]
      BY <1>1, <3>1
    <3>3. i[p] = Ioctl!SetLength(text[p])
      BY <1>1, <1>2, <1>4, <2>1, <2>5 DEF HoldsBeginning, Setting
    <3>4. OneInside'
      BY <1>2, <2>1, <2>3, <3>2 DEF OneInside, Ioctl!InIoctl
    <3>5. TextsAreSet'
      BY <1>2, <2>1, <2>3, <3>2 DEF TextsAreSet, Setting
    <3>6. HoldsCurrent'
      BY <1>1, <3>2 DEF HoldsCurrent, Setting
    <3>7. HoldsBeginning'
      BY <1>2, <2>1, <2>3, <3>1, <3>2, <3>3 DEF HoldsBeginning, Setting
    <3>8. GotBeginning'
      BY <2>1, <3>2 DEF GotBeginning, Ioctl!InIoctl
    <3> QED BY <3>4, <3>5, <3>6, <3>7, <3>8 DEF IoctlInv
  <2> QED BY <2>4, <2>5
<1>7. CASE Ioctl!SetMsgDone(p)
  <2>1. /\ cpc[p] = "set_done" /\ cpc' = [cpc EXCEPT ![p] = "nth"]
        /\ current' = Ioctl!Cut(text[p])
        /\ UNCHANGED <<message, text>>
    BY <1>7 DEF Ioctl!SetMsgDone, Ioctl!Leave
  <2>2. cpc'[p] = "nth" /\ \A q \in Ioctl!Users \ {p} : cpc'[q] = cpc[q]
    BY <1>1, <2>1
  <2>3. \A q \in Ioctl!Users : cpc'[q] \notin Ioctl!InIoctl
    BY <1>1, <1>2, <2>1, <2>2 DEF OneInside, Ioctl!InIoctl
  <2>4. /\ text[p] # <<>>
        /\ \A n \in 0 .. Ioctl!SetLength(text[p]) - 1 :
             message[n] = Ioctl!Byte(text[p], n)
    BY <1>1, <1>2, <2>1 DEF HoldsBeginning, TextsAreSet, Setting
  <2>5. message[BUF_LEN] = 0
    BY DEF LoopInv, Ioctl!LoopsStayInBuffer
  <2>6. Holds(message, Ioctl!Cut(text[p]))
    BY <1>4, <2>4, <2>5, SetHolds
  <2>7. HoldsCurrent'
    BY <2>1, <2>6 DEF HoldsCurrent
  <2>8. OneInside' /\ HoldsBeginning' /\ GotBeginning'
    BY <2>3 DEF OneInside, HoldsBeginning, GotBeginning, Setting, Ioctl!InIoctl
  <2>9. TextsAreSet'
    BY <1>2, <2>1, <2>2 DEF TextsAreSet, Setting
  <2> QED BY <2>7, <2>8, <2>9 DEF IoctlInv
<1>8. CASE Ioctl!GetNthByte(p)
  <2>1. PICK to \in {"nth_read", "failed"} :
          /\ cpc[p] = "nth" /\ cpc' = [cpc EXCEPT ![p] = to]
          /\ IF to = "failed" THEN UNCHANGED busy ELSE busy = 0 /\ busy' = 1
    BY <1>8 DEF Ioctl!GetNthByte, Ioctl!Enter
  <2>2. UNCHANGED <<message, current, text, i, buf>>
    BY <1>8 DEF Ioctl!GetNthByte, Ioctl!Enter
  <2> QED BY <1>1, <1>3, <2>1, <2>2, OtherStepKeepsIoctlInv
          DEF Ioctl!Locations, Ioctl!InIoctl, Setting
<1>9. CASE Ioctl!GetNthByteDone(p)
  <2>1. PICK to \in {"failed", "get", "nth"} :
          cpc[p] = "nth_read" /\ cpc' = [cpc EXCEPT ![p] = to]
    BY <1>9 DEF Ioctl!GetNthByteDone, Ioctl!Leave
  <2>2. UNCHANGED <<message, current, text>>
    BY <1>9 DEF Ioctl!GetNthByteDone
  <2>3. \A q \in Ioctl!Users \ {p} : i'[q] = i[q] /\ buf'[q] = buf[q]
    BY <1>1, <1>9 DEF Ioctl!GetNthByteDone
  <2> QED BY <1>1, <1>3, <2>1, <2>2, <2>3, OtherStepKeepsIoctlInv
          DEF Ioctl!Locations, Ioctl!InIoctl, Setting
<1>10. CASE Ioctl!GetMsg(p)
  <2>1. /\ cpc[p] = "get"
        /\ i' = [i EXCEPT ![p] = 0] /\ buf' = [buf EXCEPT ![p] = <<>>]
        /\ UNCHANGED <<message, current, text>>
    BY <1>10 DEF Ioctl!GetMsg, Ioctl!Enter
  <2>2. /\ i'[p] = 0 /\ buf'[p] = <<>>
        /\ \A q \in Ioctl!Users \ {p} : i'[q] = i[q] /\ buf'[q] = buf[q]
    BY <1>1, <2>1
  <2>3. CASE busy = 0
    <3>1. cpc' = [cpc EXCEPT ![p] = "get_read"] /\ busy' = 1
      BY <1>10, <2>3 DEF Ioctl!GetMsg, Ioctl!Enter
    <3>2. cpc'[p] = "get_read" /\ \A q \in Ioctl!Users \ {p} : cpc'[q] = cpc[q]
      BY <1>1, <3>1
    <3>3. \A q \in Ioctl!Users : cpc[q] \notin Ioctl!InIoctl
      BY <1>2, <2>3 DEF OneInside
    <3>4. \A q \in Ioctl!Users \ {p} : cpc'[q] \notin Ioctl!InIoctl
      BY <3>2, <3>3
    <3>5. OneInside'
      BY <3>1, <3>4 DEF OneInside
    <3>6. TextsAreSet'
      BY <1>2, <2>1, <3>2 DEF TextsAreSet, Setting
    <3>7. HoldsCurrent'
      BY <1>2, <2>1, <3>3 DEF HoldsCurrent, Setting, Ioctl!InIoctl
    <3>8. HoldsBeginning'
      BY <3>2, <3>4 DEF HoldsBeginning, Setting, Ioctl!InIoctl
    <3>9. GotBeginning'
      <4>1. Len(current) \in Nat /\ Len(<<>>) = 0
        BY <1>1, LenProperties, EmptySeq
      <4> QED BY <2>1, <2>2, <3>2, <3>4, <4>1 DEF GotBeginning, Ioctl!InIoctl
    <3> QED BY <3>5, <3>6, <3>7, <3>8, <3>9 DEF IoctlInv
  <2>4. CASE busy # 0
    <3>1. cpc' = [cpc EXCEPT ![p] = "failed"] /\ UNCHANGED busy
      BY <1>10, <2>4 DEF Ioctl!GetMsg, Ioctl!Enter
    <3> QED BY <1>1, <1>3, <2>1, <2>2, <3>1, OtherStepKeepsIoctlInv
            DEF Ioctl!Locations, Ioctl!InIoctl, Setting
  <2> QED BY <2>3, <2>4
<1>11. CASE Ioctl!GetMsgRead(p)
  <2>1. /\ cpc[p] = "get_read"
        /\ UNCHANGED <<message, busy, current, text>>
    BY <1>11 DEF Ioctl!GetMsgRead, Ioctl!ReadByte
  <2>2. \A q \in Ioctl!Users \ {p} : cpc[q] \notin Ioctl!InIoctl
    BY <1>1, <1>2, <2>1 DEF OneInside, Ioctl!InIoctl
  <2>3. Holds(message, current)
    BY <1>2, <2>1, <2>2 DEF HoldsCurrent, Setting, Ioctl!InIoctl
  <2>4. /\ Len(buf[p]) = i[p] /\ i[p] <= Len(current)
        /\ \A n \in 1 .. i[p] : buf[p][n] = current[n]
    BY <1>1, <1>2, <2>1 DEF GotBeginning
  <2>5. i[p] \in Nat /\ Len(current) \in Nat /\ 0 \notin Chars
    BY <1>1, CharsAssumption, LenProperties
  <2>6. CASE message[i[p]] # 0
    <3>1. /\ buf' = [buf EXCEPT ![p] = Append(@, message[i[p]])]
          /\ i' = [i EXCEPT ![p] = i[p] + 1]
          /\ UNCHANGED cpc
      BY <1>11, <2>6 DEF Ioctl!GetMsgRead, Ioctl!ReadByte
    <3>2. i[p] < Len(current) /\ message[i[p]] = current[i[p] + 1]
      BY <2>3, <2>4, <2>5, <2>6 DEF Holds
    <3>3. message[i[p]] \in Chars \union {0}
      BY <1>1, <2>3, <2>5, <3>2, BufLenAssumption DEF Holds
    <3>4. /\ Len(buf'[p]) = i[p] + 1
          /\ buf'[p][i[p] + 1] = message[i[p]]
          /\ \A n \in 1 .. i[p] : buf'[p][n] = buf[p][n]
      BY <1>1, <2>4, <3>1, <3>3, BufGrows
    <3>5. i'[p] = i[p] + 1 /\ i'[p] <= Len(current)
      BY <1>1, <2>5, <3>1, <3>2
    <3>6. \A n \in 1 .. i[p] + 1 : buf'[p][n] = current[n]
      BY <2>4, <2>5, <3>2, <3>4
    <3>7. GotBeginning'
      BY <2>1, <2>2, <3>1, <3>4, <3>5, <3>6 DEF GotBeginning, Ioctl!InIoctl
    <3>8. OneInside' /\ TextsAreSet' /\ HoldsCurrent'
      BY <1>2, <2>1, <3>1 DEF OneInside, TextsAreSet, HoldsCurrent
    <3>9. HoldsBeginning'
      BY <2>1, <2>2, <3>1 DEF HoldsBeginning, Setting, Ioctl!InIoctl
    <3> QED BY <3>7, <3>8, <3>9 DEF IoctlInv
  <2>7. CASE message[i[p]] = 0
    <3>1. cpc' = [cpc EXCEPT ![p] = "get_done"] /\ UNCHANGED <<i, buf>>
      BY <1>11, <2>7 DEF Ioctl!GetMsgRead, Ioctl!ReadByte
    <3>2. cpc'[p] = "get_done" /\ \A q \in Ioctl!Users \ {p} : cpc'[q] = cpc[q]
      BY <1>1, <3>1
    <3>3. i[p] = Len(current)
      <4>1. ASSUME i[p] # Len(current) PROVE FALSE
        <5>1. i[p] \in 0 .. Len(current) - 1 /\ i[p] + 1 \in 1 .. Len(current)
          BY <2>4, <2>5, <4>1
        <5>2. message[i[p]] = current[i[p] + 1]
          BY <2>3, <5>1 DEF Holds
        <5>3. current[i[p] + 1] \in Chars
          BY <1>1, <5>1, ElementOfSeq
        <5> QED BY <2>5, <2>7, <5>2, <5>3
      <4> QED BY <4>1
    <3>4. GotBeginning'
      BY <2>1, <2>2, <2>4, <3>1, <3>2, <3>3 DEF GotBeginning, Ioctl!InIoctl
    <3>5. OneInside'
      BY <1>2, <2>1, <3>2 DEF OneInside, Ioctl!InIoctl
    <3>6. TextsAreSet' /\ HoldsCurrent'
      BY <1>2, <2>1, <2>3, <3>2 DEF TextsAreSet, HoldsCurrent, Setting
    <3>7. HoldsBeginning'
      BY <2>2, <3>2 DEF HoldsBeginning, Setting, Ioctl!InIoctl
    <3> QED BY <3>4, <3>5, <3>6, <3>7 DEF IoctlInv
  <2> QED BY <2>6, <2>7
<1>12. CASE Ioctl!GetMsgDone(p)
  <2>1. /\ cpc[p] = "get_done" /\ cpc' = [cpc EXCEPT ![p] = "idle"]
        /\ UNCHANGED <<message, current>>
    BY <1>12 DEF Ioctl!GetMsgDone, Ioctl!Leave
  <2>2. \A q \in Ioctl!Users \ {p} :
          text'[q] = text[q] /\ i'[q] = i[q] /\ buf'[q] = buf[q]
    BY <1>1, <1>12 DEF Ioctl!GetMsgDone, Ioctl!Returned
  <2> QED BY <1>1, <1>3, <2>1, <2>2, OtherStepKeepsIoctlInv
          DEF Ioctl!Locations, Ioctl!InIoctl, Setting
<1>13. CASE Ioctl!Exit(p)
  <2>1. /\ cpc[p] = "failed" /\ cpc' = [cpc EXCEPT ![p] = "idle"]
        /\ UNCHANGED <<busy, message, current>>
    BY <1>13 DEF Ioctl!Exit
  <2>2. \A q \in Ioctl!Users \ {p} :
          text'[q] = text[q] /\ i'[q] = i[q] /\ buf'[q] = buf[q]
    BY <1>1, <1>13 DEF Ioctl!Exit, Ioctl!Returned
  <2> QED BY <1>1, <1>3, <2>1, <2>2, OtherStepKeepsIoctlInv
          DEF Ioctl!Locations, Ioctl!InIoctl, Setting
<1> QED BY <1>5, <1>6, <1>7, <1>8, <1>9, <1>10, <1>11, <1>12, <1>13
        DEF Ioctl!Program

\* Every step keeps the invariant.
LEMMA IoctlStep ==
    LoopInv /\ LoopInv' /\ IoctlInv /\ [Ioctl!Next]_Ioctl!vars => IoctlInv'
<1> SUFFICES ASSUME LoopInv, LoopInv', IoctlInv, [Ioctl!Next]_Ioctl!vars
             PROVE  IoctlInv'
  OBVIOUS
<1>1. party' = party
  BY DEF Ioctl!Next, Ioctl!Start, Ioctl!Program, Ioctl!RawStep, Ioctl!vars
<1>2. CASE ~(party \subseteq Programs)
  BY <1>1, <1>2 DEF IoctlInv
<1>3. CASE party \subseteq Programs
  <2>1. Raw \intersect party = {}
    BY <1>3, PartiesAssumption
  <2>2. ASSUME NEW p \in Programs \intersect party, Ioctl!Start(p)
        PROVE  IoctlInv'
    <3>1. p \in Ioctl!Users
      BY DEF Ioctl!Users
    <3>2. /\ cpc[p] = "idle" /\ cpc' = [cpc EXCEPT ![p] = "set"]
          /\ UNCHANGED <<party, message, busy, current, i, buf>>
      BY <2>2 DEF Ioctl!Start
    <3>3. text'[p] # <<>> /\ \A q \in Ioctl!Users \ {p} : text'[q] = text[q]
      BY <2>2, <3>1, TextsAssumption DEF Ioctl!Start, LoopInv, Ioctl!TypeOK
    <3> QED BY <1>3, <3>1, <3>2, <3>3, OtherStepKeepsIoctlInv
            DEF Ioctl!Locations, Ioctl!InIoctl, Setting
  <2>3. ASSUME NEW p \in Programs \intersect party, Ioctl!Program(p)
        PROVE  IoctlInv'
    BY <1>3, <2>3, ProgramStep
  <2>4. CASE UNCHANGED Ioctl!vars
    BY <2>4 DEF Ioctl!vars, IoctlInv, OneInside, TextsAreSet, HoldsCurrent,
                HoldsBeginning, GotBeginning
  <2> QED BY <2>1, <2>2, <2>3, <2>4 DEF Ioctl!Next
<1> QED BY <1>2, <1>3

\* The invariant says what the property does: equal lengths and equal
\* characters make equal texts.
LEMMA IoctlInvIsEnough == LoopInv /\ IoctlInv => Ioctl!IoctlsReturnLastSet
<1> SUFFICES ASSUME LoopInv, IoctlInv, party \subseteq Programs,
                    NEW p \in Programs, cpc[p] = "get_done"
             PROVE  buf[p] = current
  BY DEF Ioctl!IoctlsReturnLastSet, Ioctl!GetReturnsLastSet
<1>1. p \in Ioctl!Users
  BY DEF Ioctl!Users
<1>2. buf[p] \in Seq(Chars \union {0}) /\ current \in Seq(Chars)
  BY <1>1 DEF LoopInv, Ioctl!TypeOK
<1>3. current \in Seq(Chars \union {0})
  BY <1>2
<1>4. /\ Len(buf[p]) = Len(current)
      /\ \A n \in 1 .. Len(buf[p]) : buf[p][n] = current[n]
  BY <1>1 DEF IoctlInv, GotBeginning
<1> QED BY <1>2, <1>3, <1>4, SeqEqual

\* As long as everybody uses ioctls, IOCTL_GET_MSG returns the message of the
\* last IOCTL_SET_MSG, whole: for any number of programs, and texts shorter
\* than the buffer, just as long or longer.
THEOREM IoctlsReturnLastSetHolds == Ioctl!Spec => []Ioctl!IoctlsReturnLastSet
BY LoopInit, LoopStep, IoctlInit, IoctlStep, IoctlInvIsEnough, PTL
   DEF Ioctl!Spec
=============================================================================
