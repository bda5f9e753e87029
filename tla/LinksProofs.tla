----------------------------- MODULE LinksProofs ----------------------------
(***************************************************************************)
(* Proofs about Links: what each of its components promises on its own,    *)
(* for any number of calls, openings, presses and faults. Each section has *)
(* the inductive invariant of one component and shows that its steps keep  *)
(* it; the last section puts them together. What becomes of frames, in the *)
(* queue and in bytes, is proved in FrameProofs.                           *)
(***************************************************************************)
EXTENDS FrameProofs

(***************************************************************************)
(* The 4K camera. A call whose first answer is still to come is the one    *)
(* that waits, or a call no later than it has failed: so a call that takes *)
(* another's answer does it after a failure, and no answer is older.       *)
(***************************************************************************)
Late(c) == \E f \in v_failed : f <= c
Excused(c) == (v_waiting /\ c = Len(v_kind)) \/ Late(c)

\* The packets that begin the answer to a call; the others end it, on its socket.
Owed(p) == p.socket = 0 \/ p.type = "ack"

CameraPackets ==
  {p \in [type : {"ack", "completion", "error", "value", "address"}, socket : 0..2, of : Nat] :
     /\ p.type \in {"value", "address"} => p.socket = 0
     /\ p.type = "ack" => p.socket # 0}
CameraTyping ==
  /\ v_kind \in Seq(V!Kind) /\ v_waiting \in BOOLEAN
  /\ v_waiting => 1 <= Len(v_kind)
  /\ v_ack_seen \in BOOLEAN /\ v_ack_socket \in 0..2
  /\ v_failed \subseteq 1..Len(v_kind)
  /\ v_to_camera \in Seq(Nat) /\ v_wire \in Seq(CameraPackets)
  /\ v_executing \in [1..2 -> Nat]
  /\ \A j \in 1..Len(v_to_camera) : v_to_camera[j] \in 1..Len(v_kind)
  /\ \A i \in 1..Len(v_wire) : v_wire[i].of \in 1..Len(v_kind)
  /\ \A s \in 1..2 : v_executing[s] <= Len(v_kind)

\* The camera begins its answers in the order of the calls, on all lines; on each of its
\* sockets it also ends them in that order.
InOrderOnTheLine ==
  /\ \A i, j \in 1..Len(v_to_camera) : i < j => v_to_camera[i] < v_to_camera[j]
  /\ \A j \in 1..Len(v_to_camera) :
       /\ \A i \in 1..Len(v_wire) : v_wire[i].of < v_to_camera[j]
       /\ \A s \in 1..2 : v_executing[s] < v_to_camera[j]
  /\ \A i, j \in 1..Len(v_wire) :
       i < j =>
         /\ Owed(v_wire[i]) /\ Owed(v_wire[j]) => v_wire[i].of < v_wire[j].of
         /\ v_wire[i].socket = v_wire[j].socket /\ v_wire[i].socket # 0 =>
              v_wire[i].of <= v_wire[j].of
  /\ \A i \in 1..Len(v_wire), s \in 1..2 :
       v_wire[i].socket = s /\ v_executing[s] # 0 => v_wire[i].of <= v_executing[s]

OwingIsExcused ==
  /\ \A j \in 1..Len(v_to_camera) : Excused(v_to_camera[j])
  /\ \A i \in 1..Len(v_wire) : Owed(v_wire[i]) => Excused(v_wire[i].of)

\* What follows on the socket of the acknowledgement that was taken may be taken, too.
AckedSocket ==
  v_waiting /\ v_ack_seen =>
    /\ v_ack_socket \in 1..2
    /\ \/ Late(Len(v_kind))
       \/ /\ \A j \in 1..Len(v_to_camera) : v_to_camera[j] # Len(v_kind)
          /\ \A i \in 1..Len(v_wire) : Owed(v_wire[i]) => v_wire[i].of # Len(v_kind)
    /\ \A i \in 1..Len(v_wire) : v_wire[i].socket = v_ack_socket => Excused(v_wire[i].of)
    /\ v_executing[v_ack_socket] # 0 => Excused(v_executing[v_ack_socket])

CameraInv ==
  CameraTyping /\ InOrderOnTheLine /\ OwingIsExcused /\ AckedSocket /\ V!AnswerIsOwn

\* Packets that are read, lost or thrown away leave the others in their order.
Dropped(s, t) == s = t \/ s = <<>> \/ (t # <<>> /\ s = Tail(t))

\* s is t from the a-th element on.
Shift(s, t, a) ==
  \A i \in 1..Len(s) : i + a \in 1..Len(t) /\ i + a >= i /\ s[i] = t[i + a]

LEMMA DroppedShift ==
  ASSUME NEW S, NEW t \in Seq(S), NEW s, Dropped(s, t)
  PROVE  s \in Seq(S) /\ \E a \in Nat : Shift(s, t, a)
<1>1. CASE s = t
  <2>1. s \in Seq(S) /\ Shift(s, t, 0)
    BY <1>1 DEF Shift
  <2> QED
    BY <2>1
<1>2. CASE s = <<>>
  <2>1. s \in Seq(S) /\ Shift(s, t, 0)
    BY <1>2 DEF Shift
  <2> QED
    BY <2>1
<1>3. CASE t # <<>> /\ s = Tail(t)
  <2>1. /\ s \in Seq(S) /\ Len(t) \in Nat /\ Len(t) > 0 /\ Len(s) = Len(t) - 1
        /\ \A i \in 1..Len(s) : s[i] = t[i + 1]
    BY <1>3, HeadTailProperties, EmptySeq
  <2>2. Shift(s, t, 1)
    BY <2>1 DEF Shift
  <2> QED
    BY <2>1, <2>2
<1> QED
  BY <1>1, <1>2, <1>3 DEF Dropped

LEMMA CameraDrops ==
  ASSUME CameraTyping, InOrderOnTheLine, UNCHANGED <<v_kind, v_executing>>,
         Dropped(v_wire', v_wire), Dropped(v_to_camera', v_to_camera)
  PROVE  /\ v_wire' \in Seq(CameraPackets) /\ v_to_camera' \in Seq(Nat)
         /\ \A i \in 1..Len(v_wire') : \E k \in 1..Len(v_wire) : k >= i /\ v_wire'[i] = v_wire[k]
         /\ \A j \in 1..Len(v_to_camera') :
              \E k \in 1..Len(v_to_camera) : k >= j /\ v_to_camera'[j] = v_to_camera[k]
         /\ InOrderOnTheLine'
<1>1. v_wire' \in Seq(CameraPackets) /\ \E a \in Nat : Shift(v_wire', v_wire, a)
  BY DroppedShift, Zenon DEF CameraTyping
<1>2. v_to_camera' \in Seq(Nat) /\ \E b \in Nat : Shift(v_to_camera', v_to_camera, b)
  BY DroppedShift, Zenon DEF CameraTyping
<1>3. PICK a \in Nat : Shift(v_wire', v_wire, a)
  BY <1>1
<1>4. PICK b \in Nat : Shift(v_to_camera', v_to_camera, b)
  BY <1>2
<1> USE DEF Shift
<1>5. InOrderOnTheLine'
  <2>1. ASSUME NEW i \in 1..Len(v_to_camera'), NEW j \in 1..Len(v_to_camera'), i < j
        PROVE  v_to_camera'[i] < v_to_camera'[j]
    <3>1. i + b \in 1..Len(v_to_camera) /\ j + b \in 1..Len(v_to_camera) /\ i + b < j + b
      BY <1>4, <2>1
    <3> QED
      BY <1>4, <3>1 DEF InOrderOnTheLine
  <2>2. \A j \in 1..Len(v_to_camera') :
          /\ \A i \in 1..Len(v_wire') : v_wire'[i].of < v_to_camera'[j]
          /\ \A s \in 1..2 : v_executing'[s] < v_to_camera'[j]
    BY <1>3, <1>4 DEF InOrderOnTheLine
  <2>3. ASSUME NEW i \in 1..Len(v_wire'), NEW j \in 1..Len(v_wire'), i < j
        PROVE  /\ Owed(v_wire'[i]) /\ Owed(v_wire'[j]) => v_wire'[i].of < v_wire'[j].of
               /\ v_wire'[i].socket = v_wire'[j].socket /\ v_wire'[i].socket # 0 =>
                    v_wire'[i].of <= v_wire'[j].of
    <3>1. i + a \in 1..Len(v_wire) /\ j + a \in 1..Len(v_wire) /\ i + a < j + a
      BY <1>3, <2>3
    <3> QED
      BY <1>3, <3>1 DEF InOrderOnTheLine
  <2>4. \A i \in 1..Len(v_wire'), s \in 1..2 :
          v_wire'[i].socket = s /\ v_executing'[s] # 0 => v_wire'[i].of <= v_executing'[s]
    BY <1>3 DEF InOrderOnTheLine
  <2> QED
    BY <2>1, <2>2, <2>3, <2>4 DEF InOrderOnTheLine, Owed
<1> QED
  BY <1>1, <1>2, <1>3, <1>4, <1>5

\* A packet of the camera was taken by no one else: what is still owed is owed for the
\* call that waits, or late.
LEMMA CameraPasses ==
  ASSUME CameraInv, UNCHANGED <<v_kind, v_waiting, v_ack_seen, v_ack_socket, v_result, v_failed,
                                v_executing>>,
         Dropped(v_wire', v_wire), Dropped(v_to_camera', v_to_camera)
  PROVE  CameraInv'
<1> USE DEF CameraInv
<1>1. /\ v_wire' \in Seq(CameraPackets) /\ v_to_camera' \in Seq(Nat)
      /\ \A i \in 1..Len(v_wire') : \E k \in 1..Len(v_wire) : v_wire'[i] = v_wire[k]
      /\ \A j \in 1..Len(v_to_camera') :
           \E k \in 1..Len(v_to_camera) : v_to_camera'[j] = v_to_camera[k]
      /\ InOrderOnTheLine'
  BY CameraDrops
<1>2. CameraTyping'
  BY <1>1 DEF CameraTyping
<1>3. \A c : Late(c)' <=> Late(c)
  BY DEF Late
<1>4. \A c : Excused(c)' <=> Excused(c)
  BY <1>3 DEF Excused
<1>5. OwingIsExcused'
  BY <1>1, <1>4, SMTT(30) DEF OwingIsExcused, Owed
<1>6. AckedSocket'
  BY <1>1, <1>3, <1>4, ZenonT(40) DEF AckedSocket, Owed
<1> QED
  BY <1>1, <1>2, <1>5, <1>6 DEF V!AnswerIsOwn

\* A call returns: with its own answer, or with one that is late.
LEMMA CameraReturns ==
  ASSUME CameraInv, NEW status, NEW answer, V!Return(status, answer), v_waiting,
         UNCHANGED <<v_to_camera, v_executing>>, Dropped(v_wire', v_wire),
         status = "ok" =>
           /\ answer \in 1..Len(v_kind) /\ Excused(answer)
           /\ \/ Late(Len(v_kind))
              \/ /\ \A j \in 1..Len(v_to_camera) : v_to_camera[j] # Len(v_kind)
                 /\ \A i \in 1..Len(v_wire') : Owed(v_wire'[i]) => v_wire'[i].of # Len(v_kind)
  PROVE  CameraInv'
<1> USE DEF CameraInv
<1>1. /\ v_waiting' = FALSE /\ UNCHANGED <<v_kind, v_ack_seen, v_ack_socket>>
      /\ v_result' = [call |-> Len(v_kind), status |-> status, answer |-> answer]
      /\ v_failed' = IF status = "ok" THEN v_failed ELSE v_failed \cup {Len(v_kind)}
  BY DEF V!Return, V!Current
<1>2. Dropped(v_to_camera', v_to_camera)
  BY DEF Dropped
<1>3. /\ v_wire' \in Seq(CameraPackets) /\ v_to_camera' \in Seq(Nat)
      /\ \A i \in 1..Len(v_wire') : \E k \in 1..Len(v_wire) : v_wire'[i] = v_wire[k]
      /\ InOrderOnTheLine'
  BY <1>1, <1>2, CameraDrops
<1>4. Len(v_kind) \in Nat /\ Len(v_kind) \in 1..Len(v_kind)
  BY DEF CameraTyping
<1>5. CameraTyping'
  <2>1. v_failed' \subseteq 1..Len(v_kind)
    BY <1>1, <1>4 DEF CameraTyping
  <2> QED
    BY <1>1, <1>3, <2>1 DEF CameraTyping
<1>6. /\ \A c : Late(c) => Late(c)'
      /\ status # "ok" => Late(Len(v_kind))'
  BY <1>1, <1>4 DEF Late
<1>7. OwingIsExcused'
  <2>1. \A j \in 1..Len(v_to_camera) : Late(v_to_camera[j])'
    BY <1>1, <1>6 DEF OwingIsExcused, Excused
  <2>2. ASSUME NEW i \in 1..Len(v_wire'), Owed(v_wire'[i]), NEW c, c = v_wire'[i].of
        PROVE  Late(c)'
    <3>1. Excused(c)
      BY <1>3, <2>2 DEF OwingIsExcused
    <3> QED
      BY <1>1, <1>6, <2>2, <3>1 DEF Excused
  <2> QED
    BY <1>1, <2>1, <2>2 DEF OwingIsExcused, Excused, Owed, Late
<1>8. V!AnswerIsOwn'
  <2>1. CASE status = "ok" /\ answer # Len(v_kind)
    <3>1. PICK f \in v_failed : f <= answer
      BY <2>1 DEF Excused, Late
    <3> QED
      BY <1>1, <1>4, <2>1, <3>1 DEF V!AnswerIsOwn
  <2>2. CASE ~(status = "ok" /\ answer # Len(v_kind))
    BY <1>1, <2>2 DEF V!AnswerIsOwn
  <2> QED
    BY <2>1, <2>2
<1>9. AckedSocket'
  BY <1>1 DEF AckedSocket
<1> QED
  BY <1>3, <1>5, <1>7, <1>8, <1>9

\* The camera takes a call and begins its answer with p.
LEMMA CameraBegins ==
  ASSUME CameraInv, v_to_camera # <<>>, NEW c, c = Head(v_to_camera),
         NEW p \in CameraPackets, p.of = c, Owed(p),
         v_to_camera' = Tail(v_to_camera), v_wire' = Append(v_wire, p),
         v_executing' \in [1..2 -> Nat], \A s \in 1..2 : v_executing'[s] \in {v_executing[s], c},
         p.socket # 0 => v_executing'[p.socket] = c,
         UNCHANGED <<v_kind, v_waiting, v_ack_seen, v_ack_socket, v_result, v_failed>>
  PROVE  CameraInv'
<1> USE DEF CameraInv
<1>1. /\ Len(v_to_camera) \in Nat /\ Len(v_to_camera) > 0 /\ Len(v_wire) \in Nat
      /\ v_to_camera' \in Seq(Nat) /\ Len(v_to_camera') = Len(v_to_camera) - 1
      /\ \A j \in 1..Len(v_to_camera') :
           j + 1 \in 1..Len(v_to_camera) /\ v_to_camera'[j] = v_to_camera[j + 1]
  <2>1. v_to_camera \in Seq(Nat) /\ v_wire \in Seq(CameraPackets)
    BY DEF CameraTyping
  <2>2. Len(v_to_camera) \in Nat /\ Len(v_to_camera) > 0 /\ Len(v_wire) \in Nat
    BY <2>1, EmptySeq
  <2> QED
    BY <2>1, <2>2, HeadTailProperties
<1>2. 1 \in 1..Len(v_to_camera) /\ c = v_to_camera[1] /\ c \in 1..Len(v_kind) /\ c \in Nat /\ c # 0
  BY <1>1 DEF CameraTyping
<1>3. /\ v_wire' \in Seq(CameraPackets) /\ Len(v_wire') = Len(v_wire) + 1
      /\ \A i \in 1..Len(v_wire') : i \in 1..Len(v_wire) \/ i = Len(v_wire) + 1
      /\ \A i \in 1..Len(v_wire) : v_wire'[i] = v_wire[i]
      /\ v_wire'[Len(v_wire) + 1] = p
  BY SMTT(30) DEF CameraTyping
<1>4. CameraTyping'
  <2>1. /\ \A j \in 1..Len(v_to_camera') : v_to_camera'[j] \in 1..Len(v_kind)
        /\ \A i \in 1..Len(v_wire') : v_wire'[i].of \in 1..Len(v_kind)
    BY <1>1, <1>2, <1>3, ZenonT(40) DEF CameraTyping
  <2>2. \A s \in 1..2 : v_executing'[s] <= Len(v_kind)
    BY <1>2, SMTT(30) DEF CameraTyping
  <2> QED
    BY <1>1, <1>3, <2>1, <2>2 DEF CameraTyping
<1>5. /\ \A j \in 1..Len(v_to_camera') : c < v_to_camera'[j]
      /\ \A i \in 1..Len(v_wire) : v_wire[i].of < c
      /\ \A s \in 1..2 : v_executing[s] < c
  <2>1. ASSUME NEW j \in 1..Len(v_to_camera') PROVE c < v_to_camera'[j]
    <3>1. j + 1 \in 1..Len(v_to_camera) /\ 1 < j + 1
      BY <1>1
    <3> QED
      BY <1>1, <1>2, <3>1 DEF InOrderOnTheLine
  <2> QED
    BY <1>2, <2>1 DEF InOrderOnTheLine
<1>6. InOrderOnTheLine'
  <2>1. ASSUME NEW i \in 1..Len(v_to_camera'), NEW j \in 1..Len(v_to_camera'), i < j
        PROVE  v_to_camera'[i] < v_to_camera'[j]
    <3>1. i + 1 < j + 1
      BY <1>1, <2>1
    <3> QED
      BY <1>1, <3>1 DEF InOrderOnTheLine
  <2>2. ASSUME NEW j \in 1..Len(v_to_camera')
        PROVE  /\ \A i \in 1..Len(v_wire') : v_wire'[i].of < v_to_camera'[j]
               /\ \A s \in 1..2 : v_executing'[s] < v_to_camera'[j]
    BY <1>1, <1>3, <1>5, SMTT(30) DEF InOrderOnTheLine
  <2>3. ASSUME NEW i \in 1..Len(v_wire'), NEW j \in 1..Len(v_wire'), i < j
        PROVE  /\ Owed(v_wire'[i]) /\ Owed(v_wire'[j]) => v_wire'[i].of < v_wire'[j].of
               /\ v_wire'[i].socket = v_wire'[j].socket /\ v_wire'[i].socket # 0 =>
                    v_wire'[i].of <= v_wire'[j].of
    <3>1. i \in 1..Len(v_wire)
      BY <1>1, <1>3, <2>3
    <3>2. CASE j \in 1..Len(v_wire)
      BY <1>3, <2>3, <3>1, <3>2 DEF InOrderOnTheLine
    <3>3. CASE j = Len(v_wire) + 1
      <4>1. v_wire'[i].of < v_wire'[j].of
        BY <1>3, <1>5, <3>1, <3>3
      <4>2. v_wire'[i] = v_wire[i] /\ v_wire[i].of \in Nat /\ v_wire'[j].of = c
        BY <1>3, <3>1, <3>3, SMTT(30) DEF CameraTyping
      <4> QED
        BY <1>2, <4>1, <4>2, SMTT(30)
    <3> QED
      BY <1>3, <3>2, <3>3
  <2>4. ASSUME NEW i \in 1..Len(v_wire'), NEW s \in 1..2, v_wire'[i].socket = s, v_executing'[s] # 0
        PROVE  v_wire'[i].of <= v_executing'[s]
    <3>1. CASE i \in 1..Len(v_wire)
      <4>1. v_wire[i].of \in Nat /\ v_wire[i].of < c /\ v_wire'[i] = v_wire[i]
        BY <1>3, <1>5, <3>1, SMTT(30) DEF CameraTyping
      <4> QED
        BY <1>2, <2>4, <3>1, <4>1, SMTT(30) DEF InOrderOnTheLine
    <3>2. CASE i = Len(v_wire) + 1
      BY <1>2, <1>3, <2>4, <3>2
    <3> QED
      BY <1>3, <3>1, <3>2
  <2> QED
    BY <2>1, <2>2, <2>3, <2>4 DEF InOrderOnTheLine, Owed
<1>7. \A d : (Late(d)' <=> Late(d)) /\ (Excused(d)' <=> Excused(d))
  BY DEF Late, Excused
<1>8. Excused(c)
  BY <1>2 DEF OwingIsExcused
<1>9. OwingIsExcused'
  <2>1. \A j \in 1..Len(v_to_camera') : Excused(v_to_camera'[j])
    BY <1>1 DEF OwingIsExcused
  <2>2. \A i \in 1..Len(v_wire') : Owed(v_wire'[i]) => Excused(v_wire'[i].of)
    BY <1>3, <1>8 DEF OwingIsExcused
  <2> QED
    BY <1>7, <2>1, <2>2 DEF OwingIsExcused, Owed
<1>10. AckedSocket'
  <2> SUFFICES ASSUME v_waiting, v_ack_seen PROVE AckedSocket'
    BY DEF AckedSocket
  <2>1. /\ v_ack_socket \in 1..2
        /\ \A i \in 1..Len(v_wire') : v_wire'[i].socket = v_ack_socket => Excused(v_wire'[i].of)
        /\ v_executing'[v_ack_socket] # 0 => Excused(v_executing'[v_ack_socket])
    BY <1>3, <1>8 DEF AckedSocket
  <2>2. \/ Late(Len(v_kind))
        \/ /\ \A j \in 1..Len(v_to_camera') : v_to_camera'[j] # Len(v_kind)
           /\ \A i \in 1..Len(v_wire') : Owed(v_wire'[i]) => v_wire'[i].of # Len(v_kind)
    BY <1>1, <1>2, <1>3 DEF AckedSocket
  <2> QED
    BY <1>7, <2>1, <2>2 DEF AckedSocket, Owed
<1> QED
  BY <1>4, <1>6, <1>9, <1>10 DEF V!AnswerIsOwn

LEMMA CameraTakes == ASSUME CameraInv, V!Takes PROVE CameraInv'
<1> USE DEF CameraInv
<1> DEFINE c == Head(v_to_camera)
<1>1. /\ v_to_camera # <<>> /\ v_to_camera' = Tail(v_to_camera)
      /\ UNCHANGED <<v_kind, v_waiting, v_ack_seen, v_ack_socket, v_result, v_failed>>
  BY DEF V!Takes, V!host
<1>2. c \in 1..Len(v_kind) /\ c \in Nat
  <2>1. Len(v_to_camera) \in Nat /\ Len(v_to_camera) > 0 /\ c = v_to_camera[1]
    BY <1>1, EmptySeq DEF CameraTyping
  <2> QED
    BY <2>1 DEF CameraTyping
<1>3. v_kind[c] \in V!Kind
  BY <1>2 DEF CameraTyping
<1>4. \/ \E s \in 1..2 : /\ v_executing' = [v_executing EXCEPT ![s] = c]
                         /\ v_wire' = Append(v_wire, V!Packet("ack", s, c))
      \/ \E type \in {"error", "value", "address"} :
           /\ v_wire' = Append(v_wire, V!Packet(type, 0, c))
           /\ UNCHANGED v_executing
  BY <1>3 DEF V!Takes, V!Kind, V!Socket
<1>5. ASSUME NEW s \in 1..2, v_executing' = [v_executing EXCEPT ![s] = c],
             v_wire' = Append(v_wire, V!Packet("ack", s, c))
      PROVE  CameraInv'
  <2> DEFINE p == V!Packet("ack", s, c)
  <2>1. p \in CameraPackets /\ p.of = c /\ p.socket = s /\ Owed(p)
    BY <1>2 DEF V!Packet, CameraPackets, Owed
  <2>2. /\ v_executing' \in [1..2 -> Nat] /\ v_executing'[s] = c
        /\ \A t \in 1..2 : v_executing'[t] \in {v_executing[t], c}
    BY <1>2, <1>5 DEF CameraTyping
  <2> QED
    BY <1>1, <1>5, <2>1, <2>2, CameraBegins
<1>6. ASSUME NEW type \in {"error", "value", "address"},
             v_wire' = Append(v_wire, V!Packet(type, 0, c)), UNCHANGED v_executing
      PROVE  CameraInv'
  <2> DEFINE p == V!Packet(type, 0, c)
  <2>1. p \in CameraPackets /\ p.of = c /\ p.socket = 0 /\ Owed(p)
    BY <1>2 DEF V!Packet, CameraPackets, Owed
  <2>2. /\ v_executing' \in [1..2 -> Nat]
        /\ \A t \in 1..2 : v_executing'[t] \in {v_executing[t], c}
    BY <1>6 DEF CameraTyping
  <2> QED
    BY <1>1, <1>6, <2>1, <2>2, CameraBegins
<1> QED
  BY <1>4, <1>5, <1>6

LEMMA CameraCompletes == ASSUME CameraInv, V!Completes PROVE CameraInv'
<1> USE DEF CameraInv
<1>1. PICK s \in 1..2, type \in {"completion", "error"} :
        /\ v_executing[s] # 0
        /\ v_executing' = [v_executing EXCEPT ![s] = 0]
        /\ v_wire' = Append(v_wire, V!Packet(type, s, v_executing[s]))
  BY DEF V!Completes, V!Socket, V!None
<1>2. UNCHANGED <<v_kind, v_waiting, v_ack_seen, v_ack_socket, v_result, v_failed, v_to_camera>>
  BY DEF V!Completes, V!host
<1> DEFINE c == v_executing[s]
<1> DEFINE p == V!Packet(type, s, c)
<1>3. /\ p \in CameraPackets /\ p.of = c /\ p.socket = s /\ ~Owed(p)
      /\ c \in Nat /\ c \in 1..Len(v_kind)
  BY <1>1 DEF V!Packet, CameraPackets, Owed, CameraTyping
<1> HIDE DEF p
<1>4. /\ v_wire' \in Seq(CameraPackets) /\ Len(v_wire) \in Nat /\ Len(v_wire') = Len(v_wire) + 1
      /\ \A i \in 1..Len(v_wire') : i \in 1..Len(v_wire) \/ i = Len(v_wire) + 1
      /\ \A i \in 1..Len(v_wire) : v_wire'[i] = v_wire[i]
      /\ v_wire'[Len(v_wire) + 1] = p
  BY <1>1, <1>3, SMTT(30) DEF CameraTyping, p
<1>5. /\ v_executing' \in [1..2 -> Nat]
      /\ \A t \in 1..2 : v_executing'[t] = IF t = s THEN 0 ELSE v_executing[t]
  BY <1>1 DEF CameraTyping
<1> HIDE DEF c
<1>6. CameraTyping'
  <2>1. \A i \in 1..Len(v_wire') : v_wire'[i].of \in 1..Len(v_kind)
    BY <1>3, <1>4 DEF CameraTyping
  <2>2. \A t \in 1..2 : v_executing'[t] <= Len(v_kind)
    BY <1>3, <1>5 DEF CameraTyping
  <2> QED
    BY <1>2, <1>4, <1>5, <2>1, <2>2 DEF CameraTyping
<1>7. InOrderOnTheLine'
  <2>1. ASSUME NEW j \in 1..Len(v_to_camera)
        PROVE  /\ \A i \in 1..Len(v_wire') : v_wire'[i].of < v_to_camera[j]
               /\ \A t \in 1..2 : v_executing'[t] < v_to_camera[j]
    <3>1. c < v_to_camera[j] /\ 0 < v_to_camera[j]
      BY DEF InOrderOnTheLine, CameraTyping, c
    <3>2. \A i \in 1..Len(v_wire') : v_wire'[i].of < v_to_camera[j]
      BY <1>3, <1>4, <3>1 DEF InOrderOnTheLine
    <3>3. \A t \in 1..2 : v_executing'[t] < v_to_camera[j]
      BY <1>5, <3>1 DEF InOrderOnTheLine
    <3> QED
      BY <3>2, <3>3
  <2>2. ASSUME NEW i \in 1..Len(v_wire'), NEW j \in 1..Len(v_wire'), i < j
        PROVE  /\ Owed(v_wire'[i]) /\ Owed(v_wire'[j]) => v_wire'[i].of < v_wire'[j].of
               /\ v_wire'[i].socket = v_wire'[j].socket /\ v_wire'[i].socket # 0 =>
                    v_wire'[i].of <= v_wire'[j].of
    <3>1. i \in 1..Len(v_wire)
      BY <1>4, <2>2
    <3>2. CASE j \in 1..Len(v_wire)
      BY <1>4, <2>2, <3>1, <3>2 DEF InOrderOnTheLine
    <3>3. CASE j = Len(v_wire) + 1
      <4>1. ~Owed(v_wire'[j]) /\ v_wire'[j].of = c /\ v_wire'[j].socket = s
        BY <1>3, <1>4, <3>3
      <4>2. v_wire'[i].socket = s => v_wire'[i].of <= c
        BY <1>1, <1>4, <3>1 DEF InOrderOnTheLine, c
      <4> QED
        BY <4>1, <4>2
    <3> QED
      BY <1>4, <3>2, <3>3
  <2>3. ASSUME NEW i \in 1..Len(v_wire'), NEW t \in 1..2, v_wire'[i].socket = t, v_executing'[t] # 0
        PROVE  v_wire'[i].of <= v_executing'[t]
    <3>1. t # s /\ i \in 1..Len(v_wire)
      BY <1>3, <1>4, <1>5, <2>3
    <3> QED
      BY <1>4, <1>5, <2>3, <3>1 DEF InOrderOnTheLine
  <2> QED
    BY <1>2, <2>1, <2>2, <2>3 DEF InOrderOnTheLine, Owed
<1>8. \A d : (Late(d)' <=> Late(d)) /\ (Excused(d)' <=> Excused(d))
  BY <1>2 DEF Late, Excused
<1>9. OwingIsExcused'
  <2>1. \A i \in 1..Len(v_wire') : Owed(v_wire'[i]) => Excused(v_wire'[i].of)
    BY <1>3, <1>4 DEF OwingIsExcused
  <2> QED
    BY <1>2, <1>8, <2>1 DEF OwingIsExcused, Owed
<1>10. AckedSocket'
  <2> SUFFICES ASSUME v_waiting, v_ack_seen PROVE AckedSocket'
    BY <1>2 DEF AckedSocket
  <2>1. /\ v_ack_socket \in 1..2
        /\ \A i \in 1..Len(v_wire') : v_wire'[i].socket = v_ack_socket => Excused(v_wire'[i].of)
        /\ v_executing'[v_ack_socket] # 0 => Excused(v_executing'[v_ack_socket])
    BY <1>1, <1>3, <1>4, <1>5 DEF AckedSocket, c
  <2>2. \/ Late(Len(v_kind))
        \/ /\ \A j \in 1..Len(v_to_camera) : v_to_camera[j] # Len(v_kind)
           /\ \A i \in 1..Len(v_wire') : Owed(v_wire'[i]) => v_wire'[i].of # Len(v_kind)
    BY <1>3, <1>4 DEF AckedSocket
  <2> QED
    BY <1>2, <1>8, <2>1, <2>2 DEF AckedSocket, Owed
<1> QED
  BY <1>2, <1>6, <1>7, <1>9, <1>10 DEF V!AnswerIsOwn

\* A call is made, with what has arrived thrown away or not.
LEMMA CameraSends ==
  ASSUME CameraInv, NEW k \in V!Kind, V!visca_camera_send_raw(k), v_wire' \in {<<>>, v_wire}
  PROVE  CameraInv'
<1> USE DEF CameraInv
<1> DEFINE c == Len(v_kind) + 1
<1>1. /\ ~v_waiting /\ v_waiting' = TRUE /\ v_ack_seen' = FALSE /\ v_ack_socket' = 0
      /\ v_kind' = Append(v_kind, k) /\ v_to_camera' = Append(v_to_camera, c)
      /\ UNCHANGED <<v_result, v_failed, v_executing>>
  BY DEF V!visca_camera_send_raw, V!Current, V!None
<1>2. /\ v_kind' \in Seq(V!Kind) /\ Len(v_kind) \in Nat /\ Len(v_kind') = c /\ c \in Nat
      /\ v_to_camera' \in Seq(Nat) /\ Len(v_to_camera) \in Nat
      /\ \A j \in 1..Len(v_to_camera') : j \in 1..Len(v_to_camera) \/ j = Len(v_to_camera) + 1
      /\ \A j \in 1..Len(v_to_camera) : v_to_camera'[j] = v_to_camera[j]
      /\ v_to_camera'[Len(v_to_camera) + 1] = c
      /\ Len(v_to_camera') = Len(v_to_camera) + 1
  BY <1>1 DEF CameraTyping
<1>3. /\ v_wire' \in Seq(CameraPackets)
      /\ \A i \in 1..Len(v_wire') : i \in 1..Len(v_wire) /\ v_wire'[i] = v_wire[i]
  <2>1. CASE v_wire' = <<>>
    BY <2>1
  <2>2. CASE v_wire' = v_wire
    BY <2>2 DEF CameraTyping
  <2> QED
    BY <2>1, <2>2
<1>4. /\ \A j \in 1..Len(v_to_camera) : v_to_camera[j] \in Nat /\ 0 < v_to_camera[j] /\ v_to_camera[j] < c
      /\ \A i \in 1..Len(v_wire) : v_wire[i].of \in Nat /\ 0 < v_wire[i].of /\ v_wire[i].of < c
      /\ \A s \in 1..2 : v_executing[s] \in Nat /\ v_executing[s] < c
  <2>1. \A n \in 1..Len(v_kind) : n \in Nat /\ 0 < n /\ n < c
    BY <1>2
  <2>2. \A s \in 1..2 : v_executing[s] \in Nat /\ v_executing[s] < c
    BY <1>2 DEF CameraTyping
  <2> QED
    BY <2>1, <2>2 DEF CameraTyping
<1> HIDE DEF c
<1>5. CameraTyping'
  <2>1. 1 <= c /\ c \in 1..c
    BY <1>2 DEF c
  <2>2. ASSUME NEW j \in 1..Len(v_to_camera') PROVE v_to_camera'[j] \in 1..c
    <3>1. CASE j \in 1..Len(v_to_camera)
      <4>1. v_to_camera[j] \in Nat /\ 0 < v_to_camera[j] /\ v_to_camera[j] < c /\ v_to_camera'[j] = v_to_camera[j]
        BY <1>2, <1>4, <3>1
      <4> QED
        BY <1>2, <4>1
    <3>2. CASE j = Len(v_to_camera) + 1
      BY <1>2, <2>1, <3>2
    <3> QED
      BY <1>2, <3>1, <3>2
  <2>3. \A i \in 1..Len(v_wire') : v_wire'[i].of \in 1..c
    BY <1>2, <1>3, <1>4
  <2>4. \A s \in 1..2 : v_executing[s] <= c
    BY <1>2, <1>4
  <2>5. v_failed \subseteq 1..c
    BY <1>2 DEF CameraTyping, c
  <2>6. v_executing \in [1..2 -> Nat]
    BY DEF CameraTyping
  <2>7. v_kind' \in Seq(V!Kind) /\ Len(v_kind') = c /\ v_to_camera' \in Seq(Nat)
    BY <1>2
  <2>8. /\ \A j \in 1..Len(v_to_camera') : v_to_camera'[j] \in 1..Len(v_kind')
        /\ \A i \in 1..Len(v_wire') : v_wire'[i].of \in 1..Len(v_kind')
        /\ \A s \in 1..2 : v_executing'[s] <= Len(v_kind')
        /\ v_failed' \subseteq 1..Len(v_kind') /\ 1 <= Len(v_kind')
        /\ v_executing' \in [1..2 -> Nat]
    BY <1>1, <2>1, <2>2, <2>3, <2>4, <2>5, <2>6, <2>7
  <2>9. v_waiting' \in BOOLEAN /\ v_ack_seen' \in BOOLEAN
    BY <1>1, Zenon
  <2>10. v_ack_socket' \in 0..2
    BY <1>1
  <2> QED
    BY <1>3, <2>7, <2>8, <2>9, <2>10 DEF CameraTyping
<1>6. InOrderOnTheLine'
  <2>1. ASSUME NEW i \in 1..Len(v_to_camera'), NEW j \in 1..Len(v_to_camera'), i < j
        PROVE  v_to_camera'[i] < v_to_camera'[j]
    <3>1. i \in 1..Len(v_to_camera)
      BY <1>2, <2>1
    <3> QED
      BY <1>2, <1>4, <2>1, <3>1 DEF InOrderOnTheLine
  <2>2. \A j \in 1..Len(v_to_camera') :
          /\ \A i \in 1..Len(v_wire') : v_wire'[i].of < v_to_camera'[j]
          /\ \A s \in 1..2 : v_executing[s] < v_to_camera'[j]
    BY <1>2, <1>3, <1>4 DEF InOrderOnTheLine
  <2>3. \A i, j \in 1..Len(v_wire') :
          i < j =>
            /\ Owed(v_wire'[i]) /\ Owed(v_wire'[j]) => v_wire'[i].of < v_wire'[j].of
            /\ v_wire'[i].socket = v_wire'[j].socket /\ v_wire'[i].socket # 0 =>
                 v_wire'[i].of <= v_wire'[j].of
    BY <1>3 DEF InOrderOnTheLine
  <2>4. \A i \in 1..Len(v_wire'), s \in 1..2 :
          v_wire'[i].socket = s /\ v_executing[s] # 0 => v_wire'[i].of <= v_executing[s]
    BY <1>3 DEF InOrderOnTheLine
  <2> QED
    BY <1>1, <2>1, <2>2, <2>3, <2>4 DEF InOrderOnTheLine, Owed
<1>8. OwingIsExcused'
  <2>1. \A j \in 1..Len(v_to_camera') : v_to_camera'[j] = c \/ Excused(v_to_camera'[j])
    BY <1>2 DEF OwingIsExcused
  <2>2. \A i \in 1..Len(v_wire') : Owed(v_wire'[i]) => Excused(v_wire'[i].of)
    BY <1>3 DEF OwingIsExcused
  <2> QED
    BY <1>1, <1>2, <2>1, <2>2 DEF OwingIsExcused, Owed, Excused, Late
<1> QED
  BY <1>1, <1>5, <1>6, <1>8 DEF AckedSocket, V!AnswerIsOwn

\* A packet is read by the call that waits.
LEMMA CameraReads ==
  ASSUME CameraInv, V!visca_wait_for_command \/ V!WaitForValue \/ V!WaitForAddress
  PROVE  CameraInv'
<1> USE DEF CameraInv
<1> DEFINE p == Head(v_wire)
<1> DEFINE c == Len(v_kind)
<1>1. /\ v_waiting /\ v_wire # <<>> /\ v_wire' = Tail(v_wire)
      /\ UNCHANGED <<v_to_camera, v_executing>>
  BY DEF V!visca_wait_for_command, V!WaitForValue, V!WaitForAddress, V!Reading, V!camera
<1>2. Dropped(v_wire', v_wire) /\ Dropped(v_to_camera', v_to_camera)
  BY <1>1 DEF Dropped
<1>3. /\ Len(v_wire) \in Nat /\ Len(v_wire) > 0 /\ p \in CameraPackets /\ p = v_wire[1]
      /\ p.of \in 1..c /\ c \in Nat
      /\ \A i \in 1..Len(v_wire') :
           i + 1 \in 1..Len(v_wire) /\ 1 < i + 1 /\ v_wire'[i] = v_wire[i + 1]
  <2>1. Len(v_wire) \in Nat /\ Len(v_wire) > 0 /\ c \in Nat /\ p = v_wire[1] /\ p \in CameraPackets
    BY <1>1, EmptySeq DEF CameraTyping
  <2>2. p.of \in 1..c
    BY <2>1 DEF CameraTyping
  <2>3. Len(v_wire') = Len(v_wire) - 1 /\ \A i \in 1..Len(v_wire') : v_wire'[i] = v_wire[i + 1]
    BY <1>1, HeadTailProperties DEF CameraTyping
  <2> QED
    BY <2>1, <2>2, <2>3
<1> HIDE DEF p, c
<1>4. CASE UNCHANGED <<v_kind, v_waiting, v_ack_seen, v_ack_socket, v_result, v_failed>>
  BY <1>1, <1>2, <1>4, CameraPasses
\* The head of the wire is the only packet that begins the answer to its call.
<1>5. Owed(p) =>
        /\ Excused(p.of)
        /\ \/ Late(c)
           \/ /\ \A j \in 1..Len(v_to_camera) : v_to_camera[j] # c
              /\ \A i \in 1..Len(v_wire') : Owed(v_wire'[i]) => v_wire'[i].of # c
  <2> SUFFICES ASSUME Owed(p)
               PROVE  /\ Excused(p.of)
                      /\ \/ Late(c)
                         \/ /\ \A j \in 1..Len(v_to_camera) : v_to_camera[j] # c
                            /\ \A i \in 1..Len(v_wire') : Owed(v_wire'[i]) => v_wire'[i].of # c
    OBVIOUS
  <2>1. Excused(p.of)
    BY <1>3 DEF OwingIsExcused
  <2>2. CASE p.of = c
    <3>1. \A j \in 1..Len(v_to_camera) : p.of < v_to_camera[j]
      BY <1>3 DEF InOrderOnTheLine
    <3>2. \A i \in 1..Len(v_wire') : Owed(v_wire'[i]) => p.of < v_wire'[i].of
      BY <1>3 DEF InOrderOnTheLine
    <3>3. /\ \A j \in 1..Len(v_to_camera) : v_to_camera[j] # c
          /\ \A i \in 1..Len(v_wire') : Owed(v_wire'[i]) => v_wire'[i].of # c
      BY <1>3, <2>2, <3>1, <3>2
    <3> QED
      BY <2>1, <3>3
  <2>3. CASE p.of # c
    <3>1. PICK f \in v_failed : f <= p.of
      BY <2>1, <2>3 DEF Excused, Late, c
    <3>2. f <= c
      BY <1>3, <3>1 DEF CameraTyping, c
    <3> QED
      BY <2>1, <3>2 DEF Late
  <2> QED
    BY <2>2, <2>3
<1>6. v_ack_seen /\ p.socket = v_ack_socket =>
        /\ Excused(p.of)
        /\ \/ Late(c)
           \/ /\ \A j \in 1..Len(v_to_camera) : v_to_camera[j] # c
              /\ \A i \in 1..Len(v_wire') : Owed(v_wire'[i]) => v_wire'[i].of # c
  BY <1>1, <1>3 DEF AckedSocket, c
<1>7. ASSUME NEW status, V!Return(status, p.of),
             status = "ok" => Owed(p) \/ (v_ack_seen /\ p.socket = v_ack_socket)
      PROVE  CameraInv'
  BY <1>1, <1>2, <1>3, <1>5, <1>6, <1>7, CameraReturns DEF c
<1>8. p.type \in {"value", "address"} \/ (p.type = "ack") => Owed(p)
  BY <1>3 DEF CameraPackets, Owed
<1>9. CASE V!WaitForValue
  BY <1>3, <1>4, <1>7, <1>8, <1>9 DEF V!WaitForValue, V!GoOn, V!host, p
<1>10. CASE V!WaitForAddress
  <2>1. V!Return(IF p.type = "address" THEN "ok" ELSE "protocol", p.of)
    BY <1>10 DEF V!WaitForAddress, p
  <2> QED
    BY <1>7, <1>8, <2>1
<1>11. CASE V!visca_wait_for_command
  <2>1. V!Matches(p) => Owed(p) \/ (v_ack_seen /\ p.socket = v_ack_socket)
    BY DEF V!Matches, Owed
  <2>2. CASE p.type = "ack"
    <3>1. CASE v_kind[c] = "move"
      <4>1. V!Return("ok", p.of)
        BY <1>11, <2>2, <3>1 DEF V!visca_wait_for_command, V!Current, p, c
      <4> QED
        BY <1>7, <1>8, <2>2, <4>1
    <3>2. CASE v_kind[c] # "move"
      <4>1. /\ v_ack_seen' = TRUE /\ v_ack_socket' = p.socket
            /\ UNCHANGED <<v_kind, v_waiting, v_result, v_failed>>
        BY <1>11, <2>2, <3>2 DEF V!visca_wait_for_command, V!Current, p, c
      <4>2. /\ p.socket \in 1..2 /\ p.of \in Nat
            /\ Excused(p.of)
            /\ \/ Late(c)
               \/ /\ \A j \in 1..Len(v_to_camera) : v_to_camera[j] # c
                  /\ \A i \in 1..Len(v_wire') : Owed(v_wire'[i]) => v_wire'[i].of # c
        BY <1>3, <1>5, <1>8, <2>2 DEF CameraPackets
      <4>3. ASSUME NEW d \in Nat, p.of <= d, d <= c PROVE Excused(d)
        <5>1. CASE Late(p.of)
          <6>1. PICK f \in v_failed : f <= p.of
            BY <5>1 DEF Late
          <6>2. f \in Nat
            BY DEF CameraTyping
          <6> QED
            BY <4>2, <4>3, <6>1, <6>2 DEF Excused, Late
        <5>2. CASE p.of = c
          BY <1>1, <1>3, <4>3, <5>2 DEF Excused, c
        <5> QED
          BY <4>2, <5>1, <5>2 DEF Excused, c
      <4>4. ASSUME NEW i \in 1..Len(v_wire'), v_wire'[i].socket = p.socket
            PROVE  Excused(v_wire'[i].of)
        <5>1. p.of <= v_wire'[i].of
          BY <1>3, <4>2, <4>4, SMTT(30) DEF InOrderOnTheLine
        <5>2. v_wire'[i].of \in 1..c
          BY <1>3 DEF CameraTyping, c
        <5>3. v_wire'[i].of \in Nat /\ v_wire'[i].of <= c
          BY <1>3, <5>2
        <5> QED
          BY <4>3, <5>1, <5>3
      <4>5. v_executing[p.socket] # 0 => Excused(v_executing[p.socket])
        <5>1. v_executing[p.socket] # 0 => p.of <= v_executing[p.socket]
          BY <1>3, <4>2 DEF InOrderOnTheLine
        <5>2. v_executing[p.socket] \in Nat /\ v_executing[p.socket] <= c
          BY <4>2 DEF CameraTyping, c
        <5> QED
          BY <4>3, <5>1, <5>2
      <4>6. /\ v_wire' \in Seq(CameraPackets) /\ InOrderOnTheLine'
            /\ \A i \in 1..Len(v_wire') : \E k \in 1..Len(v_wire) : v_wire'[i] = v_wire[k]
        BY <1>1, <1>2, <4>1, CameraDrops
      <4>7. CameraTyping'
        BY <1>1, <4>1, <4>2, <4>6 DEF CameraTyping
      <4>8. \A d : (Late(d)' <=> Late(d)) /\ (Excused(d)' <=> Excused(d))
        BY <4>1 DEF Late, Excused
      <4>9. OwingIsExcused'
        BY <1>1, <4>6, <4>8 DEF OwingIsExcused, Owed
      <4>10. AckedSocket'
        BY <1>1, <4>1, <4>2, <4>4, <4>5, <4>8 DEF AckedSocket, Owed, c
      <4> QED
        BY <4>1, <4>6, <4>7, <4>9, <4>10 DEF V!AnswerIsOwn
    <3> QED
      BY <3>1, <3>2
  <2>3. CASE p.type # "ack" /\ (p.type = "address" \/ ~V!Matches(p))
    BY <1>4, <1>11, <2>3, <1>3 DEF V!visca_wait_for_command, V!GoOn, V!host, p, CameraPackets
  <2>4. CASE p.type \in {"completion", "value"} /\ V!Matches(p)
    <3>1. V!Return("ok", p.of)
      BY <1>11, <2>4 DEF V!visca_wait_for_command, p
    <3> QED
      BY <1>7, <2>1, <2>4, <3>1
  <2>5. CASE p.type = "error" /\ V!Matches(p)
    <3>1. V!Return("camera", p.of)
      BY <1>11, <2>5 DEF V!visca_wait_for_command, p
    <3> QED
      BY <1>7, <3>1
  <2> QED
    BY <1>3, <2>2, <2>3, <2>4, <2>5 DEF CameraPackets
<1> QED
  BY <1>9, <1>10, <1>11

LEMMA CameraLoses == ASSUME CameraInv, V!Lose PROVE CameraInv'
<1>1. UNCHANGED <<v_kind, v_waiting, v_ack_seen, v_ack_socket, v_result, v_failed, v_executing>>
  BY DEF V!Lose, V!host
<1>2. Dropped(v_wire', v_wire) /\ Dropped(v_to_camera', v_to_camera)
  BY DEF V!Lose, Dropped
<1> QED
  BY <1>1, <1>2, CameraPasses

LEMMA CameraTimesOut == ASSUME CameraInv, V!Timeout PROVE CameraInv'
<1>1. /\ V!Return("timeout", 0) /\ v_waiting /\ "timeout" # "ok"
      /\ UNCHANGED <<v_to_camera, v_executing, v_wire>>
  BY DEF V!Timeout, V!camera, V!None
<1>2. Dropped(v_wire', v_wire)
  BY <1>1 DEF Dropped
<1> QED
  BY <1>1, <1>2, CameraReturns

LEMMA CameraInit == ASSUME V!Init PROVE CameraInv
<1> USE DEF V!Init, V!None, V!Socket
<1>1. CameraTyping
  <2>1. v_kind \in Seq(V!Kind) /\ v_to_camera \in Seq(Nat) /\ v_wire \in Seq(CameraPackets)
    BY EmptySeq
  <2>2. Len(v_kind) = 0 /\ Len(v_to_camera) = 0 /\ Len(v_wire) = 0
    OBVIOUS
  <2>3. v_executing \in [1..2 -> Nat] /\ \A s \in 1..2 : v_executing[s] <= 0
    OBVIOUS
  <2>4. v_waiting \in BOOLEAN /\ ~v_waiting /\ v_ack_seen \in BOOLEAN /\ v_failed = {}
    BY Zenon
  <2>5. v_ack_socket \in 0..2
    OBVIOUS
  <2> HIDE DEF V!Init
  <2> QED
    BY <2>1, <2>2, <2>3, <2>4, <2>5 DEF CameraTyping
<1>2. InOrderOnTheLine
  BY DEF InOrderOnTheLine
<1> QED
  BY <1>1, <1>2 DEF CameraInv, OwingIsExcused, AckedSocket, V!AnswerIsOwn

LEMMA CameraKept == ASSUME CameraInv, [V!Next]_v_vars PROVE CameraInv'
<1>1. CASE UNCHANGED v_vars
  <2>1. UNCHANGED <<v_kind, v_waiting, v_ack_seen, v_ack_socket, v_result, v_failed, v_executing,
                    v_wire, v_to_camera>>
    BY <1>1 DEF v_vars
  <2> QED
    BY <2>1, CameraPasses DEF Dropped
<1>2. CASE \E k \in V!Kind : V!visca_command(k)
  BY <1>2, CameraSends DEF V!visca_command
<1>3. CASE V!visca_inquiry
  BY <1>3, CameraSends DEF V!visca_inquiry, V!Kind
<1>4. CASE V!visca_camera_address_set
  BY <1>4, CameraSends DEF V!visca_camera_address_set, V!Kind
<1> QED
  BY <1>1, <1>2, <1>3, <1>4, CameraTakes, CameraCompletes, CameraLoses, CameraTimesOut, CameraReads
     DEF V!Next
-----------------------------------------------------------------------------
(***************************************************************************)
(* The gimbal. A packet carries the number that was next when it was sent: *)
(* as many numbers ago as calls were made since, and those are never more  *)
(* than there are numbers.                                                 *)
(***************************************************************************)
Requests == [sequence : Nat, command_id : {1, 2}, answer : BOOLEAN, call : Nat \ {0}]
GimbalPackets ==
  {f \in [is_ack : BOOLEAN, sequence : Nat, command_id : {1, 2},
          code : {"ok", "failed", "none", "long"}, call : Nat] : f.is_ack => f.call # 0}

GimbalTyping ==
  /\ r_next_sequence \in 1..LastSequence /\ r_sends \in Nat
  /\ r_request = R!Idle \/ r_request \in Requests
  /\ r_to_gimbal \in Seq(Requests) /\ r_to_host \in Seq(GimbalPackets)

\* The packet with this number was sent gone packets before the next one will be.
Numbered(sequence, gone, next) ==
  /\ gone \in 1..LastSequence /\ sequence \in 1..LastSequence
  /\ next - sequence = gone \/ next - sequence = gone - LastSequence

Gone(call, sent) == (sent + 1) - call

NumbersTellApart ==
  /\ \A i \in 1..Len(r_to_gimbal) :
       Numbered(r_to_gimbal[i].sequence, Gone(r_to_gimbal[i].call, r_sends), r_next_sequence)
  /\ \A i \in 1..Len(r_to_host) :
       r_to_host[i].call # 0 =>
         Numbered(r_to_host[i].sequence, Gone(r_to_host[i].call, r_sends), r_next_sequence)
  /\ r_request # R!Idle =>
       r_request.call = r_sends /\ Numbered(r_request.sequence, 1, r_next_sequence)

RsdkInv == GimbalTyping /\ NumbersTellApart /\ R!AnswerIsOwn

LEMMA RsdkInit == ASSUME LinksAssumption, R!Init PROVE RsdkInv
<1> USE DEF R!Init, R!Idle, R!None
<1>1. GimbalTyping
  <2>1. r_to_gimbal \in Seq(Requests) /\ r_to_host \in Seq(GimbalPackets)
    BY EmptySeq
  <2> QED
    BY <2>1 DEF GimbalTyping, LinksAssumption
<1>2. NumbersTellApart
  BY DEF NumbersTellApart
<1> QED
  BY <1>1, <1>2 DEF RsdkInv, R!AnswerIsOwn

\* One more packet: the numbers of the others were used one further packet ago.
LEMMA NumberAdvances ==
  ASSUME LinksAssumption, GimbalTyping, R!TakeSequence
  PROVE  /\ r_next_sequence' \in 1..LastSequence
         /\ Numbered(r_next_sequence, 1, r_next_sequence')
         /\ \A sequence \in Nat, gone \in Int :
              Numbered(sequence, gone, r_next_sequence) /\ gone < LastSequence =>
                Numbered(sequence, gone + 1, r_next_sequence')
<1> USE DEF LinksAssumption, GimbalTyping, R!TakeSequence, Numbered
<1>1. r_next_sequence' \in 1..LastSequence
  OBVIOUS
<1>2. Numbered(r_next_sequence, 1, r_next_sequence')
  OBVIOUS
<1>3. ASSUME NEW sequence \in Nat, NEW gone \in Int,
             Numbered(sequence, gone, r_next_sequence), gone < LastSequence
      PROVE  Numbered(sequence, gone + 1, r_next_sequence')
  BY <1>3
<1> QED
  BY <1>1, <1>2, <1>3

\* A number is not used again while a packet with it is under way.
LEMMA SameNumber ==
  ASSUME LinksAssumption, GimbalTyping, NEW sequence \in Nat, NEW gone \in Int,
         Numbered(sequence, gone, r_next_sequence), Numbered(sequence, 1, r_next_sequence)
  PROVE  gone = 1
BY DEF Numbered, GimbalTyping, LinksAssumption

\* One more packet: those under way went one more ago.
LEMMA GoneAdvances ==
  ASSUME LinksAssumption, NEW call \in Nat, NEW sent \in Nat, (sent + 1) - call < MaxLate
  PROVE  /\ Gone(call, sent) \in Int /\ Gone(call, sent) < LastSequence
         /\ Gone(call, sent + 1) = Gone(call, sent) + 1
BY DEF Gone, LinksAssumption

LEMMA GimbalIsSent ==
  ASSUME LinksAssumption, RsdkInv, NEW id \in {1, 2}, NEW wanted \in BOOLEAN,
         R!dji_rsdk_send_command(id, wanted)
  PROVE  RsdkInv'
<1> USE DEF RsdkInv
<1> DEFINE call == r_sends + 1
<1> DEFINE p == [sequence |-> r_next_sequence, command_id |-> id, answer |-> wanted, call |-> call]
<1>1. /\ r_sends' = call /\ R!TakeSequence /\ r_to_host' = r_to_host /\ R!InTime
      /\ r_request = R!Idle
      /\ \/ /\ r_to_gimbal' = Append(r_to_gimbal, p)
            /\ \/ r_request' = p /\ r_result' = r_result
               \/ r_request' = R!Idle /\ r_result'.status = "sent"
         \/ /\ r_to_gimbal' = r_to_gimbal /\ r_request' = R!Idle
            /\ r_result'.status \in {"DJI_RSDK_ERR_CAN", "DJI_RSDK_ERR_TIMEOUT"}
  BY DEF R!dji_rsdk_send_command, R!None
<1>2. p \in Requests /\ r_sends \in Nat /\ call \in Nat
  BY DEF GimbalTyping, Requests
<1>3. /\ r_next_sequence' \in 1..LastSequence
      /\ Numbered(r_next_sequence, 1, r_next_sequence')
      /\ \A sequence \in Nat, gone \in Int :
           Numbered(sequence, gone, r_next_sequence) /\ gone < LastSequence =>
             Numbered(sequence, gone + 1, r_next_sequence')
  BY <1>1, NumberAdvances
<1>4. Numbered(p.sequence, 1, r_next_sequence') /\ p.call = call /\ Gone(p.call, call) = 1
  BY <1>2, <1>3 DEF Gone
<1>5. /\ r_to_gimbal \in Seq(Requests) /\ r_to_host \in Seq(GimbalPackets)
      /\ Len(r_to_gimbal) \in Nat /\ Len(r_to_host) \in Nat
  BY DEF GimbalTyping
<1> HIDE DEF p
<1>6. ASSUME NEW i \in 1..Len(r_to_gimbal)
      PROVE  Numbered(r_to_gimbal[i].sequence, Gone(r_to_gimbal[i].call, call), r_next_sequence')
  <2> DEFINE q == r_to_gimbal[i]
  <2>6. q \in Requests
    BY <1>5
  <2>1. q \in Requests /\ q.call \in Nat /\ q.call # 0 /\ q.sequence \in Nat
    BY <2>6 DEF Requests
  <2>2. call - q.call < MaxLate
    <3>1. i \in DOMAIN r_to_gimbal
      BY <1>5
    <3>2. \A j \in DOMAIN r_to_gimbal : r_to_gimbal[j].call = 0 \/ r_sends + 1 - r_to_gimbal[j].call < MaxLate
      BY <1>1, Zenon DEF R!InTime, R!None
    <3>3. r_to_gimbal[i].call = 0 \/ r_sends + 1 - r_to_gimbal[i].call < MaxLate
      BY <3>1, <3>2, Zenon
    <3> QED
      BY <1>2, <2>1, <3>3 DEF LinksAssumption
  <2>3. /\ Gone(q.call, r_sends) \in Int /\ Gone(q.call, r_sends) < LastSequence
        /\ Gone(q.call, call) = Gone(q.call, r_sends) + 1
    BY <1>2, <2>1, <2>2, GoneAdvances
  <2>4. Numbered(q.sequence, Gone(q.call, r_sends), r_next_sequence)
    BY DEF NumbersTellApart
  <2> HIDE DEF q
  <2>5. Numbered(q.sequence, Gone(q.call, call), r_next_sequence')
    BY <1>3, <2>1, <2>3, <2>4
  <2> QED
    BY <2>5 DEF q
<1>7. ASSUME NEW i \in 1..Len(r_to_host), r_to_host[i].call # 0
      PROVE  Numbered(r_to_host[i].sequence, Gone(r_to_host[i].call, call), r_next_sequence')
  <2> DEFINE q == r_to_host[i]
  <2>6. q \in GimbalPackets
    BY <1>5
  <2>1. q \in GimbalPackets /\ q.call \in Nat /\ q.call # 0 /\ q.sequence \in Nat
    BY <2>6, <1>7 DEF GimbalPackets
  <2>2. call - q.call < MaxLate
    <3>1. i \in DOMAIN r_to_host
      BY <1>5
    <3>2. \A j \in DOMAIN r_to_host : r_to_host[j].call = 0 \/ r_sends + 1 - r_to_host[j].call < MaxLate
      BY <1>1, Zenon DEF R!InTime, R!None
    <3>3. r_to_host[i].call = 0 \/ r_sends + 1 - r_to_host[i].call < MaxLate
      BY <3>1, <3>2, Zenon
    <3> QED
      BY <1>2, <2>1, <3>3 DEF LinksAssumption
  <2>3. /\ Gone(q.call, r_sends) \in Int /\ Gone(q.call, r_sends) < LastSequence
        /\ Gone(q.call, call) = Gone(q.call, r_sends) + 1
    BY <1>2, <2>1, <2>2, GoneAdvances
  <2>4. Numbered(q.sequence, Gone(q.call, r_sends), r_next_sequence)
    BY <1>7 DEF NumbersTellApart
  <2> HIDE DEF q
  <2>5. Numbered(q.sequence, Gone(q.call, call), r_next_sequence')
    BY <1>3, <2>1, <2>3, <2>4
  <2> QED
    BY <2>5 DEF q
<1>8. GimbalTyping'
  <2>1. r_to_gimbal' \in Seq(Requests)
    BY <1>1, <1>2, <1>5
  <2> QED
    BY <1>1, <1>2, <1>3, <1>5, <2>1 DEF GimbalTyping
<1>9. NumbersTellApart'
  <2>1. ASSUME NEW i \in 1..Len(r_to_gimbal')
        PROVE  Numbered(r_to_gimbal'[i].sequence, Gone(r_to_gimbal'[i].call, call), r_next_sequence')
    <3>1. CASE r_to_gimbal' = r_to_gimbal
      BY <1>6, <3>1
    <3>2. CASE r_to_gimbal' = Append(r_to_gimbal, p)
      <4>1. CASE i \in 1..Len(r_to_gimbal)
        <5>1. r_to_gimbal'[i] = r_to_gimbal[i]
          BY <1>5, <3>2, <4>1
        <5> QED
          BY <1>6, <4>1, <5>1
      <4>2. CASE i = Len(r_to_gimbal) + 1
        <5>1. r_to_gimbal'[i] = p
          BY <1>5, <3>2, <4>2
        <5> QED
          BY <1>4, <5>1
      <4> QED
        BY <1>2, <1>5, <3>2, <4>1, <4>2
    <3> QED
      BY <1>1, <3>1, <3>2
  <2>2. r_request' # R!Idle => r_request' = p
    BY <1>1
  <2> QED
    BY <1>1, <1>4, <1>7, <2>1, <2>2 DEF NumbersTellApart, R!Idle
<1> QED
  BY <1>1, <1>8, <1>9 DEF R!AnswerIsOwn

\* A queue from which packets were taken, and to which one that is numbered was added.
LEMMA RsdkQueues ==
  ASSUME RsdkInv, UNCHANGED <<r_next_sequence, r_sends>>,
         NEW Q, Q \in {r_request, R!Idle}, r_request' = Q,
         Dropped(r_to_gimbal', r_to_gimbal),
         \/ Dropped(r_to_host', r_to_host)
         \/ \E f \in GimbalPackets :
              /\ r_to_host' = Append(r_to_host, f)
              /\ f.call # 0 => Numbered(f.sequence, Gone(f.call, r_sends), r_next_sequence)
  PROVE  GimbalTyping' /\ NumbersTellApart'
<1> USE DEF RsdkInv
<1>1. /\ r_to_gimbal' \in Seq(Requests)
      /\ \E a \in Nat : Shift(r_to_gimbal', r_to_gimbal, a)
  BY DroppedShift, Zenon DEF GimbalTyping
<1>2. \A i \in 1..Len(r_to_gimbal') : \E k \in 1..Len(r_to_gimbal) : r_to_gimbal'[i] = r_to_gimbal[k]
  BY <1>1 DEF Shift
<1> DEFINE HostNumbered ==
      /\ r_to_host' \in Seq(GimbalPackets)
      /\ \A i \in 1..Len(r_to_host') :
           r_to_host'[i].call # 0 =>
             Numbered(r_to_host'[i].sequence, Gone(r_to_host'[i].call, r_sends), r_next_sequence)
<1>3. HostNumbered
  <2>1. CASE Dropped(r_to_host', r_to_host)
    <3>1. /\ r_to_host' \in Seq(GimbalPackets)
          /\ \E a \in Nat : Shift(r_to_host', r_to_host, a)
      BY <2>1, DroppedShift, Zenon DEF GimbalTyping
    <3>2. \A i \in 1..Len(r_to_host') : \E k \in 1..Len(r_to_host) : r_to_host'[i] = r_to_host[k]
      BY <3>1 DEF Shift
    <3> QED
      BY <3>1, <3>2 DEF NumbersTellApart
  <2>2. ASSUME NEW f \in GimbalPackets, r_to_host' = Append(r_to_host, f),
               f.call # 0 => Numbered(f.sequence, Gone(f.call, r_sends), r_next_sequence)
        PROVE  HostNumbered
    <3>1. r_to_host \in Seq(GimbalPackets) /\ Len(r_to_host) \in Nat
      BY DEF GimbalTyping
    <3>2. /\ r_to_host' \in Seq(GimbalPackets)
          /\ \A i \in 1..Len(r_to_host') :
               \/ i \in 1..Len(r_to_host) /\ r_to_host'[i] = r_to_host[i]
               \/ r_to_host'[i] = f
      BY <2>2, <3>1
    <3> QED
      BY <2>2, <3>2 DEF NumbersTellApart
  <2> QED
    BY <2>1, <2>2
<1>4. GimbalTyping'
  BY <1>1, <1>3 DEF GimbalTyping
<1>5. NumbersTellApart'
  BY <1>2, <1>3 DEF NumbersTellApart, R!Idle
<1> QED
  BY <1>4, <1>5

LEMMA GimbalIsAnswered == ASSUME LinksAssumption, RsdkInv, R!dji_rsdk_request PROVE RsdkInv'
<1> USE DEF RsdkInv
<1> DEFINE f == Head(r_to_host)
<1>1. /\ r_to_host # <<>> /\ r_to_host' = Tail(r_to_host) /\ r_request # R!Idle
      /\ UNCHANGED <<r_next_sequence, r_to_gimbal, r_sends>>
  BY DEF R!dji_rsdk_request
<1>2. f \in GimbalPackets /\ (f.call # 0 => Numbered(f.sequence, Gone(f.call, r_sends), r_next_sequence))
  <2>1. Len(r_to_host) \in Nat /\ Len(r_to_host) > 0 /\ f = r_to_host[1] /\ r_to_host \in Seq(GimbalPackets)
    BY <1>1, EmptySeq DEF GimbalTyping
  <2>2. 1 \in 1..Len(r_to_host) /\ r_to_host[1] \in GimbalPackets
    BY <2>1
  <2>3. r_to_host[1].call # 0 =>
          Numbered(r_to_host[1].sequence, Gone(r_to_host[1].call, r_sends), r_next_sequence)
    BY <2>2, Zenon DEF NumbersTellApart
  <2> QED
    BY <2>1, <2>2, <2>3, Zenon
<1>3. \/ r_request' = r_request /\ r_result' = r_result
      \/ /\ R!Answers(f) /\ r_request' = R!Idle
         /\ r_result'.answer = f.call /\ r_result'.call = r_request.call
  <2>1. CASE ~R!Answers(f)
    BY <2>1 DEF R!dji_rsdk_request
  <2>2. CASE R!Answers(f)
    <3>1. f.code \in {"ok", "failed", "none", "long"}
      BY <1>2 DEF GimbalPackets
    <3>2. \E status : R!Return(status, f.call)
      BY <2>2, <3>1 DEF R!dji_rsdk_request
    <3> QED
      BY <2>2, <3>2 DEF R!Return
  <2> QED
    BY <2>1, <2>2
<1> HIDE DEF f
<1>4. GimbalTyping' /\ NumbersTellApart'
  <2>1. Dropped(r_to_host', r_to_host) /\ Dropped(r_to_gimbal', r_to_gimbal)
    BY <1>1 DEF Dropped
  <2> QED
    BY <1>1, <1>3, <2>1, RsdkQueues
<1>5. R!Answers(f) => f.call = r_request.call
  <2> SUFFICES ASSUME R!Answers(f) PROVE f.call = r_request.call
    OBVIOUS
  <2>1. f.call # 0 /\ f.call \in Nat /\ f.sequence \in Nat /\ f.sequence = r_request.sequence
    BY <1>2 DEF R!Answers, GimbalPackets
  <2>2. r_request.call = r_sends /\ Numbered(f.sequence, 1, r_next_sequence) /\ r_sends \in Nat
    BY <1>1, <2>1 DEF NumbersTellApart, GimbalTyping
  <2>3. Gone(f.call, r_sends) \in Int
    BY <2>1, <2>2 DEF Gone
  <2>4. Gone(f.call, r_sends) = 1
    BY <1>2, <2>1, <2>2, <2>3, SameNumber
  <2> QED
    BY <2>1, <2>2, <2>4 DEF Gone
<1>6. R!AnswerIsOwn'
  BY <1>3, <1>5 DEF R!AnswerIsOwn
<1> QED
  BY <1>4, <1>6

LEMMA RsdkKept == ASSUME LinksAssumption, RsdkInv, [R!Next]_r_vars PROVE RsdkInv'
<1> USE DEF RsdkInv
<1> DEFINE Keeps == UNCHANGED <<r_next_sequence, r_sends, r_result>>
<1> DEFINE Same == Dropped(r_to_gimbal', r_to_gimbal) /\ r_request' \in {r_request, R!Idle}
<1>1. ASSUME Same, UNCHANGED <<r_next_sequence, r_sends>>, Dropped(r_to_host', r_to_host),
             R!AnswerIsOwn'
      PROVE  RsdkInv'
  BY <1>1, RsdkQueues
<1>2. CASE UNCHANGED r_vars
  <2>1. Same /\ Keeps /\ Dropped(r_to_host', r_to_host)
    BY <1>2 DEF r_vars, Dropped
  <2> QED
    BY <1>1, <2>1 DEF R!AnswerIsOwn
<1>3. CASE R!dji_rsdk_open \/ R!dji_rsdk_close
  <2>1. Same /\ Keeps /\ Dropped(r_to_host', r_to_host)
    BY <1>3 DEF R!dji_rsdk_open, R!dji_rsdk_close, Dropped
  <2> QED
    BY <1>1, <2>1 DEF R!AnswerIsOwn
<1>4. CASE R!RequestFails
  <2>1. /\ Same /\ UNCHANGED <<r_next_sequence, r_sends>> /\ Dropped(r_to_host', r_to_host)
        /\ r_result'.status \in {"DJI_RSDK_ERR_TIMEOUT", "DJI_RSDK_ERR_CAN"}
    BY <1>4 DEF R!RequestFails, R!Return, Dropped
  <2> QED
    BY <1>1, <2>1 DEF R!AnswerIsOwn
<1>5. CASE R!GimbalTakes
  <2> DEFINE p == Head(r_to_gimbal)
  <2>1. /\ r_to_gimbal # <<>> /\ Same /\ Keeps
        /\ \/ r_to_host' = r_to_host
           \/ \E code \in {"ok", "failed", "none", "long"} :
                r_to_host' = Append(r_to_host, R!Packet(TRUE, p.sequence, p.command_id, code, p.call))
    BY <1>5 DEF R!GimbalTakes, Dropped
  <2>2. CASE r_to_host' = r_to_host
    BY <1>1, <2>1, <2>2 DEF R!AnswerIsOwn, Dropped
  <2>3. ASSUME NEW code \in {"ok", "failed", "none", "long"}, NEW f,
               f = R!Packet(TRUE, p.sequence, p.command_id, code, p.call),
               r_to_host' = Append(r_to_host, f)
        PROVE  RsdkInv'
    <3>1. p \in Requests /\ Numbered(p.sequence, Gone(p.call, r_sends), r_next_sequence)
      <4>1. /\ Len(r_to_gimbal) \in Nat /\ Len(r_to_gimbal) > 0 /\ p = r_to_gimbal[1]
            /\ r_to_gimbal \in Seq(Requests)
        BY <2>1, EmptySeq DEF GimbalTyping
      <4> QED
        BY <4>1 DEF NumbersTellApart
    <3>2. f \in GimbalPackets /\ f.sequence = p.sequence /\ f.call = p.call
      BY <2>3, <3>1 DEF R!Packet, GimbalPackets, Requests
    <3> QED
      BY <2>1, <2>3, <3>1, <3>2, RsdkQueues DEF R!AnswerIsOwn
  <2> QED
    BY <2>1, <2>2, <2>3
<1>6. CASE R!GimbalReports
  <2>1. PICK s \in 1..LastSequence, id \in {1, 2} :
          r_to_host' = Append(r_to_host, R!Packet(FALSE, s, id, "ok", 0))
    BY <1>6 DEF R!GimbalReports, R!Command, R!None
  <2> DEFINE f == R!Packet(FALSE, s, id, "ok", 0)
  <2>2. f \in GimbalPackets /\ f.call = 0
    BY DEF R!Packet, GimbalPackets, LinksAssumption
  <2>3. Same /\ Keeps
    BY <1>6 DEF R!GimbalReports, Dropped
  <2> HIDE DEF f
  <2> QED
    BY <2>1, <2>2, <2>3, RsdkQueues DEF R!AnswerIsOwn, f
<1>7. CASE \E id \in R!Command, wanted \in BOOLEAN : R!dji_rsdk_send_command(id, wanted)
  BY <1>7, GimbalIsSent DEF R!Command
<1> QED
  BY <1>2, <1>3, <1>4, <1>5, <1>6, <1>7, GimbalIsAnswered DEF R!Next
-----------------------------------------------------------------------------
(***************************************************************************)
(* The buttons. While no press has found a request waiting, at most one    *)
(* switch or toggle waits, and none before it: the pipeline is as the      *)
(* presses say, or will be when that one is served.                        *)
(***************************************************************************)
ButtonRequests ==
  [op : {"select", "snapshot", "start_all", "stop_all", "osd"}, to : Nat]

ButtonTyping ==
  /\ b_waiting \in Seq(ButtonRequests)
  /\ b_switches \in Nat /\ b_toggles \in Nat /\ b_current \in Nat
  /\ b_recording \in BOOLEAN /\ b_overlapped \in BOOLEAN

First(ops) == b_waiting # <<>> /\ b_waiting[1].op \in ops

AloneInTheQueue ==
  /\ \A i \in 2..Len(b_waiting) : b_waiting[i].op \in {"snapshot", "osd"}
  /\ IF First({"select"}) THEN b_waiting[1].to = b_switches % Channels
     ELSE b_current = b_switches % Channels
  /\ IF First({"start_all", "stop_all"})
     THEN b_waiting[1].op = "start_all" <=> b_toggles % 2 = 1
     ELSE b_recording <=> b_toggles % 2 = 1

ButtonsInv == ButtonTyping /\ (b_overlapped \/ AloneInTheQueue)

\* What the services were asked for.
AskedInv ==
  /\ DOMAIN b_asked = B!Service
  /\ \A b \in B!Hold : b_asked[B!Service_(b)] = <<b, "press">> => b \in b_down
  /\ b_lamp <=> b_lit

LEMMA NextModulo ==
  ASSUME NEW n \in Nat \ {0}, NEW x \in Nat
  PROVE  ((x % n) + 1) % n = (x + 1) % n
<1> DEFINE r == x % n
<1>1. r \in 0..(n - 1) /\ x = n * (x \div n) + r
  OBVIOUS
<1>2. x \div n \in Int
  OBVIOUS
<1>3. ASSUME NEW rest \in 0..(n - 1), NEW y \in Int, NEW q \in Int, y = n * q + rest
      PROVE  y % n = rest
  BY <1>3, SMTT(30)
<1>4. PICK q \in Int : x = n * q + r
  BY <1>1, <1>2
<1> HIDE DEF r
<1>5. CASE r + 1 < n
  <2>1. r + 1 \in 0..(n - 1) /\ x + 1 \in Int /\ x + 1 = n * q + (r + 1)
    BY <1>1, <1>4, <1>5
  <2>2. r + 1 \in Int /\ 0 \in Int /\ r + 1 = n * 0 + (r + 1)
    BY <1>1
  <2>3. (x + 1) % n = r + 1
    BY <1>3, <2>1
  <2>4. (r + 1) % n = r + 1
    BY <1>3, <2>1, <2>2
  <2> QED
    BY <2>3, <2>4 DEF r
<1>6. CASE r + 1 = n
  <2>1. 0 \in 0..(n - 1) /\ x + 1 \in Int /\ q + 1 \in Int /\ x + 1 = n * (q + 1) + 0
    BY <1>1, <1>4, <1>6
  <2>2. n \in Int /\ 1 \in Int /\ n = n * 1 + 0
    OBVIOUS
  <2>3. (x + 1) % n = 0
    BY <1>3, <2>1
  <2>4. n % n = 0
    BY <1>3, <2>1, <2>2
  <2> QED
    BY <1>6, <2>3, <2>4 DEF r
<1> QED
  BY <1>1, <1>5, <1>6

LEMMA ButtonsInit == ASSUME LinksAssumption, B!Init PROVE ButtonsInv /\ AskedInv
<1> USE DEF B!Init
<1>1. ButtonTyping
  <2>1. b_waiting \in Seq(ButtonRequests)
    BY EmptySeq
  <2> QED
    BY <2>1 DEF ButtonTyping
<1>2. AloneInTheQueue
  <2>1. 0 % Channels = 0
    BY DEF LinksAssumption
  <2> QED
    BY <2>1 DEF AloneInTheQueue, First
<1>3. DOMAIN b_asked = B!Service
  OBVIOUS
<1>4. \A b \in B!Hold : b_asked[B!Service_(b)] # <<b, "press">>
  BY DEF B!Nothing, B!Service_, B!Service, B!Hold
<1> QED
  BY <1>1, <1>2, <1>3, <1>4 DEF ButtonsInv, AskedInv

\* A request joins the queue.
LEMMA ButtonSubmits ==
  ASSUME LinksAssumption, ButtonsInv, NEW r \in ButtonRequests, B!Submit(r),
         b_switches' \in Nat, b_toggles' \in Nat, b_overlapped' \in BOOLEAN,
         r.op \in {"snapshot", "osd"} => UNCHANGED <<b_switches, b_toggles, b_overlapped>>,
         r.op \notin {"snapshot", "osd"} => B!Overlaps,
         r.op = "select" => /\ r.to = (b_current + 1) % Channels
                            /\ b_switches' = b_switches + 1 /\ b_toggles' = b_toggles,
         r.op \in {"start_all", "stop_all"} => /\ r.op = B!ToggleTo
                                               /\ b_toggles' = b_toggles + 1
                                               /\ b_switches' = b_switches
  PROVE  ButtonsInv'
<1> USE DEF ButtonsInv
<1>1. /\ b_waiting' = Append(b_waiting, r)
      /\ UNCHANGED <<b_current, b_recording>>
  BY DEF B!Submit, B!pipeline
<1>2. /\ b_waiting \in Seq(ButtonRequests) /\ b_waiting' \in Seq(ButtonRequests) /\ Len(b_waiting) \in Nat
      /\ Len(b_waiting') = Len(b_waiting) + 1 /\ b_waiting' # <<>>
      /\ \A i \in 1..Len(b_waiting) : b_waiting'[i] = b_waiting[i]
      /\ b_waiting'[Len(b_waiting) + 1] = r
      /\ b_waiting # <<>> => Len(b_waiting) > 0
      /\ b_waiting = <<>> => Len(b_waiting) = 0
  BY <1>1, EmptySeq DEF ButtonTyping
<1>3. ButtonTyping'
  BY <1>1, <1>2 DEF ButtonTyping
<1>4. r.op \in {"snapshot", "osd", "select", "start_all", "stop_all"}
  BY DEF ButtonRequests
<1>5. ASSUME ~b_overlapped' PROVE AloneInTheQueue'
  <2>1. AloneInTheQueue /\ (r.op \notin {"snapshot", "osd"} => b_waiting = <<>>)
    BY <1>4, <1>5, Zenon DEF B!Overlaps
  <2>2. CASE r.op \in {"snapshot", "osd"}
    <3>1. \A ops : ops \in {{"select"}, {"start_all", "stop_all"}} => (First(ops)' <=> First(ops))
      BY <1>2, <2>2 DEF First
    <3>2. First({"select"})' <=> First({"select"})
      BY <3>1 DEF First
    <3>3. First({"start_all", "stop_all"})' <=> First({"start_all", "stop_all"})
      BY <3>1 DEF First
    <3>4. First({"select"}) \/ First({"start_all", "stop_all"}) => b_waiting'[1] = b_waiting[1]
      BY <1>2 DEF First
    <3>5. \A i \in 2..Len(b_waiting') : b_waiting'[i].op \in {"snapshot", "osd"}
      <4>1. \A i \in 2..Len(b_waiting) : b_waiting[i].op \in {"snapshot", "osd"}
        BY <2>1 DEF AloneInTheQueue
      <4>2. ASSUME NEW i \in 2..Len(b_waiting') PROVE b_waiting'[i].op \in {"snapshot", "osd"}
        <5>1. \/ i \in 2..Len(b_waiting) /\ i \in 1..Len(b_waiting)
              \/ i = Len(b_waiting) + 1
          BY <1>2, <4>2
        <5>2. CASE i \in 2..Len(b_waiting) /\ i \in 1..Len(b_waiting)
          BY <1>2, <4>1, <5>2, Zenon
        <5>3. CASE i = Len(b_waiting) + 1
          BY <1>2, <2>2, <5>3, Zenon
        <5> QED
          BY <5>1, <5>2, <5>3
      <4> QED
        BY <4>2, Zenon
    <3> QED
      BY <1>1, <2>1, <2>2, <3>2, <3>3, <3>4, <3>5 DEF AloneInTheQueue
  <2>3. CASE r.op \notin {"snapshot", "osd"}
    <3>1. /\ b_waiting'[1] = r /\ \A i \in 2..Len(b_waiting') : b_waiting'[i].op \in {"snapshot", "osd"}
          /\ ~First({"select"}) /\ ~First({"start_all", "stop_all"})
          /\ First({"select"})' <=> r.op = "select"
          /\ First({"start_all", "stop_all"})' <=> r.op \in {"start_all", "stop_all"}
      BY <1>2, <2>1, <2>3 DEF First
    <3>2. b_current = b_switches % Channels /\ (b_recording <=> b_toggles % 2 = 1)
      BY <2>1, <3>1 DEF AloneInTheQueue
    <3>3. CASE r.op = "select"
      <4>1. r.to = (b_switches + 1) % Channels
        BY <3>2, <3>3, NextModulo DEF ButtonTyping, LinksAssumption
      <4> QED
        BY <1>1, <3>1, <3>2, <3>3, <4>1 DEF AloneInTheQueue
    <3>4. CASE r.op \in {"start_all", "stop_all"}
      <4>1. (b_toggles + 1) % 2 = 1 <=> b_toggles % 2 # 1
        BY DEF ButtonTyping
      <4>2. r.op = "start_all" <=> b_toggles % 2 # 1
        BY <3>2, <3>4 DEF B!ToggleTo
      <4> QED
        BY <1>1, <3>1, <3>2, <3>4, <4>1, <4>2 DEF AloneInTheQueue
    <3> QED
      BY <1>4, <2>3, <3>3, <3>4
  <2> QED
    BY <2>2, <2>3
<1>6. b_overlapped' \in BOOLEAN
  BY <1>3 DEF ButtonTyping
<1> QED
  BY <1>3, <1>5, <1>6

\* The worker serves the first of them, or fails.
LEMMA WorkerServes ==
  ASSUME ButtonsInv, B!WorkerExecutes \/ B!WorkerFails
  PROVE  ButtonsInv'
<1> USE DEF ButtonsInv
<1>1. /\ b_waiting # <<>> /\ b_waiting' = Tail(b_waiting) /\ UNCHANGED <<b_switches, b_toggles>>
  BY DEF B!WorkerExecutes, B!WorkerFails
<1> DEFINE r == b_waiting[1]
<1>2. /\ b_waiting' \in Seq(ButtonRequests) /\ Len(b_waiting) \in Nat /\ Len(b_waiting) > 0
      /\ Len(b_waiting') = Len(b_waiting) - 1
      /\ \A i \in 1..Len(b_waiting') : b_waiting'[i] = b_waiting[i + 1]
      /\ r \in ButtonRequests /\ Head(b_waiting) = r
      /\ b_waiting' # <<>> => Len(b_waiting') > 0
  BY <1>1, EmptySeq, HeadTailProperties DEF ButtonTyping
<1>3. r.op \in {"select", "snapshot", "start_all", "stop_all", "osd"} /\ r.to \in Nat
  BY <1>2 DEF ButtonRequests
<1>4. CASE B!WorkerFails
  <2>1. b_overlapped' = TRUE /\ UNCHANGED <<b_current, b_recording>>
    BY <1>4 DEF B!WorkerFails, B!pipeline
  <2>2. b_overlapped' \in BOOLEAN /\ b_overlapped'
    BY <2>1, Zenon
  <2> QED
    BY <1>1, <1>2, <2>1, <2>2 DEF ButtonTyping
<1>5. CASE B!WorkerExecutes
  <2>1. /\ b_overlapped' = b_overlapped
        /\ b_current' = IF r.op = "select" THEN r.to ELSE b_current
        /\ b_recording' = IF r.op = "start_all" THEN TRUE
                          ELSE IF r.op = "stop_all" THEN FALSE ELSE b_recording
    BY <1>2, <1>3, <1>5 DEF B!WorkerExecutes, B!pipeline
  <2>2. b_current' \in Nat
    BY <1>3, <2>1 DEF ButtonTyping
  <2>3. b_recording' \in BOOLEAN
    BY <2>1, Zenon DEF ButtonTyping
  <2>4. ButtonTyping'
    BY <1>1, <1>2, <2>1, <2>2, <2>3 DEF ButtonTyping
  <2>5. ASSUME AloneInTheQueue PROVE AloneInTheQueue'
    <3>1. \A i \in 1..Len(b_waiting') : b_waiting'[i].op \in {"snapshot", "osd"}
      <4>1. \A i \in 1..Len(b_waiting') : i + 1 \in 2..Len(b_waiting)
        BY <1>2
      <4> QED
        BY <1>2, <2>5, <4>1 DEF AloneInTheQueue
    <3>2. ~First({"select"})' /\ ~First({"start_all", "stop_all"})'
      BY <1>2, <3>1 DEF First
    <3>3. \A i \in 2..Len(b_waiting') : b_waiting'[i].op \in {"snapshot", "osd"}
      BY <1>2, <3>1
    <3>4. b_current' = b_switches % Channels
      BY <1>1, <2>1, <2>5 DEF AloneInTheQueue, First
    <3>5. b_recording' <=> b_toggles % 2 = 1
      <4>1. CASE r.op \in {"start_all", "stop_all"}
        <5>1. b_recording' <=> r.op = "start_all"
          BY <2>1, <4>1
        <5>2. r.op = "start_all" <=> b_toggles % 2 = 1
          BY <1>1, <2>5, <4>1 DEF AloneInTheQueue, First
        <5> QED
          BY <5>1, <5>2
      <4>2. CASE r.op \notin {"start_all", "stop_all"}
        <5>1. b_recording' = b_recording
          BY <2>1, <4>2
        <5>2. b_recording <=> b_toggles % 2 = 1
          BY <2>5, <4>2 DEF AloneInTheQueue, First
        <5> QED
          BY <5>1, <5>2
      <4> QED
        BY <4>1, <4>2
    <3> QED
      BY <1>1, <3>2, <3>3, <3>4, <3>5 DEF AloneInTheQueue
  <2> QED
    BY <2>1, <2>4, <2>5
<1> QED
  BY <1>4, <1>5

\* A device service accepts what a button asks for.
LEMMA ServiceIsAsked ==
  ASSUME AskedInv, NEW service \in B!Service, NEW what,
         B!Ask(service, what), b_lamp' <=> b_lit',
         \A b \in B!Hold : IF B!Service_(b) = service THEN what = <<b, "press">> => b \in b_down'
                           ELSE b \in b_down => b \in b_down'
  PROVE  AskedInv'
<1>1. b_asked' = [b_asked EXCEPT ![service] = what]
  BY DEF B!Ask
<1>2. DOMAIN b_asked' = B!Service
  BY <1>1 DEF AskedInv
<1>3. ASSUME NEW b \in B!Hold, b_asked'[B!Service_(b)] = <<b, "press">> PROVE b \in b_down'
  <2>1. B!Service_(b) \in B!Service
    BY DEF B!Service_, B!Service, B!Hold
  <2> QED
    BY <1>1, <1>3, <2>1 DEF AskedInv
<1> QED
  BY <1>2, <1>3 DEF AskedInv

LEMMA ButtonsStay ==
  ASSUME ButtonsInv, UNCHANGED <<b_current, b_recording, b_waiting, b_switches, b_toggles, b_overlapped>>
  PROVE  ButtonsInv'
BY DEF ButtonsInv, ButtonTyping, AloneInTheQueue, First

LEMMA AskedStays ==
  ASSUME AskedInv, UNCHANGED <<b_asked, b_down, b_lamp, b_lit>>
  PROVE  AskedInv'
BY DEF AskedInv

LEMMA HoldButtonAsks ==
  ASSUME AskedInv, NEW b \in B!Hold, NEW event \in {"press", "release"}, B!HoldButton(b, event)
  PROVE  AskedInv'
<1>1. /\ B!Ask(B!Service_(b), <<b, event>>) /\ UNCHANGED <<b_lamp, b_lit>>
      /\ b_down' = IF event = "press" THEN b_down \cup {b} ELSE b_down \ {b}
  BY DEF B!HoldButton, B!Asks
<1>2. B!Service_(b) \in B!Service
  BY DEF B!Service_, B!Service, B!Hold
<1>3. ASSUME NEW c \in B!Hold
      PROVE  IF B!Service_(c) = B!Service_(b) THEN <<b, event>> = <<c, "press">> => c \in b_down'
             ELSE c \in b_down => c \in b_down'
  BY <1>1
<1>4. b_lamp' <=> b_lit'
  BY <1>1 DEF AskedInv
<1> QED
  BY <1>1, <1>2, <1>3, <1>4, ServiceIsAsked

LEMMA OneShotAsks ==
  ASSUME AskedInv, NEW service \in B!Service, NEW b, B!OneShot(service, b)
  PROVE  AskedInv'
<1>1. B!Ask(service, <<b, "click">>) /\ UNCHANGED <<b_lamp, b_down, b_lit>>
  BY DEF B!OneShot
<1>2. \A c \in B!Hold : <<b, "click">> # <<c, "press">>
  OBVIOUS
<1>3. b_lamp' <=> b_lit'
  BY <1>1 DEF AskedInv
<1> QED
  BY <1>1, <1>2, <1>3, ServiceIsAsked

LEMMA LaserAsks ==
  ASSUME AskedInv, NEW on \in BOOLEAN, B!LaserContinuous(on)
  PROVE  AskedInv'
<1> DEFINE what == <<IF on THEN "continuous" ELSE "standby", "click">>
<1>1. B!Ask("laser", what) /\ b_lamp' = on /\ b_lit' = on /\ b_down' = b_down
  BY DEF B!LaserContinuous, B!Lamp
<1>2. (\A c \in B!Hold : what # <<c, "press">>) /\ "laser" \in B!Service
  BY DEF B!Service
<1>3. b_lamp' <=> b_lit'
  BY <1>1
<1> HIDE DEF what
<1> QED
  BY <1>1, <1>2, <1>3, ServiceIsAsked

LEMMA CenterAsks == ASSUME AskedInv, B!GimbalCenter PROVE AskedInv'
<1> DEFINE what == <<"gimbal_center", "click">>
<1>1. /\ B!Ask("gimbal", what) /\ UNCHANGED <<b_lamp, b_lit>>
      /\ b_down' = {b \in b_down : B!Service_(b) # "gimbal"}
  BY DEF B!GimbalCenter
<1>2. (\A c \in B!Hold : what # <<c, "press">>) /\ "gimbal" \in B!Service
  BY DEF B!Service
<1>3. b_lamp' <=> b_lit'
  BY <1>1 DEF AskedInv
<1> HIDE DEF what
<1> QED
  BY <1>1, <1>2, <1>3, ServiceIsAsked

LEMMA ButtonsKept ==
  ASSUME LinksAssumption, ButtonsInv, AskedInv, [B!Next]_b_vars
  PROVE  ButtonsInv' /\ AskedInv'
<1>1. CASE UNCHANGED b_vars
  BY <1>1, ButtonsStay, AskedStays DEF b_vars
<1>2. CASE B!WorkerExecutes \/ B!WorkerFails
  <2>1. UNCHANGED <<b_asked, b_down, b_lamp, b_lit>>
    BY <1>2 DEF B!WorkerExecutes, B!WorkerFails
  <2> QED
    BY <1>2, <2>1, WorkerServes, AskedStays
<1>3. CASE B!actions_handle
  <2>1. ASSUME NEW r \in ButtonRequests, B!Submit(r) PROVE AskedInv'
    <3>1. UNCHANGED <<b_asked, b_down, b_lamp, b_lit>>
      BY <2>1 DEF B!Submit
    <3> QED
      BY <3>1, AskedStays
  <2>2. ASSUME NEW service, NEW what, B!Ask(service, what) PROVE ButtonsInv'
    BY <2>2, ButtonsStay DEF B!Ask, B!pipeline
  <2>3. b_current \in Nat /\ (b_current + 1) % Channels \in Nat
    BY DEF ButtonsInv, ButtonTyping, LinksAssumption
  <2>4. ASSUME B!Overlaps PROVE b_overlapped' \in BOOLEAN
    BY <2>4, Zenon DEF B!Overlaps, ButtonsInv, ButtonTyping
  <2>5. b_switches + 1 \in Nat /\ b_toggles + 1 \in Nat /\ b_switches \in Nat /\ b_toggles \in Nat
        /\ b_overlapped \in BOOLEAN
    BY DEF ButtonsInv, ButtonTyping
  <2>6. CASE B!VideoSwitch
    <3> DEFINE r == [op |-> "select", to |-> (b_current + 1) % Channels]
    <3>1. r \in ButtonRequests /\ r.op = "select" /\ r.to = (b_current + 1) % Channels
      BY <2>3 DEF ButtonRequests
    <3>2. B!Submit(r) /\ B!Overlaps /\ b_switches' = b_switches + 1 /\ b_toggles' = b_toggles
      BY <2>6 DEF B!VideoSwitch
    <3> HIDE DEF r
    <3> QED
      BY <2>1, <2>4, <2>5, <3>1, <3>2, ButtonSubmits
  <2>7. CASE B!Snapshot
    <3> DEFINE r == [op |-> "snapshot", to |-> b_current]
    <3>1. r \in ButtonRequests /\ r.op = "snapshot"
      BY <2>3 DEF ButtonRequests
    <3>2. B!Submit(r) /\ UNCHANGED <<b_switches, b_toggles, b_overlapped>>
      BY <2>7 DEF B!Snapshot
    <3> HIDE DEF r
    <3> QED
      BY <2>1, <2>5, <3>1, <3>2, ButtonSubmits
  <2>8. CASE B!RecordToggle
    <3> DEFINE r == [op |-> B!ToggleTo, to |-> 0]
    <3>1. r \in ButtonRequests /\ r.op = B!ToggleTo /\ r.op \in {"start_all", "stop_all"}
      BY DEF ButtonRequests, B!ToggleTo
    <3>2. B!Submit(r) /\ B!Overlaps /\ b_toggles' = b_toggles + 1 /\ b_switches' = b_switches
      BY <2>8 DEF B!RecordToggle
    <3> HIDE DEF r
    <3> QED
      BY <2>1, <2>4, <2>5, <3>1, <3>2, ButtonSubmits
  <2>9. CASE B!OsdEnabled
    <3>1. PICK on \in {0, 1} : B!Submit([op |-> "osd", to |-> on])
      BY <2>9 DEF B!OsdEnabled
    <3> DEFINE r == [op |-> "osd", to |-> on]
    <3>2. r \in ButtonRequests /\ r.op = "osd"
      BY DEF ButtonRequests
    <3>3. B!Submit(r) /\ UNCHANGED <<b_switches, b_toggles, b_overlapped>>
      BY <2>9, <3>1 DEF B!OsdEnabled
    <3> HIDE DEF r
    <3> QED
      BY <2>1, <2>5, <3>2, <3>3, ButtonSubmits
  <2>10. CASE \E b \in B!Hold, event \in {"press", "release"} : B!HoldButton(b, event)
    BY <2>2, <2>10, HoldButtonAsks DEF B!HoldButton
  <2>11. ASSUME NEW service \in B!Service, NEW b, B!OneShot(service, b)
         PROVE  ButtonsInv' /\ AskedInv'
    BY <2>2, <2>11, OneShotAsks DEF B!OneShot
  <2>12. CASE \E on \in BOOLEAN : B!LaserContinuous(on)
    BY <2>2, <2>12, LaserAsks DEF B!LaserContinuous
  <2>13. CASE B!GimbalCenter
    BY <2>2, <2>13, CenterAsks DEF B!GimbalCenter
  <2>14. CASE B!Refused
    BY <2>14, ButtonsStay, AskedStays DEF B!Refused, B!pipeline, B!history
  <2>15. CASE \/ B!OneShot("motor", "trigger") \/ B!OneShot("unlock", "unlock")
              \/ B!OneShot("thermal", "thermal_pseudocolor") \/ B!OneShot("laser", "laser_single")
    <3>1. "motor" \in B!Service /\ "unlock" \in B!Service /\ "thermal" \in B!Service /\ "laser" \in B!Service
      BY DEF B!Service
    <3> QED
      BY <2>11, <2>15, <3>1, Zenon
  <2> QED
    BY <1>3, <2>6, <2>7, <2>8, <2>9, <2>10, <2>12, <2>13, <2>14, <2>15, Zenon
       DEF B!actions_handle
<1> QED
  BY <1>1, <1>2, <1>3 DEF B!Next

LEMMA ButtonsCount == ASSUME ButtonsInv, AskedInv PROVE PressesCount
<1>1. ASSUME b_waiting = <<>>, ~b_overlapped
      PROVE  b_current = b_switches % Channels /\ (b_recording <=> b_toggles % 2 = 1)
  BY <1>1 DEF ButtonsInv, AloneInTheQueue, First
<1> QED
  BY <1>1 DEF PressesCount, B!PressesCount, AskedInv
-----------------------------------------------------------------------------
(***************************************************************************)
(* The capture driver. A context counts the frames that are out, and what  *)
(* the capture thread holds of it; one that counts nothing is about to be  *)
(* destroyed. A buffer is queued, taken or out, never two of them, so that *)
(* a frame that is made is a new one.                                      *)
(***************************************************************************)
Contexts ==
  [alive : BOOLEAN, fd : {"none", "open", "closed"}, closing : BOOLEAN, refs : Nat,
   exported : SUBSET Buffer, queued : SUBSET Buffer]

CaptureTyping ==
  /\ c_native \in [1..MaxOpens -> Contexts]
  /\ c_frames \subseteq (1..MaxOpens) \X Buffer /\ IsFiniteSet(c_frames)
  /\ c_opens \in 0..MaxOpens /\ c_ctx \in 0..c_opens
  /\ c_taken \subseteq Buffer /\ c_dying \subseteq 1..MaxOpens
  /\ c_pc \in {"closed", "native", "ffmpeg", "open", "wrap", "close", "close_fd", "close_forget",
               "close_unref"}

Held(frames_out, n) == {f \in frames_out : f[1] = n}

\* What the capture thread holds of a context.
Mine(n, context, taken, opening) ==
  IF n = context THEN 1 + Cardinality(taken) ELSE IF n = opening THEN 1 ELSE 0
Opened == IF c_pc = "native" THEN c_opens ELSE 0

ContextSound(r, held, mine, dies) ==
  /\ r.fd = "closed" => r.closing
  /\ IF r.alive THEN /\ r.refs = held + mine
                     /\ r.refs = 0 <=> dies
                     /\ mine = 0 => r.fd = "none"
     ELSE held = 0 /\ mine = 0 /\ ~dies

RefsCounted ==
  \A n \in 1..MaxOpens :
    /\ ContextSound(c_native[n], Cardinality(Held(c_frames, n)), Mine(n, c_ctx, c_taken, Opened),
                    n \in c_dying)
    /\ c_native[n].alive => n <= c_opens

BuffersApart ==
  /\ \A f \in c_frames : f[2] \notin c_native[f[1]].queued
  /\ \A b \in c_taken : b \notin c_native[c_ctx].queued /\ <<c_ctx, b>> \notin c_frames

ThreadPlace ==
  /\ c_pc \in {"closed", "native", "ffmpeg"} => c_ctx = 0
  /\ c_pc = "native" => c_opens # 0 /\ \A f \in c_frames : f[1] # c_opens
  /\ c_pc \in {"wrap", "close_fd", "close_forget", "close_unref"} => c_ctx # 0
  /\ c_pc \in {"close_fd", "close_forget"} => c_native[c_ctx].closing
  /\ c_pc = "close_unref" => c_native[c_ctx].fd = "none"
  /\ IF c_pc = "wrap" THEN \E b \in Buffer : c_taken = {b} ELSE c_taken = {}
  /\ c_pc = "closed" => c_decoder = {}

CaptureInv == CaptureTyping /\ RefsCounted /\ BuffersApart /\ ThreadPlace /\ ~c_stray

LEMMA HeldCounts ==
  ASSUME NEW lent, IsFiniteSet(lent), NEW n
  PROVE  /\ IsFiniteSet(Held(lent, n)) /\ Cardinality(Held(lent, n)) \in Nat
         /\ Cardinality(Held(lent, n)) = 0 <=> \A f \in lent : f[1] # n
         /\ \A f : f \notin lent =>
              Cardinality(Held(lent \cup {f}, n)) = Cardinality(Held(lent, n)) + (IF f[1] = n THEN 1 ELSE 0)
         /\ \A f \in lent :
              Cardinality(Held(lent \ {f}, n)) = Cardinality(Held(lent, n)) - (IF f[1] = n THEN 1 ELSE 0)
<1>1. IsFiniteSet(Held(lent, n)) /\ Cardinality(Held(lent, n)) \in Nat
  BY FS_Subset, FS_CardinalityType DEF Held
<1>2. Cardinality(Held(lent, n)) = 0 <=> \A f \in lent : f[1] # n
  BY <1>1, FS_EmptySet DEF Held
<1>3. ASSUME NEW f, f \notin lent
      PROVE  Cardinality(Held(lent \cup {f}, n)) = Cardinality(Held(lent, n)) + (IF f[1] = n THEN 1 ELSE 0)
  <2>1. CASE f[1] = n
    <3>1. Held(lent \cup {f}, n) = Held(lent, n) \cup {f} /\ f \notin Held(lent, n)
      BY <1>3, <2>1 DEF Held
    <3> QED
      BY <1>1, <2>1, <3>1, FS_AddElement
  <2>2. CASE f[1] # n
    <3>1. Held(lent \cup {f}, n) = Held(lent, n)
      BY <2>2 DEF Held
    <3> QED
      BY <1>1, <2>2, <3>1
  <2> QED
    BY <2>1, <2>2
<1>4. ASSUME NEW f \in lent
      PROVE  Cardinality(Held(lent \ {f}, n)) = Cardinality(Held(lent, n)) - (IF f[1] = n THEN 1 ELSE 0)
  <2>1. CASE f[1] = n
    <3>1. Held(lent \ {f}, n) = Held(lent, n) \ {f} /\ f \in Held(lent, n)
      BY <2>1 DEF Held
    <3> QED
      BY <1>1, <2>1, <3>1, FS_RemoveElement
  <2>2. CASE f[1] # n
    <3>1. Held(lent \ {f}, n) = Held(lent, n)
      BY <2>2 DEF Held
    <3> QED
      BY <1>1, <2>2, <3>1
  <2> QED
    BY <2>1, <2>2
<1> QED
  BY <1>1, <1>2, <1>3, <1>4

LEMMA TakenCounts == Cardinality({}) = 0 /\ \A b : Cardinality({b}) = 1
BY FS_EmptySet, FS_Singleton

LEMMA CaptureInit == ASSUME LinksAssumption, C!Init PROVE CaptureInv
<1> USE DEF C!Init, C!None, C!Native
<1>1. c_frames = {} /\ IsFiniteSet({})
  BY FS_EmptySet
<1>2. C!Unused \in Contexts /\ ~C!Unused.alive /\ C!Unused.fd = "none"
  BY DEF C!Unused, Contexts
<1>3. CaptureTyping
  BY <1>1, <1>2 DEF CaptureTyping, LinksAssumption
<1>4. RefsCounted
  <2>1. \A n : Cardinality(Held(c_frames, n)) = 0
    BY <1>1, HeldCounts
  <2> QED
    BY <1>2, <2>1 DEF RefsCounted, ContextSound, Mine, Opened
<1> QED
  BY <1>1, <1>3, <1>4 DEF CaptureInv, BuffersApart, ThreadPlace

\* A step that leaves the contexts and the frames, and what the thread holds of them.
LEMMA CaptureTurns ==
  ASSUME CaptureInv, UNCHANGED <<c_native, c_frames, c_dying, c_stray, c_opens, c_taken>>,
         c_pc' \in {"closed", "ffmpeg", "open", "close", "native"},
         c_pc' = "native" <=> c_pc = "native", c_ctx' = c_ctx, c_pc # "wrap",
         c_pc' = "closed" => c_decoder' = {} /\ c_ctx = 0,
         c_pc' = "ffmpeg" => c_ctx = 0
  PROVE  CaptureInv'
<1> USE DEF CaptureInv
<1>1. Opened' = Opened
  BY DEF Opened
<1>2. RefsCounted'
  BY <1>1 DEF RefsCounted
<1>3. CaptureTyping'
  BY DEF CaptureTyping
<1>4. ThreadPlace'
  BY DEF ThreadPlace
<1> QED
  BY <1>2, <1>3, <1>4 DEF BuffersApart

\* A step that changes one context n: the others count what they counted.
LEMMA OthersCount ==
  ASSUME CaptureInv, NEW n \in 1..MaxOpens, NEW r \in Contexts,
         c_native' = [c_native EXCEPT ![n] = r],
         \A m \in 1..MaxOpens \ {n} : Cardinality(Held(c_frames', m)) = Cardinality(Held(c_frames, m)),
         \A m \in 1..MaxOpens \ {n} : /\ m \in c_dying' <=> m \in c_dying
                                     /\ Mine(m, c_ctx', c_taken', Opened') = Mine(m, c_ctx, c_taken, Opened),
         c_opens' \in 0..MaxOpens, c_opens' >= c_opens,
         ContextSound(r, Cardinality(Held(c_frames', n)), Mine(n, c_ctx', c_taken', Opened'), n \in c_dying'),
         r.alive => n <= c_opens'
  PROVE  RefsCounted' /\ c_native' \in [1..MaxOpens -> Contexts]
<1>1. c_native' \in [1..MaxOpens -> Contexts]
  BY DEF CaptureInv, CaptureTyping
<1>2. /\ c_native'[n] = r /\ \A m \in 1..MaxOpens \ {n} : c_native'[m] = c_native[m]
  BY DEF CaptureInv, CaptureTyping
<1>3. ASSUME NEW m \in 1..MaxOpens
      PROVE  /\ ContextSound(c_native'[m], Cardinality(Held(c_frames', m)),
                             Mine(m, c_ctx', c_taken', Opened'), m \in c_dying')
             /\ c_native'[m].alive => m <= c_opens'
  <2>1. CASE m = n
    BY <1>2, <2>1
  <2>2. CASE m # n
    <3>1. /\ ContextSound(c_native[m], Cardinality(Held(c_frames, m)), Mine(m, c_ctx, c_taken, Opened),
                          m \in c_dying)
          /\ c_native[m].alive => m <= c_opens
      BY DEF CaptureInv, RefsCounted
    <3>2. c_opens \in 0..MaxOpens
      BY DEF CaptureInv, CaptureTyping
    <3>3. ContextSound(c_native'[m], Cardinality(Held(c_frames', m)),
                       Mine(m, c_ctx', c_taken', Opened'), m \in c_dying')
      BY <1>2, <2>2, <3>1 DEF ContextSound
    <3> QED
      BY <1>2, <2>2, <3>1, <3>2, <3>3
  <2> QED
    BY <2>1, <2>2
<1> QED
  BY <1>1, <1>3 DEF RefsCounted

\* The context n, before the step.
LEMMA ContextCounts ==
  ASSUME CaptureInv, NEW n \in 1..MaxOpens, NEW r, r = c_native[n],
         NEW held, held = Cardinality(Held(c_frames, n))
  PROVE  /\ r \in Contexts /\ held \in Nat
         /\ r.fd = "closed" => r.closing
         /\ ContextSound(r, held, Mine(n, c_ctx, c_taken, Opened), n \in c_dying)
         /\ held = 0 <=> \A f \in c_frames : f[1] # n
         /\ r.alive => n <= c_opens
<1>1. IsFiniteSet(c_frames) /\ c_native \in [1..MaxOpens -> Contexts]
  BY DEF CaptureInv, CaptureTyping
<1>2. held \in Nat /\ (held = 0 <=> \A f \in c_frames : f[1] # n)
  BY <1>1, HeldCounts
<1>3. ContextSound(r, held, Mine(n, c_ctx, c_taken, Opened), n \in c_dying) /\ (r.alive => n <= c_opens)
  BY DEF CaptureInv, RefsCounted
<1> QED
  BY <1>1, <1>2, <1>3 DEF ContextSound

LEMMA CaptureOpens == ASSUME LinksAssumption, CaptureInv, C!Open PROVE CaptureInv'
<1> USE DEF CaptureInv
<1>1. /\ c_pc = "closed" /\ UNCHANGED <<c_frames, c_ctx, c_decoder, c_taken, c_dying, c_stray>>
      /\ \/ c_pc' \in {"ffmpeg", "closed"} /\ UNCHANGED <<c_native, c_opens>>
         \/ /\ c_opens < MaxOpens /\ c_opens' = c_opens + 1 /\ c_pc' = "native"
            /\ c_native' = [c_native EXCEPT ![c_opens + 1] = C!Allocated]
  BY DEF C!Open, C!Set
<1>2. CASE c_pc' \in {"ffmpeg", "closed"} /\ UNCHANGED <<c_native, c_opens>>
  BY <1>1, <1>2, CaptureTurns DEF ThreadPlace
<1>3. CASE /\ c_opens < MaxOpens /\ c_opens' = c_opens + 1 /\ c_pc' = "native"
           /\ c_native' = [c_native EXCEPT ![c_opens + 1] = C!Allocated]
  <2> DEFINE n == c_opens + 1
  <2>1. /\ n \in 1..MaxOpens /\ c_opens \in Nat /\ c_opens' \in 0..MaxOpens /\ c_opens' >= c_opens
        /\ n # 0 /\ c_ctx = 0 /\ n \notin {c_opens} /\ c_taken = {}
    BY <1>1, <1>3 DEF CaptureTyping, ThreadPlace, LinksAssumption
  <2>2. C!Allocated \in Contexts /\ C!Allocated.alive /\ C!Allocated.fd = "open" /\ C!Allocated.refs = 1
    BY DEF C!Allocated, C!Unused, Contexts
  <2>3. Opened' = n /\ Opened = 0
    BY <1>1, <1>3 DEF Opened
  <2>4. /\ Mine(n, c_ctx', c_taken', Opened') = 1
        /\ \A m \in 1..MaxOpens \ {n} :
             Mine(m, c_ctx', c_taken', Opened') = Mine(m, c_ctx, c_taken, Opened)
    BY <1>1, <2>1, <2>3 DEF Mine
  <2>5. ~c_native[n].alive /\ Cardinality(Held(c_frames, n)) = 0 /\ n \notin c_dying
    BY <2>1, ContextCounts DEF ContextSound
  <2> HIDE DEF n
  <2>6. ContextSound(C!Allocated, Cardinality(Held(c_frames', n)), Mine(n, c_ctx', c_taken', Opened'), n \in c_dying')
    BY <1>1, <2>2, <2>4, <2>5 DEF ContextSound
  <2>7. RefsCounted' /\ c_native' \in [1..MaxOpens -> Contexts]
    <3>1. n <= c_opens' /\ c_native' = [c_native EXCEPT ![n] = C!Allocated]
      BY <1>3, <2>1 DEF n
    <3> QED
      BY <1>1, <2>1, <2>2, <2>4, <2>6, <3>1, OthersCount
  <2>8. CaptureTyping'
    BY <1>1, <1>3, <2>1, <2>7 DEF CaptureTyping
  <2>9. \A f \in c_frames : f[1] # n
    BY <2>1, <2>5, ContextCounts
  <2>10. c_opens' = n
    BY <1>3 DEF n
  <2>11. ThreadPlace'
    BY <1>1, <1>3, <2>1, <2>9, <2>10 DEF ThreadPlace
  <2>12. \A f \in c_frames : f[1] \in 1..MaxOpens
    BY DEF CaptureTyping
  <2>13. BuffersApart'
    BY <1>1, <1>3, <2>1, <2>9, <2>12 DEF BuffersApart, CaptureTyping, n
  <2> QED
    BY <1>1, <2>7, <2>8, <2>11, <2>13
<1> QED
  BY <1>1, <1>2, <1>3

LEMMA CaptureQueues == ASSUME CaptureInv, C!NativeBuffer PROVE CaptureInv'
<1> USE DEF CaptureInv
<1> DEFINE n == c_opens
<1> DEFINE r == c_native[n]
<1>1. PICK b \in Buffer :
        /\ c_pc = "native" /\ UNCHANGED <<c_frames, c_ctx, c_decoder, c_taken, c_dying, c_stray, c_opens>>
        /\ \/ /\ c_native' = [c_native EXCEPT ![n] = [r EXCEPT !.exported = r.exported \cup {b},
                                                               !.queued = r.queued \cup {b}]]
              /\ c_pc' = c_pc
           \/ /\ c_native' = [c_native EXCEPT ![n] = [C!Destroyed(n) EXCEPT !.fd = "none"]]
              /\ c_pc' = "ffmpeg"
  BY DEF C!NativeBuffer, C!Set, C!Opening
<1>2. /\ n \in 1..MaxOpens /\ n \in Nat /\ n # 0 /\ c_ctx = 0 /\ c_taken = {}
      /\ (\A f \in c_frames : f[1] # n) /\ Opened = n
  BY <1>1 DEF CaptureTyping, ThreadPlace, Opened
<1>3. Mine(n, c_ctx, c_taken, Opened) = 1
  BY <1>2 DEF Mine
<1>4. r \in Contexts /\ Cardinality(Held(c_frames, n)) = 0
  BY <1>2, ContextCounts
<1>5. r.alive /\ r.refs = 1 /\ n \notin c_dying /\ (r.fd = "closed" => r.closing) /\ n <= c_opens
  BY <1>2, <1>3, <1>4, ContextCounts DEF ContextSound
<1>6. c_opens' \in 0..MaxOpens /\ c_opens' >= c_opens
  BY <1>1, <1>2
<1>7. ASSUME NEW q \in Contexts, c_native' = [c_native EXCEPT ![n] = q], q.fd = "closed" => q.closing,
             IF c_pc' = "native" THEN q.alive /\ q.refs = 1 ELSE ~q.alive, c_pc' \in {"native", "ffmpeg"}
      PROVE  CaptureInv'
  <2>1. Mine(n, c_ctx', c_taken', Opened') = IF c_pc' = "native" THEN 1 ELSE 0
    BY <1>1, <1>2 DEF Mine, Opened
  <2>2. \A m \in 1..MaxOpens \ {n} : Mine(m, c_ctx', c_taken', Opened') = Mine(m, c_ctx, c_taken, Opened)
    BY <1>1, <1>2 DEF Mine, Opened
  <2>3. ContextSound(q, Cardinality(Held(c_frames', n)), Mine(n, c_ctx', c_taken', Opened'), n \in c_dying')
    BY <1>1, <1>4, <1>5, <1>7, <2>1 DEF ContextSound
  <2> HIDE DEF r
  <2>4. q.alive => n <= c_opens'
    BY <1>1, <1>5
  <2> HIDE DEF n
  <2>5. RefsCounted' /\ c_native' \in [1..MaxOpens -> Contexts]
    BY <1>1, <1>2, <1>6, <1>7, <2>2, <2>3, <2>4, OthersCount
  <2>6. CaptureTyping'
    BY <1>1, <1>6, <1>7, <2>5 DEF CaptureTyping
  <2>7. ThreadPlace'
    BY <1>1, <1>2, <1>7 DEF ThreadPlace, n
  <2>8. \A f \in c_frames : c_native'[f[1]] = c_native[f[1]]
    BY <1>2, <1>7 DEF CaptureTyping
  <2>9. BuffersApart'
    BY <1>1, <1>2, <2>8 DEF BuffersApart
  <2> QED
    BY <1>1, <2>5, <2>6, <2>7, <2>9
<1>8. CASE /\ c_native' = [c_native EXCEPT ![n] = [r EXCEPT !.exported = r.exported \cup {b},
                                                            !.queued = r.queued \cup {b}]]
           /\ c_pc' = c_pc
  <2> DEFINE q == [r EXCEPT !.exported = r.exported \cup {b}, !.queued = r.queued \cup {b}]
  <2>1. q \in Contexts /\ q.fd = r.fd /\ q.closing = r.closing /\ q.alive = r.alive /\ q.refs = r.refs
    BY <1>4 DEF Contexts
  <2>2. q.fd = "closed" => q.closing
    BY <1>5, <2>1
  <2>3. q.alive /\ q.refs = 1
    BY <1>5, <2>1
  <2>4. c_native' = [c_native EXCEPT ![n] = q]
    BY <1>8
  <2> HIDE DEF q, r
  <2> QED
    BY <1>1, <1>7, <1>8, <2>1, <2>2, <2>3, <2>4
<1>9. CASE /\ c_native' = [c_native EXCEPT ![n] = [C!Destroyed(n) EXCEPT !.fd = "none"]]
           /\ c_pc' = "ffmpeg"
  <2> DEFINE q == [C!Destroyed(n) EXCEPT !.fd = "none"]
  <2>1. q \in Contexts /\ q.fd = "none" /\ ~q.alive
    BY <1>4 DEF Contexts, C!Destroyed
  <2> HIDE DEF q
  <2> QED
    BY <1>1, <1>7, <1>9, <2>1 DEF q
<1> QED
  BY <1>1, <1>8, <1>9

LEMMA CaptureStreams == ASSUME CaptureInv, C!StreamOn PROVE CaptureInv'
<1> USE DEF CaptureInv
<1>1. /\ c_pc = "native" /\ c_pc' = "open" /\ c_ctx' = c_opens
      /\ UNCHANGED <<c_native, c_frames, c_decoder, c_taken, c_dying, c_stray, c_opens>>
  BY DEF C!StreamOn, C!Opening
<1>2. c_opens \in 1..MaxOpens /\ c_opens # 0 /\ c_ctx = 0 /\ c_taken = {} /\ Opened = c_opens /\ Opened' = 0
  BY <1>1 DEF CaptureTyping, ThreadPlace, Opened
<1>3. \A m \in 1..MaxOpens : Mine(m, c_ctx', c_taken', Opened') = Mine(m, c_ctx, c_taken, Opened)
  BY <1>1, <1>2, TakenCounts DEF Mine
<1>4. RefsCounted'
  BY <1>1, <1>3 DEF RefsCounted
<1>5. CaptureTyping'
  BY <1>1, <1>2 DEF CaptureTyping
<1>6. BuffersApart' /\ ThreadPlace'
  BY <1>1, <1>2 DEF BuffersApart, ThreadPlace
<1> QED
  BY <1>1, <1>4, <1>5, <1>6

LEMMA CaptureDequeues == ASSUME LinksAssumption, CaptureInv, C!Dequeue PROVE CaptureInv'
<1> USE DEF CaptureInv
<1> DEFINE n == c_ctx
<1> DEFINE r == c_native[n]
<1>1. /\ c_pc = "open" /\ c_ctx # 0 /\ c_pc' = "wrap"
      /\ UNCHANGED <<c_frames, c_ctx, c_decoder, c_dying, c_stray, c_opens>>
  BY DEF C!Dequeue, C!None
<1>2. PICK b \in r.queued :
        /\ c_taken' = {b}
        /\ c_native' = [c_native EXCEPT ![n] = [r EXCEPT !.queued = r.queued \ {b}, !.refs = r.refs + 1]]
  BY DEF C!Dequeue, C!Set
<1> DEFINE q == [r EXCEPT !.queued = r.queued \ {b}, !.refs = r.refs + 1]
<1>3. /\ n \in 1..MaxOpens /\ c_taken = {} /\ Opened = 0 /\ Opened' = 0
      /\ c_opens \in 0..MaxOpens /\ c_opens >= c_opens /\ c_ctx \in 0..c_opens
  BY <1>1 DEF CaptureTyping, ThreadPlace, Opened, LinksAssumption
<1>4. /\ Mine(n, c_ctx, c_taken, Opened) = 1 /\ Mine(n, c_ctx', c_taken', Opened') = 2
      /\ \A m \in 1..MaxOpens \ {n} : Mine(m, c_ctx', c_taken', Opened') = Mine(m, c_ctx, c_taken, Opened)
  <2>1. Cardinality(c_taken) = 0 /\ Cardinality(c_taken') = 1
    BY <1>2, <1>3, TakenCounts
  <2> QED
    BY <1>1, <1>3, <2>1 DEF Mine
<1>5. /\ r \in Contexts /\ r.alive /\ r.refs = Cardinality(Held(c_frames, n)) + 1
      /\ r.refs = 0 <=> n \in c_dying
      /\ Cardinality(Held(c_frames, n)) \in Nat /\ (r.fd = "closed" => r.closing)
  BY <1>3, <1>4, ContextCounts DEF ContextSound
<1>6. b \in Buffer
  BY <1>2, <1>5 DEF Contexts
<1>7. /\ q \in Contexts /\ q.fd = r.fd /\ q.closing = r.closing /\ q.alive = r.alive
      /\ q.refs = r.refs + 1 /\ q.queued = r.queued \ {b}
  <2>1. r.refs + 1 \in Nat /\ r.queued \ {b} \in SUBSET Buffer
    BY <1>5 DEF Contexts
  <2> QED
    BY <1>5, <2>1, ZenonT(40) DEF Contexts
<1> HIDE DEF q, r
<1>8. ContextSound(q, Cardinality(Held(c_frames', n)), Mine(n, c_ctx', c_taken', Opened'), n \in c_dying')
  BY <1>1, <1>4, <1>5, <1>7 DEF ContextSound
<1>9. c_native' = [c_native EXCEPT ![n] = q]
  BY <1>2 DEF q
<1>10. RefsCounted' /\ c_native' \in [1..MaxOpens -> Contexts]
  <2>1. q.alive => n <= c_opens'
    BY <1>1, <1>3
  <2> QED
    BY <1>1, <1>3, <1>4, <1>7, <1>8, <1>9, <2>1, OthersCount
<1>11. CaptureTyping'
  BY <1>1, <1>2, <1>3, <1>6, <1>10 DEF CaptureTyping
<1>12. ThreadPlace'
  BY <1>1, <1>2, <1>6 DEF ThreadPlace
<1>13. c_native'[n] = q /\ \A m \in 1..MaxOpens : m # n => c_native'[m] = c_native[m]
  BY <1>3, <1>9 DEF CaptureTyping
<1>14. BuffersApart'
  <2>1. ASSUME NEW f \in c_frames PROVE f[2] \notin c_native'[f[1]].queued
    <3>1. f[1] \in 1..MaxOpens /\ f[2] \notin c_native[f[1]].queued
      BY DEF BuffersApart, CaptureTyping
    <3> QED
      BY <1>7, <1>13, <3>1 DEF r
  <2>2. <<n, b>> \notin c_frames
    <3>1. ASSUME <<n, b>> \in c_frames PROVE FALSE
      <4>1. <<n, b>>[2] \notin c_native[<<n, b>>[1]].queued
        BY <3>1 DEF BuffersApart
      <4> QED
        BY <1>2, <4>1 DEF r
    <3> QED
      BY <3>1
  <2> QED
    BY <1>1, <1>2, <1>7, <1>13, <2>1, <2>2 DEF BuffersApart
<1> QED
  BY <1>1, <1>10, <1>11, <1>12, <1>14

LEMMA CaptureWraps == ASSUME LinksAssumption, CaptureInv, C!Wrap PROVE CaptureInv'
<1> USE DEF CaptureInv
<1> DEFINE n == c_ctx
<1> DEFINE r == c_native[n]
<1>1. /\ c_pc = "wrap" /\ c_pc' = "open" /\ c_taken' = {}
      /\ UNCHANGED <<c_ctx, c_decoder, c_dying, c_stray, c_opens>>
  BY DEF C!Wrap
<1>2. PICK b \in Buffer : c_taken = {b}
  BY <1>1 DEF ThreadPlace
<1> DEFINE q == [r EXCEPT !.queued = r.queued \cup {b}, !.refs = r.refs - 1]
<1>3. \/ c_frames' = c_frames \cup {<<n, b>>} /\ c_native' = c_native
      \/ c_native' = [c_native EXCEPT ![n] = q] /\ c_frames' = c_frames
  BY <1>2 DEF C!Wrap, C!Set
<1>4. /\ n # 0 /\ n \in 1..MaxOpens /\ Opened = 0 /\ Opened' = 0
      /\ c_opens \in 0..MaxOpens /\ c_opens >= c_opens /\ c_ctx \in 0..c_opens
      /\ b \notin c_native[n].queued /\ <<n, b>> \notin c_frames /\ IsFiniteSet(c_frames)
  BY <1>1, <1>2 DEF CaptureTyping, ThreadPlace, Opened, BuffersApart, LinksAssumption
<1>5. /\ Mine(n, c_ctx, c_taken, Opened) = 2 /\ Mine(n, c_ctx', c_taken', Opened') = 1
      /\ \A m \in 1..MaxOpens \ {n} : Mine(m, c_ctx', c_taken', Opened') = Mine(m, c_ctx, c_taken, Opened)
  <2>1. Cardinality(c_taken) = 1 /\ Cardinality(c_taken') = 0
    BY <1>1, <1>2, TakenCounts
  <2> QED
    BY <1>1, <1>4, <2>1 DEF Mine
<1>6. /\ r \in Contexts /\ r.alive /\ r.refs = Cardinality(Held(c_frames, n)) + 2
      /\ r.refs = 0 <=> n \in c_dying
      /\ Cardinality(Held(c_frames, n)) \in Nat /\ (r.fd = "closed" => r.closing)
  BY <1>4, <1>5, ContextCounts DEF ContextSound
<1>7. ThreadPlace'
  BY <1>1 DEF ThreadPlace
<1>8. CASE c_frames' = c_frames \cup {<<n, b>>} /\ c_native' = c_native
  <2>1. \A m : Cardinality(Held(c_frames', m)) =
                 Cardinality(Held(c_frames, m)) + (IF <<n, b>>[1] = m THEN 1 ELSE 0)
    BY <1>4, <1>8, HeldCounts
  <2>2. c_native' = [c_native EXCEPT ![n] = r]
    BY <1>4, <1>8 DEF CaptureTyping
  <2>3. \A m \in 1..MaxOpens \ {n} : Cardinality(Held(c_frames', m)) = Cardinality(Held(c_frames, m))
    <3>1. ASSUME NEW m \in 1..MaxOpens \ {n}
          PROVE  Cardinality(Held(c_frames', m)) = Cardinality(Held(c_frames, m))
      <4>1. Cardinality(Held(c_frames, m)) \in Nat
        BY <1>4, HeldCounts
      <4> QED
        BY <2>1, <4>1
    <3> QED
      BY <3>1
  <2>4. Cardinality(Held(c_frames', n)) = Cardinality(Held(c_frames, n)) + 1
    BY <2>1
  <2> HIDE DEF r
  <2>5. ContextSound(r, Cardinality(Held(c_frames', n)), Mine(n, c_ctx', c_taken', Opened'), n \in c_dying')
    BY <1>1, <1>5, <1>6, <2>4 DEF ContextSound
  <2>6. r.alive => n <= c_opens'
    BY <1>1, <1>4
  <2>7. RefsCounted' /\ c_native' \in [1..MaxOpens -> Contexts]
    BY <1>1, <1>4, <1>5, <1>6, <2>2, <2>3, <2>5, <2>6, OthersCount
  <2>8. c_frames' \subseteq (1..MaxOpens) \X Buffer /\ IsFiniteSet(c_frames')
    <3>1. IsFiniteSet(c_frames')
      BY <1>4, <1>8, FS_AddElement, Zenon
    <3>2. c_frames' \subseteq (1..MaxOpens) \X Buffer
      BY <1>4, <1>8 DEF CaptureTyping
    <3> QED
      BY <3>1, <3>2
  <2>9. CaptureTyping'
    BY <1>1, <1>4, <2>7, <2>8 DEF CaptureTyping
  <2>10. BuffersApart'
    BY <1>1, <1>4, <1>8 DEF BuffersApart
  <2> QED
    BY <1>1, <1>7, <2>7, <2>9, <2>10
<1>9. CASE c_native' = [c_native EXCEPT ![n] = q] /\ c_frames' = c_frames
  <2>1. /\ q \in Contexts /\ q.fd = r.fd /\ q.closing = r.closing /\ q.alive = r.alive
        /\ q.refs = r.refs - 1 /\ q.queued = r.queued \cup {b}
    <3>1. r.refs - 1 \in Nat /\ r.queued \cup {b} \in SUBSET Buffer
      BY <1>6 DEF Contexts
    <3> QED
      BY <1>6, <3>1 DEF Contexts
  <2> HIDE DEF q, r
  <2>2. ContextSound(q, Cardinality(Held(c_frames', n)), Mine(n, c_ctx', c_taken', Opened'), n \in c_dying')
    BY <1>1, <1>5, <1>6, <1>9, <2>1 DEF ContextSound
  <2>3. q.alive => n <= c_opens'
    BY <1>1, <1>4
  <2>4. RefsCounted' /\ c_native' \in [1..MaxOpens -> Contexts]
    BY <1>1, <1>4, <1>5, <1>9, <2>1, <2>2, <2>3, OthersCount
  <2>5. CaptureTyping'
    BY <1>1, <1>4, <1>9, <2>4 DEF CaptureTyping
  <2>6. c_native'[n] = q /\ \A m \in 1..MaxOpens : m # n => c_native'[m] = c_native[m]
    BY <1>4, <1>9 DEF CaptureTyping
  <2>7. ASSUME NEW f \in c_frames PROVE f[2] \notin c_native'[f[1]].queued
    <3>1. f[1] \in 1..MaxOpens /\ f[2] \notin c_native[f[1]].queued /\ f = <<f[1], f[2]>>
      BY DEF BuffersApart, CaptureTyping
    <3>2. f[1] = n => f[2] # b
      BY <1>4, <3>1
    <3> QED
      BY <2>1, <2>6, <3>1, <3>2 DEF r
  <2>8. BuffersApart'
    BY <1>1, <1>9, <2>7 DEF BuffersApart
  <2> QED
    BY <1>1, <1>7, <2>4, <2>5, <2>8
<1> QED
  BY <1>3, <1>8, <1>9

\* The last reference of a frame goes.
LEMMA CaptureReleases == ASSUME LinksAssumption, CaptureInv, C!Release PROVE CaptureInv'
<1> USE DEF CaptureInv
<1>1. PICK f \in c_frames, back \in BOOLEAN :
        /\ C!Releasing(f[1], f[2], back)
        /\ \/ c_stray' = c_stray
           \/ /\ ~c_native[f[1]].closing
              /\ c_stray' = (c_stray \/ c_native[f[1]].fd = "closed")
  BY DEF C!Release
<1>2. UNCHANGED <<c_ctx, c_decoder, c_pc, c_taken, c_opens>>
  BY DEF C!Release
<1> DEFINE n == f[1]
<1> DEFINE b == f[2]
<1> DEFINE r == c_native[n]
<1> DEFINE q == [r EXCEPT !.refs = r.refs - 1,
                          !.queued = IF back THEN r.queued \cup {b} ELSE r.queued]
<1>3. /\ c_frames' = c_frames \ {f} /\ c_native' = [c_native EXCEPT ![n] = q]
      /\ c_dying' = IF r.refs = 1 THEN c_dying \cup {n} ELSE c_dying
  <2>1. f = <<n, b>>
    BY DEF CaptureTyping
  <2> QED
    BY <1>1, <2>1 DEF C!Releasing, C!Set
<1>4. /\ n \in 1..MaxOpens /\ b \in Buffer /\ f = <<n, b>> /\ IsFiniteSet(c_frames)
      /\ c_opens \in 0..MaxOpens /\ c_opens >= c_opens
  BY DEF CaptureTyping, LinksAssumption
<1>5. /\ r \in Contexts /\ (r.fd = "closed" => r.closing) /\ (r.alive => n <= c_opens)
      /\ Cardinality(Held(c_frames, n)) \in Nat /\ Cardinality(Held(c_frames, n)) # 0
      /\ ContextSound(r, Cardinality(Held(c_frames, n)), Mine(n, c_ctx, c_taken, Opened), n \in c_dying)
  BY <1>4, ContextCounts
<1>6. Mine(n, c_ctx, c_taken, Opened) \in Nat
  <2>1. c_taken = {} \/ \E d : c_taken = {d}
    BY DEF ThreadPlace
  <2>2. Cardinality(c_taken) \in Nat
    <3>1. Cardinality(c_taken) = 0 \/ Cardinality(c_taken) = 1
      BY <2>1, TakenCounts, Zenon
    <3> QED
      BY <3>1
  <2> QED
    BY <2>2 DEF Mine
<1>7. /\ q \in Contexts /\ q.fd = r.fd /\ q.closing = r.closing /\ q.alive = r.alive
      /\ q.refs = r.refs - 1 /\ q.queued \subseteq r.queued \cup {b}
  <2>1. r.alive /\ r.refs \in Nat /\ r.refs - 1 \in Nat
    BY <1>5, <1>6 DEF ContextSound, Contexts
  <2> QED
    BY <1>4, <1>5, <2>1, ZenonT(40) DEF Contexts
<1>8. \A m : Cardinality(Held(c_frames', m)) =
               Cardinality(Held(c_frames, m)) - (IF n = m THEN 1 ELSE 0)
  BY <1>3, <1>4, HeldCounts
<1>9. \A m \in 1..MaxOpens \ {n} : Cardinality(Held(c_frames', m)) = Cardinality(Held(c_frames, m))
  <2>1. ASSUME NEW m \in 1..MaxOpens \ {n}
        PROVE  Cardinality(Held(c_frames', m)) = Cardinality(Held(c_frames, m))
    <3>1. Cardinality(Held(c_frames, m)) \in Nat
      BY <1>4, HeldCounts
    <3> QED
      BY <1>8, <3>1
  <2> QED
    BY <2>1
<1>10. Opened' = Opened
  BY <1>2 DEF Opened
<1> HIDE DEF q, r
<1>11. ContextSound(q, Cardinality(Held(c_frames', n)), Mine(n, c_ctx', c_taken', Opened'), n \in c_dying')
  <2>1. /\ r.alive /\ r.refs = Cardinality(Held(c_frames, n)) + Mine(n, c_ctx, c_taken, Opened)
        /\ (r.refs = 0 <=> n \in c_dying) /\ (Mine(n, c_ctx, c_taken, Opened) = 0 => r.fd = "none")
    BY <1>5, <1>6 DEF ContextSound
  <2>2. Cardinality(Held(c_frames', n)) = Cardinality(Held(c_frames, n)) - 1
    BY <1>8
  <2>3. q.refs = Cardinality(Held(c_frames', n)) + Mine(n, c_ctx, c_taken, Opened)
    BY <1>5, <1>6, <1>7, <2>1, <2>2
  <2>4. q.refs = 0 <=> n \in c_dying'
    BY <1>3, <1>5, <1>6, <1>7, <2>1
  <2> QED
    BY <1>2, <1>5, <1>7, <1>10, <2>1, <2>3, <2>4 DEF ContextSound
<1>12. /\ q.alive => n <= c_opens'
       /\ \A m \in 1..MaxOpens \ {n} : m \in c_dying' <=> m \in c_dying
  BY <1>2, <1>3, <1>5, <1>7
<1>13. RefsCounted' /\ c_native' \in [1..MaxOpens -> Contexts]
  BY <1>2, <1>3, <1>4, <1>7, <1>9, <1>10, <1>11, <1>12, OthersCount
<1>14. CaptureTyping'
  <2>0. IsFiniteSet(c_frames) /\ c_frames' = c_frames \ {f}
    BY <1>3 DEF CaptureTyping
  <2>a. IsFiniteSet(c_frames')
    BY <2>0, FS_RemoveElement, Zenon
  <2>b. c_frames' \subseteq (1..MaxOpens) \X Buffer
    <3>1. c_frames' \subseteq c_frames
      BY <2>0
    <3>2. c_frames \subseteq (1..MaxOpens) \X Buffer
      BY DEF CaptureTyping
    <3> QED
      BY <3>1, <3>2
  <2>c. c_dying' \subseteq 1..MaxOpens
    <3>1. c_dying \subseteq 1..MaxOpens /\ (c_dying' = c_dying \/ c_dying' = c_dying \cup {n})
      BY <1>3 DEF CaptureTyping
    <3> QED
      BY <1>4, <3>1
  <2>1. c_frames' \subseteq (1..MaxOpens) \X Buffer /\ IsFiniteSet(c_frames') /\ c_dying' \subseteq 1..MaxOpens
    BY <2>a, <2>b, <2>c
  <2> QED
    BY <1>2, <1>13, <2>1 DEF CaptureTyping
<1>15. c_native'[n] = q /\ \A m \in 1..MaxOpens : m # n => c_native'[m] = c_native[m]
  BY <1>3, <1>4 DEF CaptureTyping
<1>16. c_ctx # 0 => c_ctx \in 1..MaxOpens
  BY DEF CaptureTyping, LinksAssumption
<1>17. BuffersApart'
  <2>1. ASSUME NEW g \in c_frames' PROVE g[2] \notin c_native'[g[1]].queued
    <3>1. g \in c_frames /\ g # f /\ g[1] \in 1..MaxOpens /\ g = <<g[1], g[2]>>
          /\ g[2] \notin c_native[g[1]].queued
      BY <1>3 DEF BuffersApart, CaptureTyping
    <3> QED
      BY <1>4, <1>7, <1>15, <3>1 DEF r
  <2>2. ASSUME NEW d \in c_taken PROVE d \notin c_native'[c_ctx].queued /\ <<c_ctx, d>> \notin c_frames'
    <3>1. d \notin c_native[c_ctx].queued /\ <<c_ctx, d>> \notin c_frames /\ c_ctx \in 1..MaxOpens
      BY <1>16 DEF BuffersApart, ThreadPlace
    <3> QED
      BY <1>3, <1>4, <1>7, <1>15, <3>1 DEF r
  <2> QED
    BY <1>2, <2>1, <2>2 DEF BuffersApart
<1>18. ThreadPlace'
  <2>1. c_ctx # 0 => /\ c_native'[c_ctx].closing = c_native[c_ctx].closing
                     /\ c_native'[c_ctx].fd = c_native[c_ctx].fd
    BY <1>7, <1>15, <1>16 DEF r
  <2> QED
    BY <1>2, <1>3, <2>1 DEF ThreadPlace
<1>19. ~c_stray'
  BY <1>1, <1>5 DEF r
<1> QED
  BY <1>13, <1>14, <1>17, <1>18, <1>19

LEMMA CaptureDestroys == ASSUME LinksAssumption, CaptureInv, C!Destroy PROVE CaptureInv'
<1> USE DEF CaptureInv
<1>1. PICK n \in c_dying : c_native' = [c_native EXCEPT ![n] = C!Destroyed(n)] /\ c_dying' = c_dying \ {n}
  BY DEF C!Destroy, C!Set
<1>2. UNCHANGED <<c_frames, c_ctx, c_decoder, c_pc, c_taken, c_stray, c_opens>>
  BY DEF C!Destroy
<1> DEFINE r == c_native[n]
<1> DEFINE q == C!Destroyed(n)
<1>3. n \in 1..MaxOpens /\ c_opens \in 0..MaxOpens /\ c_opens >= c_opens /\ Opened' = Opened
  BY <1>2 DEF CaptureTyping, LinksAssumption, Opened
<1>4. /\ r \in Contexts /\ (r.fd = "closed" => r.closing)
      /\ Cardinality(Held(c_frames, n)) \in Nat
      /\ ContextSound(r, Cardinality(Held(c_frames, n)), Mine(n, c_ctx, c_taken, Opened), n \in c_dying)
  BY <1>3, ContextCounts
<1>5. Mine(n, c_ctx, c_taken, Opened) \in Nat
  <2>1. c_taken = {} \/ \E d : c_taken = {d}
    BY DEF ThreadPlace
  <2>2. Cardinality(c_taken) = 0 \/ Cardinality(c_taken) = 1
    BY <2>1, TakenCounts, Zenon
  <2> QED
    BY <2>2 DEF Mine
<1>6. /\ q \in Contexts /\ q.fd = r.fd /\ q.closing = r.closing /\ ~q.alive /\ q.queued = r.queued
  BY <1>4, ZenonT(40) DEF C!Destroyed, Contexts
<1> HIDE DEF q, r
<1>7. Cardinality(Held(c_frames, n)) = 0 /\ Mine(n, c_ctx, c_taken, Opened) = 0
  BY <1>1, <1>4, <1>5 DEF ContextSound
<1>8. ContextSound(q, Cardinality(Held(c_frames', n)), Mine(n, c_ctx', c_taken', Opened'), n \in c_dying')
  BY <1>1, <1>2, <1>3, <1>4, <1>6, <1>7 DEF ContextSound
<1>9. RefsCounted' /\ c_native' \in [1..MaxOpens -> Contexts]
  <2>1. \A m \in 1..MaxOpens \ {n} : m \in c_dying' <=> m \in c_dying
    BY <1>1
  <2>2. c_native' = [c_native EXCEPT ![n] = q]
    BY <1>1 DEF q
  <2> QED
    BY <1>2, <1>3, <1>6, <1>8, <2>1, <2>2, OthersCount
<1>10. CaptureTyping'
  BY <1>1, <1>2, <1>9 DEF CaptureTyping
<1>11. c_native'[n] = q /\ \A m \in 1..MaxOpens : m # n => c_native'[m] = c_native[m]
  BY <1>1, <1>3 DEF CaptureTyping, q
<1>12. \A m \in 1..MaxOpens : /\ c_native'[m].queued = c_native[m].queued
                              /\ c_native'[m].fd = c_native[m].fd
                              /\ c_native'[m].closing = c_native[m].closing
  BY <1>6, <1>11 DEF r
<1>13. c_ctx # 0 => c_ctx \in 1..MaxOpens
  BY DEF CaptureTyping, LinksAssumption
<1>14. ThreadPlace'
  BY <1>2, <1>12, <1>13 DEF ThreadPlace
<1>15. BuffersApart'
  <2>1. \A f \in c_frames : f[1] \in 1..MaxOpens
    BY DEF CaptureTyping
  <2>2. c_taken # {} => c_ctx # 0
    BY DEF ThreadPlace
  <2> QED
    BY <1>2, <1>12, <1>13, <2>1, <2>2 DEF BuffersApart
<1> QED
  BY <1>2, <1>9, <1>10, <1>14, <1>15

\* native_close, step by step; the contexts of frames that are out stay.
LEMMA CaptureCloses == ASSUME LinksAssumption, CaptureInv, C!NativeClose PROVE CaptureInv'
<1> USE DEF CaptureInv
<1> DEFINE n == c_ctx
<1> DEFINE r == c_native[n]
<1>1. c_ctx # 0 /\ UNCHANGED <<c_frames, c_decoder, c_taken, c_stray, c_opens>>
  BY DEF C!NativeClose, C!None
<1>2. /\ n \in 1..MaxOpens /\ c_ctx \in 0..c_opens /\ c_opens \in 0..MaxOpens /\ c_opens >= c_opens
      /\ n <= c_opens
  BY <1>1 DEF CaptureTyping, LinksAssumption
<1>3. PICK q \in Contexts :
        /\ c_native' = [c_native EXCEPT ![n] = q] /\ q.alive = r.alive
        /\ q.queued \subseteq r.queued
        /\ \/ /\ c_pc = "close" /\ c_pc' = "close_fd" /\ q.closing /\ q.fd = r.fd /\ q.refs = r.refs
              /\ UNCHANGED <<c_ctx, c_dying>>
           \/ /\ c_pc = "close_fd" /\ c_pc' = "close_forget" /\ q.closing = r.closing /\ q.refs = r.refs
              /\ q.fd = "closed" /\ UNCHANGED <<c_ctx, c_dying>>
           \/ /\ c_pc = "close_forget" /\ c_pc' = "close_unref" /\ q.closing = r.closing
              /\ q.fd = "none" /\ q.refs = r.refs /\ UNCHANGED <<c_ctx, c_dying>>
           \/ /\ c_pc = "close_unref" /\ c_pc' = "close" /\ q.closing = r.closing /\ q.fd = r.fd
              /\ q.refs = r.refs - 1 /\ c_ctx' = 0
              /\ c_dying' = IF r.refs = 1 THEN c_dying \cup {n} ELSE c_dying
  <2>1. r \in Contexts
    BY <1>2 DEF CaptureTyping
  <2>2. CASE c_pc = "close"
    <3> DEFINE q == [r EXCEPT !.closing = TRUE]
    <3>1. /\ c_native' = [c_native EXCEPT ![n] = q] /\ c_pc' = "close_fd" /\ UNCHANGED <<c_ctx, c_dying>>
      BY <2>2 DEF C!NativeClose, C!Set, C!Closing
    <3>2. q \in Contexts /\ q.closing /\ q.fd = r.fd /\ q.refs = r.refs /\ q.alive = r.alive
          /\ q.queued = r.queued
      BY <2>1 DEF Contexts
    <3> HIDE DEF q
    <3> QED
      BY <2>2, <3>1, <3>2
  <2>3. CASE c_pc = "close_fd"
    <3> DEFINE q == [r EXCEPT !.fd = "closed", !.queued = {}]
    <3>1. /\ c_native' = [c_native EXCEPT ![n] = q] /\ c_pc' = "close_forget" /\ UNCHANGED <<c_ctx, c_dying>>
      BY <2>3 DEF C!NativeClose, C!Set
    <3>2. q \in Contexts /\ q.closing = r.closing /\ q.fd = "closed" /\ q.refs = r.refs /\ q.alive = r.alive
          /\ q.queued = {}
      BY <2>1 DEF Contexts
    <3> HIDE DEF q
    <3> QED
      BY <2>3, <3>1, <3>2
  <2>4. CASE c_pc = "close_forget"
    <3> DEFINE q == [r EXCEPT !.fd = "none"]
    <3>1. /\ c_native' = [c_native EXCEPT ![n] = q] /\ c_pc' = "close_unref" /\ UNCHANGED <<c_ctx, c_dying>>
      BY <2>4 DEF C!NativeClose, C!Set
    <3>2. q \in Contexts /\ q.closing = r.closing /\ q.fd = "none" /\ q.refs = r.refs /\ q.alive = r.alive
          /\ q.queued = r.queued
      BY <2>1 DEF Contexts
    <3> HIDE DEF q
    <3> QED
      BY <2>4, <3>1, <3>2
  <2>5. CASE c_pc = "close_unref"
    <3> DEFINE q == [r EXCEPT !.refs = r.refs - 1]
    <3>1. /\ c_native' = [c_native EXCEPT ![n] = q] /\ c_pc' = "close" /\ c_ctx' = 0
          /\ c_dying' = IF r.refs = 1 THEN c_dying \cup {n} ELSE c_dying
      BY <2>5 DEF C!NativeClose, C!Set, C!None
    <3>2. r.refs - 1 \in Nat
      <4>1. Mine(n, c_ctx, c_taken, Opened) = 1
        <5>1. c_taken = {} /\ Opened = 0
          BY <2>5 DEF ThreadPlace, Opened
        <5> QED
          BY <5>1, TakenCounts DEF Mine
      <4> QED
        BY <1>2, <4>1, ContextCounts DEF ContextSound
    <3>3. q \in Contexts /\ q.closing = r.closing /\ q.fd = r.fd /\ q.refs = r.refs - 1 /\ q.alive = r.alive
          /\ q.queued = r.queued
      BY <2>1, <3>2 DEF Contexts
    <3> HIDE DEF q
    <3> QED
      BY <2>5, <3>1, <3>3
  <2> QED
    BY <2>2, <2>3, <2>4, <2>5 DEF C!NativeClose
<1>4. c_pc \in {"close", "close_fd", "close_forget", "close_unref"} /\ c_taken = {} /\ Opened = 0 /\ Opened' = 0
  BY <1>3 DEF ThreadPlace, Opened
<1>5. /\ Mine(n, c_ctx, c_taken, Opened) = 1
      /\ Mine(n, c_ctx', c_taken', Opened') = IF c_ctx' = 0 THEN 0 ELSE 1
      /\ \A m \in 1..MaxOpens \ {n} : Mine(m, c_ctx', c_taken', Opened') = Mine(m, c_ctx, c_taken, Opened)
  <2>1. Cardinality(c_taken) = 0 /\ c_taken' = c_taken /\ c_ctx' \in {0, n}
    BY <1>1, <1>3, <1>4, TakenCounts
  <2> QED
    BY <1>2, <1>4, <2>1 DEF Mine
<1>6. /\ r \in Contexts /\ r.alive /\ r.refs = Cardinality(Held(c_frames, n)) + 1
      /\ r.refs = 0 <=> n \in c_dying
      /\ Cardinality(Held(c_frames, n)) \in Nat /\ (r.fd = "closed" => r.closing)
  BY <1>2, <1>5, ContextCounts DEF ContextSound
<1>7. /\ c_pc \in {"close_fd", "close_forget"} => r.closing
      /\ c_pc = "close_unref" => r.fd = "none"
  BY DEF ThreadPlace
<1> HIDE DEF r
<1>8. ContextSound(q, Cardinality(Held(c_frames', n)), Mine(n, c_ctx', c_taken', Opened'), n \in c_dying')
  <2>1. CASE UNCHANGED <<c_ctx, c_dying>> /\ q.refs = r.refs
    BY <1>1, <1>3, <1>5, <1>6, <1>7, <2>1 DEF ContextSound
  <2>2. CASE /\ c_pc = "close_unref" /\ c_ctx' = 0 /\ q.refs = r.refs - 1
             /\ c_dying' = IF r.refs = 1 THEN c_dying \cup {n} ELSE c_dying
    <3>1. q.refs = 0 <=> n \in c_dying'
      BY <1>6, <2>2
    <3>2. q.fd = "none" /\ q.alive
      BY <1>3, <1>6, <1>7, <2>2
    <3> QED
      BY <1>1, <1>5, <1>6, <2>2, <3>1, <3>2 DEF ContextSound
  <2> QED
    BY <1>3, <2>1, <2>2
<1>9. RefsCounted' /\ c_native' \in [1..MaxOpens -> Contexts]
  <2>1. \A m \in 1..MaxOpens \ {n} : m \in c_dying' <=> m \in c_dying
    BY <1>3
  <2>2. q.alive => n <= c_opens'
    BY <1>1, <1>2
  <2> QED
    BY <1>1, <1>2, <1>3, <1>5, <1>8, <2>1, <2>2, OthersCount
<1>10. CaptureTyping'
  <2>1. c_ctx' \in {0, n} /\ c_opens' = c_opens
    BY <1>1, <1>3
  <2>2. 0 \in 0..c_opens
    BY <1>2 DEF LinksAssumption
  <2>3. c_ctx' \in 0..c_opens'
    BY <1>2, <2>1, <2>2
  <2>4. c_dying' \subseteq c_dying \cup {n}
    BY <1>3
  <2>5. c_dying' \subseteq 1..MaxOpens
    BY <1>2, <2>4 DEF CaptureTyping
  <2> QED
    BY <1>1, <1>3, <1>9, <2>3, <2>5 DEF CaptureTyping
<1>11. c_native'[n] = q /\ \A m \in 1..MaxOpens : m # n => c_native'[m] = c_native[m]
  BY <1>2, <1>3 DEF CaptureTyping
<1>12. BuffersApart'
  <2>1. \A f \in c_frames : f[1] \in 1..MaxOpens
    BY DEF CaptureTyping
  <2> QED
    BY <1>1, <1>3, <1>4, <1>11, <2>1 DEF BuffersApart, r
<1>13. ThreadPlace'
  BY <1>1, <1>2, <1>3, <1>4, <1>7, <1>11 DEF ThreadPlace
<1> QED
  BY <1>1, <1>9, <1>10, <1>12, <1>13

LEMMA CaptureKept == ASSUME LinksAssumption, CaptureInv, [C!Next]_c_vars PROVE CaptureInv'
<1> USE DEF CaptureInv
<1>1. CASE UNCHANGED c_vars
  <2>1. UNCHANGED <<c_native, c_frames, c_ctx, c_decoder, c_pc, c_taken, c_dying, c_stray, c_opens>>
    BY <1>1 DEF c_vars
  <2>2. Opened' = Opened
    BY <2>1 DEF Opened
  <2> QED
    BY <2>1, <2>2 DEF CaptureTyping, RefsCounted, BuffersApart, ThreadPlace
<1>2. CASE C!FfmpegStep \/ C!Close
  <2>1. /\ UNCHANGED <<c_native, c_frames, c_dying, c_stray, c_opens, c_taken, c_ctx>>
        /\ c_pc \in {"ffmpeg", "open"} /\ c_pc' \in {"ffmpeg", "open", "close"}
        /\ c_pc' = "ffmpeg" => c_pc = "ffmpeg"
    BY <1>2 DEF C!FfmpegStep, C!Close, C!FailCloses
  <2>2. c_pc' = "ffmpeg" => c_ctx = 0
    BY <2>1 DEF ThreadPlace
  <2> QED
    BY <2>1, <2>2, CaptureTurns
<1>3. CASE C!DecoderClose
  <2>1. /\ UNCHANGED <<c_native, c_frames, c_dying, c_stray, c_opens, c_taken, c_ctx>>
        /\ c_pc = "close" /\ c_pc' = "closed" /\ c_decoder' = {} /\ c_ctx = 0
    BY <1>3 DEF C!DecoderClose, C!None
  <2> QED
    BY <2>1, CaptureTurns
<1> QED
  BY <1>1, <1>2, <1>3, CaptureOpens, CaptureQueues, CaptureStreams, CaptureDequeues, CaptureWraps,
     CaptureReleases, CaptureDestroys, CaptureCloses DEF C!Next

\* CaptureDriver counts with its own instance of the library's operator.
LEMMA DriverCounts == ASSUME NEW S PROVE C!Cardinality(S) = Cardinality(S)
BY DEF C!Cardinality, Cardinality

LEMMA CaptureIsAccounted == ASSUME LinksAssumption, CaptureInv PROVE C!CaptureAccounts
<1> USE DEF CaptureInv
<1> DEFINE Out(n) == {f \in c_frames : f[1] = n}
<1>1. c_taken = {} \/ \E d : c_taken = {d}
  BY DEF ThreadPlace
<1>2. Cardinality(c_taken) = 0 \/ Cardinality(c_taken) = 1
  BY <1>1, TakenCounts, Zenon
<1>3. ASSUME NEW n \in 1..MaxOpens
      PROVE  /\ Mine(n, c_ctx, c_taken, Opened) \in Nat
             /\ Mine(n, c_ctx, c_taken, Opened) = 0 => n # c_ctx
             /\ Mine(n, c_ctx, c_taken, Opened) =
                  (IF n = c_ctx THEN 1 + Cardinality(c_taken) ELSE 0) +
                  (IF c_pc = "native" /\ n = c_opens THEN 1 ELSE 0)
             /\ c_pc = "closed" => Mine(n, c_ctx, c_taken, Opened) = 0
  BY <1>2 DEF Mine, Opened, ThreadPlace
<1>4. ASSUME NEW n \in 1..MaxOpens
      PROVE  /\ Cardinality(Out(n)) \in Nat
             /\ ContextSound(c_native[n], Cardinality(Out(n)), Mine(n, c_ctx, c_taken, Opened), n \in c_dying)
             /\ Cardinality(Out(n)) = 0 <=> \A f \in c_frames : f[1] # n
  BY <1>4, ContextCounts DEF Held
<1>5. \A f \in c_frames : f[1] \in 1..MaxOpens
  BY DEF CaptureTyping
<1>6. \A f \in c_frames : c_native[f[1]].alive
  BY <1>4, <1>5 DEF ContextSound
<1>7. ASSUME NEW n \in c_dying PROVE c_native[n].alive /\ Out(n) = {} /\ c_ctx # n
  <2>1. n \in 1..MaxOpens
    BY DEF CaptureTyping
  <2>a. /\ Cardinality(Out(n)) \in Nat /\ Mine(n, c_ctx, c_taken, Opened) \in Nat
        /\ ContextSound(c_native[n], Cardinality(Out(n)), Mine(n, c_ctx, c_taken, Opened), TRUE)
    BY <1>3, <1>4, <1>7, <2>1, Zenon
  <2>2. Cardinality(Out(n)) = 0 /\ Mine(n, c_ctx, c_taken, Opened) = 0 /\ c_native[n].alive
    BY <2>a DEF ContextSound
  <2>3. \A f \in c_frames : f[1] # n
    BY <1>4, <2>1, <2>2
  <2>4. n # c_ctx
    BY <1>3, <2>1, <2>2
  <2> QED
    BY <2>2, <2>3, <2>4
<1>8. ASSUME NEW n \in 1..MaxOpens, c_native[n].alive
      PROVE  c_native[n].refs = Cardinality(Out(n)) + (IF n = c_ctx THEN 1 + Cardinality(c_taken) ELSE 0)
                                  + (IF c_pc = "native" /\ n = c_opens THEN 1 ELSE 0)
  <2>1. c_native[n].refs = Cardinality(Out(n)) + Mine(n, c_ctx, c_taken, Opened)
    BY <1>4, <1>8 DEF ContextSound
  <2>2. Cardinality(Out(n)) \in Nat
    BY <1>4
  <2> HIDE DEF Out
  <2> QED
    BY <1>2, <1>3, <2>1, <2>2
<1>9. ASSUME c_pc = "closed", NEW n \in 1..MaxOpens, c_native[n].alive
      PROVE  c_native[n].fd = "none" /\ (n \in c_dying \/ \E f \in c_frames : f[1] = n)
  BY <1>3, <1>4, <1>9 DEF ContextSound
<1>10. c_pc = "closed" => c_decoder = {}
  BY DEF ThreadPlace
<1>11. \A n \in c_dying : c_native[n].alive /\ {f \in c_frames : f[1] = n} = {} /\ c_ctx # n
  BY <1>7
<1>12. \A n \in 1..MaxOpens : c_native[n].alive =>
         c_native[n].refs = Cardinality({f \in c_frames : f[1] = n})
                              + (IF n = c_ctx THEN 1 + Cardinality(c_taken) ELSE 0)
                              + (IF c_pc = "native" /\ n = c_opens THEN 1 ELSE 0)
  BY <1>8
<1>13. c_pc = "closed" =>
         /\ c_decoder = {}
         /\ \A n \in 1..MaxOpens : c_native[n].alive =>
              c_native[n].fd = "none" /\ (n \in c_dying \/ \E f \in c_frames : f[1] = n)
  BY <1>9, <1>10
<1>14. \A n \in C!Native : c_native[n].alive =>
         c_native[n].refs = C!Cardinality({f \in c_frames : f[1] = n})
                              + (IF n = c_ctx THEN 1 + C!Cardinality(c_taken) ELSE 0)
                              + (IF c_pc = "native" /\ n = C!Opening THEN 1 ELSE 0)
  BY <1>12, DriverCounts DEF C!Native, C!Opening
<1> HIDE DEF Out
<1> QED
  BY <1>6, <1>11, <1>13, <1>14, Zenon DEF C!CaptureAccounts, C!Native
-----------------------------------------------------------------------------
(***************************************************************************)
(* The layout of the captured buffers: the format that is lent out is one  *)
(* of those the program reads, with its pitches filled in, and the buffer  *)
(* was found to be long enough for it.                                     *)
(***************************************************************************)
Formats == [fourcc : L!Names \ {""}, planes : 1..3, pitch : Nat \X Nat]

FormatIsRead ==
  /\ l_format.fourcc \in {"bgr3", "nv12", "nv16", "nv24"}
  /\ l_format.planes \in 1..L!DrmPlanes(l_format.fourcc)

FormatInv ==
  /\ l_report \in Formats /\ l_format \in Formats /\ l_length \in Nat \X Nat
  /\ l_pc \in {"enabled", "configure"} => l_format.pitch = l_report.pitch
  /\ l_pc \in {"query", "validate", "streaming"} =>
       /\ FormatIsRead
       /\ l_report.pitch[1] = 0 =>
            l_format.pitch[1] >= Width * (IF l_format.fourcc = "bgr3" THEN 3 ELSE 1)
  /\ l_pc = "streaming" => L!LayoutValid(l_format) /\ l_descriptor = L!Planes(l_format)

LEMMA FormatInit == ASSUME LinksAssumption, L!Init PROVE FormatInv
<1>1. l_report \in Formats
  <2>1. l_report \in L!Reports
    BY DEF L!Init
  <2> QED
    BY <2>1 DEF L!Reports, Formats, LinksAssumption
<1>2. l_format = l_report /\ l_length = <<0, 0>> /\ l_pc = "enabled"
  BY DEF L!Init
<1> QED
  BY <1>1, <1>2 DEF FormatInv

\* The driver keeps its pitches, whatever the format.
LEMMA FormatIsSet == ASSUME FormatInv, L!SetFormat PROVE FormatInv'
<1> USE DEF FormatInv
<1>1. /\ l_pc = "enabled" /\ UNCHANGED <<l_report, l_length, l_name>> /\ l_pc' \in {"configure", "ffmpeg"}
      /\ \/ l_format' \in {l_format, l_report}
         \/ l_name # "" /\ l_name \in L!Names /\ l_format' = [l_report EXCEPT !.fourcc = l_name]
  BY DEF L!SetFormat, L!NativeName, L!Names
<1>2. l_format' \in Formats /\ l_format'.pitch = l_report.pitch
  BY <1>1 DEF Formats
<1> QED
  BY <1>1, <1>2

LEMMA FormatIsConfigured == ASSUME LinksAssumption, FormatInv, L!Configure PROVE FormatInv'
<1> USE DEF FormatInv
<1> DEFINE f == l_format
<1>1. l_pc = "configure" /\ UNCHANGED <<l_report, l_length>> /\ l_pc' \in {"query", "ffmpeg"}
  BY DEF L!Configure, L!Fails
<1>2. CASE l_pc' = "ffmpeg"
  BY <1>1, <1>2 DEF L!Configure
<1>3. CASE l_pc' = "query"
  <2>1. /\ f.fourcc \in L!Software(l_kind) /\ f.planes \in 1..L!DrmPlanes(f.fourcc)
        /\ l_format' = L!Pitched(f)
    BY <1>3 DEF L!Configure, L!Fails
  <2>2. f \in Formats /\ f.pitch[1] \in Nat /\ f.pitch[2] \in Nat /\ f.pitch = l_report.pitch
    BY <1>1 DEF Formats
  <2> DEFINE luma == IF f.pitch[1] = 0 THEN Width * (IF f.fourcc = "bgr3" THEN 3 ELSE 1) ELSE f.pitch[1]
  <2> DEFINE chroma == IF f.planes = 2 /\ f.pitch[2] = 0
                       THEN Width * (IF f.fourcc = "nv24" THEN 2 ELSE 1) ELSE f.pitch[2]
  <2>3. luma \in Nat /\ chroma \in Nat
    BY <2>2 DEF LinksAssumption
  <2>4. l_format' = [f EXCEPT !.pitch = <<luma, chroma>>]
    BY <2>1, <2>2 DEF L!Pitched, Formats
  <2>5. f.pitch[1] = 0 => luma >= Width * (IF f.fourcc = "bgr3" THEN 3 ELSE 1)
    BY <2>3
  <2> HIDE DEF luma, chroma
  <2>6. /\ l_format' \in Formats /\ l_format'.pitch[1] = luma
        /\ l_format'.fourcc = f.fourcc /\ l_format'.planes = f.planes
    BY <2>2, <2>3, <2>4 DEF Formats
  <2>7. FormatIsRead'
    BY <2>1, <2>6 DEF FormatIsRead, L!Software
  <2>8. l_report'.pitch[1] = 0 =>
          l_format'.pitch[1] >= Width * (IF l_format'.fourcc = "bgr3" THEN 3 ELSE 1)
    BY <1>1, <2>2, <2>5, <2>6
  <2> QED
    BY <1>1, <1>3, <2>6, <2>7, <2>8
<1> QED
  BY <1>1, <1>2, <1>3

LEMMA FormatKept == ASSUME LinksAssumption, FormatInv, [L!Next]_l_vars PROVE FormatInv'
<1> USE DEF FormatInv
<1>1. CASE UNCHANGED l_vars \/ L!Done
  <2>1. UNCHANGED <<l_kind, l_name, l_report, l_length, l_requested, l_format, l_descriptor, l_pc>>
    BY <1>1 DEF l_vars, L!Done, L!vars
  <2> QED
    BY <2>1 DEF L!LayoutValid, L!ChromaPitch, FormatIsRead
<1>2. CASE L!Query
  <2>1. /\ l_pc = "query" /\ UNCHANGED <<l_report, l_format>> /\ l_pc' \in {"validate", "ffmpeg"}
        /\ \/ l_length' = l_length
           \/ \E l \in Lengths \X Lengths :
                l_length' = IF l_format.planes = 1 THEN <<l[1], 0>> ELSE l
    BY <1>2, Zenon DEF L!Query, L!Fails
  <2>2. l_length' \in Nat \X Nat
    <3>1. ASSUME NEW l \in Lengths \X Lengths PROVE l \in Nat \X Nat /\ <<l[1], 0>> \in Nat \X Nat
      BY DEF LinksAssumption
    <3> QED
      BY <2>1, <3>1
  <2> QED
    BY <2>1, <2>2 DEF FormatIsRead
<1>3. CASE L!Describe
  <2>1. /\ l_pc = "validate" /\ UNCHANGED <<l_report, l_format, l_length>>
        /\ \/ L!LayoutValid(l_format) /\ l_descriptor' = L!Planes(l_format) /\ l_pc' = "streaming"
           \/ l_pc' = "ffmpeg"
    BY <1>3 DEF L!Describe, L!Fails
  <2>2. L!LayoutValid(l_format)' <=> L!LayoutValid(l_format)
    BY <2>1 DEF L!LayoutValid
  <2>3. L!Planes(l_format)' = L!Planes(l_format)
    BY <2>1
  <2> QED
    BY <2>1, <2>2, <2>3 DEF FormatIsRead
<1>4. CASE L!Rejected
  BY <1>4 DEF L!Rejected, L!Fails
<1> QED
  BY <1>1, <1>2, <1>3, <1>4, FormatIsSet, FormatIsConfigured DEF L!Next

LEMMA DescriptorIsInside == ASSUME LinksAssumption, FormatInv PROVE L!DescriptorFits
<1> SUFFICES ASSUME l_pc = "streaming" PROVE L!DescriptorFits
  BY DEF L!DescriptorFits
<1> DEFINE f == l_format
<1>1. /\ f \in Formats /\ l_length \in Nat \X Nat /\ FormatIsRead
      /\ L!LayoutValid(f) /\ l_descriptor = L!Planes(f)
      /\ l_report.pitch[1] = 0 => f.pitch[1] >= Width * (IF f.fourcc = "bgr3" THEN 3 ELSE 1)
  BY DEF FormatInv
<1>2. f.pitch[1] \in Nat /\ f.pitch[2] \in Nat /\ Height \in Nat
  BY <1>1 DEF Formats, LinksAssumption
<1>3. L!ChromaPitch(f) \in Nat /\ L!ChromaHeight(f) \in Nat
  BY <1>2 DEF L!ChromaPitch, L!ChromaHeight
<1> DEFINE luma == f.pitch[1] * Height
<1> DEFINE chroma == L!ChromaPitch(f) * L!ChromaHeight(f)
<1>4. luma \in Nat /\ chroma \in Nat
  BY <1>2, <1>3
<1>5. CASE f.fourcc = "bgr3"
  <2>1. l_descriptor = <<[object |-> 1, offset |-> 0, pitch |-> f.pitch[1]]>> /\ L!DrmPlanes(f.fourcc) = 1
    BY <1>1, <1>5 DEF L!Planes, L!DrmPlanes
  <2>2. 0 + luma <= l_length[1]
    BY <1>1, <1>4, <2>1 DEF L!LayoutValid
  <2> QED
    BY <1>1, <2>1, <2>2 DEF L!DescriptorFits, L!PlaneEnd
<1>6. CASE f.fourcc # "bgr3"
  <2>1. L!DrmPlanes(f.fourcc) = 2 /\ f.planes \in {1, 2}
    BY <1>1, <1>6 DEF L!DrmPlanes, FormatIsRead
  <2>2. CASE f.planes = 1
    <3>1. l_descriptor = <<[object |-> 1, offset |-> 0, pitch |-> f.pitch[1]],
                           [object |-> 1, offset |-> luma, pitch |-> L!ChromaPitch(f)]>>
      BY <1>1, <2>1, <2>2 DEF L!Planes
    <3>2. luma + chroma <= l_length[1] /\ 0 + luma <= l_length[1] /\ luma >= 0 + luma
      BY <1>1, <1>4, <2>1, <2>2 DEF L!LayoutValid
    <3>3. DOMAIN l_descriptor = {1, 2} /\ Len(l_descriptor) = 2
      BY <3>1
    <3> HIDE DEF chroma, luma
    <3>4. /\ l_descriptor[1] = [object |-> 1, offset |-> 0, pitch |-> f.pitch[1]]
          /\ l_descriptor[2] = [object |-> 1, offset |-> luma, pitch |-> L!ChromaPitch(f)]
      BY <3>1
    <3> QED
      BY <1>1, <2>1, <3>2, <3>3, <3>4 DEF L!DescriptorFits, L!PlaneEnd, luma, chroma
  <2>3. CASE f.planes = 2
    <3>1. l_descriptor = <<[object |-> 1, offset |-> 0, pitch |-> f.pitch[1]],
                           [object |-> 2, offset |-> 0, pitch |-> L!ChromaPitch(f)]>>
      BY <1>1, <2>1, <2>3 DEF L!Planes
    <3>2. 0 + chroma <= l_length[2] /\ 0 + luma <= l_length[1]
      BY <1>1, <1>4, <2>1, <2>3 DEF L!LayoutValid
    <3>3. DOMAIN l_descriptor = {1, 2} /\ Len(l_descriptor) = 2
      BY <3>1
    <3>4. /\ l_descriptor[1] = [object |-> 1, offset |-> 0, pitch |-> f.pitch[1]]
          /\ l_descriptor[2] = [object |-> 2, offset |-> 0, pitch |-> L!ChromaPitch(f)]
      BY <3>1
    <3> HIDE DEF chroma, luma
    <3> QED
      BY <1>1, <2>1, <3>2, <3>3, <3>4 DEF L!DescriptorFits, L!PlaneEnd, luma, chroma
  <2> QED
    BY <2>1, <2>2, <2>3
<1> QED
  BY <1>5, <1>6
-----------------------------------------------------------------------------
(***************************************************************************)
(* The converter. The source it remembers keeps its context, so no other   *)
(* one has its address; the filter, if there is one, is for that source.   *)
(***************************************************************************)
IsSource(s) ==
  /\ s = [hw |-> s.hw, fmt |-> s.fmt, size |-> s.size, addr |-> s.addr, id |-> s.id]
  /\ s.hw \in BOOLEAN
  /\ ~s.hw => s.addr = 0 /\ s.id = 0

RemembersTheSource ==
  /\ IsSource(x_camera) /\ IsSource(x_remembered) /\ x_dst.hw \in BOOLEAN
  /\ x_frame = [source |-> x_frame.source, number |-> x_frame.number]
  /\ x_pc # "idle" => x_frame.source = x_camera
  /\ x_filter \in {X!NoSource, x_remembered}
  /\ x_remembered.hw /\ x_camera.hw /\ x_remembered.addr = x_camera.addr => x_remembered = x_camera

ResizedIsTheFrame ==
  x_pc = "sws" /\ x_resize_valid => x_resized = x_frame.number /\ X!TwoPasses(x_frame.source)

ConvertInv ==
  /\ RemembersTheSource /\ ResizedIsTheFrame
  /\ x_pc = "filter" => ~x_skipped
  /\ X!ConvertsTheFrame

LEMMA ConvertInit == ASSUME X!Init PROVE ConvertInv
<1> USE DEF X!Init
<1>1. IsSource(X!NoSource) /\ ~X!NoSource.hw
  BY DEF IsSource, X!NoSource, X!Nothing
<1>2. x_dst.hw \in BOOLEAN
  <2>1. x_dst.hw = TRUE \/ x_dst.hw = FALSE
    OBVIOUS
  <2> QED
    BY <2>1
<1>3. RemembersTheSource
  BY <1>1, <1>2 DEF RemembersTheSource
<1> QED
  BY <1>3 DEF ConvertInv, ResizedIsTheFrame, X!ConvertsTheFrame

\* What a stage makes of the frame, when it was built for its source.
LEMMA MadeIsRight ==
  ASSUME NEW by, X!BuiltFor(x_frame.source, by), x_result' = X!Made(by),
         UNCHANGED <<x_frame, x_dst>>
  PROVE  /\ x_result'.number = x_frame'.number
         /\ x_result'.hw = x_dst'.hw /\ x_result'.fmt = x_dst'.fmt /\ x_result'.size = "dst"
         /\ X!BuiltFor(x_frame.source, x_result'.built_for)
BY DEF X!Made

\* The filter is asked: it is for the source of this frame, or made for it now.
LEMMA FilterConverts == ASSUME ConvertInv, X!Filter PROVE ConvertInv'
<1> USE DEF ConvertInv
<1> DEFINE s == x_frame.source
<1>1. /\ x_pc = "filter" /\ ~x_skipped
      /\ UNCHANGED <<x_dst, x_camera, x_frame, x_resized, x_resize_valid, x_rga_color_failed>>
      /\ s = x_camera /\ IsSource(s)
  BY DEF X!Filter, X!rga, RemembersTheSource
<1> DEFINE Kept == RemembersTheSource'
<1> DEFINE Result == /\ x_pc' = "done"
                     /\ x_result'.number = x_frame'.number
                     /\ x_result'.hw = x_dst'.hw /\ x_result'.fmt = x_dst'.fmt
                     /\ x_result'.size = "dst" /\ X!BuiltFor(s, x_result'.built_for)
<1>2. ASSUME x_remembered' \in {x_remembered, s, X!NoSource}, x_filter' \in {X!NoSource, x_remembered'}
      PROVE  RemembersTheSource'
  <2>1. IsSource(X!NoSource) /\ ~X!NoSource.hw
    BY DEF IsSource, X!NoSource, X!Nothing
  <2> QED
    BY <1>1, <1>2, <2>1 DEF RemembersTheSource, IsSource
<1>3. ASSUME NEW f, X!BuiltFor(s, f), X!Process(f)
      PROVE  /\ x_filter' \in {f, X!NoSource}
             /\ Result \/ x_pc' \in {"null", "transfer"}
  <2>1. CASE X!Returns(X!Made(f)) /\ x_filter' = f
    BY <1>1, <1>3, <2>1, MadeIsRight DEF X!Returns
  <2>2. CASE x_filter' = X!NoSource /\ X!WithoutFilter
    BY <2>2 DEF X!WithoutFilter
  <2> QED
    BY <1>3, <2>1, <2>2 DEF X!Process
<1>4. X!SourceMatches(s) => x_remembered = s \/ (~s.hw /\ ~x_remembered.hw /\ X!BuiltFor(s, x_remembered))
  <2> SUFFICES ASSUME X!SourceMatches(s)
               PROVE  x_remembered = s \/ (~s.hw /\ ~x_remembered.hw /\ X!BuiltFor(s, x_remembered))
    OBVIOUS
  <2>1. x_remembered.hw = s.hw /\ x_remembered.size = s.size
    BY DEF X!SourceMatches
  <2>2. CASE s.hw
    <3>1. x_remembered.addr = s.addr
      BY <2>2 DEF X!SourceMatches
    <3>2. x_remembered.hw /\ x_camera.hw /\ x_remembered.addr = x_camera.addr
      BY <1>1, <2>1, <2>2, <3>1, Zenon
    <3>3. x_remembered = x_camera
      BY <3>2, Zenon DEF RemembersTheSource
    <3> QED
      BY <1>1, <3>3
  <2>3. CASE ~s.hw
    <3>1. x_remembered.fmt = s.fmt /\ ~x_remembered.hw
      BY <2>1, <2>3 DEF X!SourceMatches
    <3>2. x_remembered.addr = 0
      BY <3>1 DEF RemembersTheSource, IsSource
    <3> QED
      BY <2>1, <2>3, <3>1, <3>2 DEF X!BuiltFor, X!Nothing
  <2> QED
    BY <2>2, <2>3
<1>5. X!SourceMatches(s) => x_remembered.id = s.id
  BY <1>1, <1>4 DEF RemembersTheSource, IsSource
<1> HIDE DEF s
<1>6. ASSUME RemembersTheSource', x_pc' \in {"null", "transfer"}, ~x_skipped' \/ x_remembered'.id = s.id
      PROVE  ConvertInv'
  BY <1>1, <1>6 DEF ResizedIsTheFrame, X!ConvertsTheFrame, s
<1>7. ASSUME RemembersTheSource', Result, ~x_skipped' PROVE ConvertInv'
  BY <1>1, <1>7 DEF ResizedIsTheFrame, X!ConvertsTheFrame, X!BuiltFor, X!TwoPasses, s
<1>8. CASE x_pc' = "transfer" /\ UNCHANGED <<x_remembered, x_filter, x_skipped>>
  BY <1>1, <1>2, <1>6, <1>8 DEF RemembersTheSource
<1>9. CASE /\ X!SourceMatches(s) /\ x_skipped' = TRUE /\ X!WithoutFilter
           /\ UNCHANGED <<x_remembered, x_filter>>
  BY <1>2, <1>5, <1>6, <1>9 DEF RemembersTheSource, X!WithoutFilter
<1>10. CASE /\ x_filter # X!NoSource /\ X!SourceMatches(s) /\ X!Process(x_filter)
            /\ UNCHANGED <<x_remembered, x_skipped>>
  <2>1. x_filter = x_remembered /\ X!BuiltFor(s, x_filter)
    BY <1>4, <1>10 DEF RemembersTheSource, X!BuiltFor
  <2>2. RemembersTheSource'
    BY <1>2, <1>3, <1>10, <2>1
  <2> QED
    BY <1>1, <1>3, <1>6, <1>7, <1>10, <2>1, <2>2
<1>11. CASE X!Create(s) /\ UNCHANGED x_skipped
  <2>1. CASE x_remembered' = s /\ X!Process(s)
    <3>1. X!BuiltFor(s, s)
      BY DEF X!BuiltFor
    <3>2. RemembersTheSource'
      BY <1>2, <1>3, <2>1, <3>1
    <3> QED
      BY <1>1, <1>3, <1>6, <1>7, <1>11, <2>1, <3>1, <3>2
  <2>2. CASE x_remembered' \in {s, X!NoSource} /\ x_filter' = X!NoSource /\ X!WithoutFilter
    BY <1>1, <1>2, <1>6, <1>11, <2>2 DEF X!WithoutFilter
  <2> QED
    BY <1>11, <2>1, <2>2 DEF X!Create
<1> QED
  BY <1>8, <1>9, <1>10, <1>11 DEF X!Filter, X!stage, s

LEMMA ConvertKept == ASSUME LinksAssumption, ConvertInv, [X!Next]_x_vars PROVE ConvertInv'
<1> USE DEF ConvertInv
<1>1. CASE UNCHANGED x_vars
  BY <1>1 DEF x_vars, RemembersTheSource, ResizedIsTheFrame, X!ConvertsTheFrame, X!TwoPasses,
              X!BuiltFor, IsSource
<1>2. CASE X!NewSource
  <2>1. /\ x_pc = "idle"
        /\ UNCHANGED <<x_dst, x_frame, x_pc, x_remembered, x_filter, x_skipped, x_result>>
    BY <1>2 DEF X!NewSource, X!stage
  <2>2. \/ \E size, fmt : x_camera' = [X!NoSource EXCEPT !.fmt = fmt, !.size = size]
        \/ \E size, fmt, id : \E a \in Address \ X!Kept :
             x_camera' = [hw |-> TRUE, fmt |-> fmt, size |-> size, addr |-> a, id |-> id]
    BY <1>2 DEF X!NewSource
  <2>3. IsSource(x_camera') /\ (x_camera'.hw => x_camera'.addr # x_remembered.addr)
    <3>1. ASSUME NEW size, NEW fmt, x_camera' = [X!NoSource EXCEPT !.fmt = fmt, !.size = size]
          PROVE  IsSource(x_camera') /\ (x_camera'.hw => x_camera'.addr # x_remembered.addr)
      BY <3>1 DEF IsSource, X!NoSource, X!Nothing
    <3>2. ASSUME NEW size, NEW fmt, NEW id, NEW a \in Address \ X!Kept,
                 x_camera' = [hw |-> TRUE, fmt |-> fmt, size |-> size, addr |-> a, id |-> id]
          PROVE  IsSource(x_camera') /\ (x_camera'.hw => x_camera'.addr # x_remembered.addr)
      <4>1. a # x_remembered.addr
        BY DEF X!Kept
      <4> QED
        BY <3>2, <4>1 DEF IsSource
    <3> QED
      BY <2>2, <3>1, <3>2
  <2>4. RemembersTheSource'
    BY <2>1, <2>3 DEF RemembersTheSource, IsSource
  <2> QED
    BY <2>1, <2>4 DEF ResizedIsTheFrame, X!ConvertsTheFrame
<1>3. CASE X!prepare
  <2>1. /\ x_frame' = [source |-> x_camera, number |-> x_frame.number + 1] /\ x_skipped' = FALSE
        /\ UNCHANGED <<x_dst, x_camera, x_remembered, x_filter>>
        /\ \/ /\ X!AlreadyRight(x_camera) /\ x_pc' = "done"
              /\ x_result' = [number |-> x_frame.number + 1, hw |-> FALSE, fmt |-> x_camera.fmt,
                              size |-> x_camera.size, built_for |-> x_camera]
           \/ x_pc' = "filter"
    BY <1>3 DEF X!prepare, X!Returns
  <2>2. RemembersTheSource'
    BY <2>1 DEF RemembersTheSource, IsSource
  <2>3. X!AlreadyRight(x_camera) =>
          x_dst.hw = FALSE /\ x_camera.fmt = x_dst.fmt /\ x_camera.size = "dst"
    BY DEF X!AlreadyRight, RemembersTheSource
  <2>4. CASE X!AlreadyRight(x_camera) /\ x_pc' = "done"
    <3>1. x_result' = [number |-> x_frame.number + 1, hw |-> FALSE, fmt |-> x_camera.fmt,
                       size |-> x_camera.size, built_for |-> x_camera]
      BY <2>1, <2>4
    <3>2. /\ x_result'.number = x_frame'.number /\ x_result'.hw = x_dst'.hw
          /\ x_result'.fmt = x_dst'.fmt /\ x_result'.size = "dst"
          /\ x_result'.built_for = x_frame'.source
      BY <2>1, <2>3, <2>4, <3>1
    <3>3. X!ConvertsTheFrame'
      BY <2>1, <3>2 DEF X!ConvertsTheFrame, X!BuiltFor
    <3> QED
      BY <2>2, <2>4, <3>3 DEF ResizedIsTheFrame
  <2>5. CASE x_pc' = "filter"
    BY <2>1, <2>2, <2>5 DEF ResizedIsTheFrame, X!ConvertsTheFrame
  <2> QED
    BY <2>1, <2>4, <2>5
<1>4. CASE X!Finished
  BY <1>4 DEF X!Finished, X!stage, RemembersTheSource, ResizedIsTheFrame, X!ConvertsTheFrame, IsSource
<1>5. CASE X!ReturnsNull
  BY <1>5 DEF X!ReturnsNull, X!Returns, X!stage, RemembersTheSource, ResizedIsTheFrame,
              X!ConvertsTheFrame, IsSource
<1>6. ASSUME UNCHANGED <<x_dst, x_camera, x_frame, x_remembered, x_filter, x_skipped>>,
             x_pc \notin {"idle", "filter"}, x_pc' \notin {"idle", "filter"}
      PROVE  RemembersTheSource' /\ (x_pc' = "filter" => ~x_skipped')
  BY <1>6 DEF RemembersTheSource, IsSource
<1>7. CASE X!Transfer
  <2> DEFINE s == x_frame.source
  <2>1. /\ x_pc = "transfer" /\ UNCHANGED <<x_dst, x_camera, x_frame, x_remembered, x_filter, x_skipped>>
        /\ \/ X!Returns(X!Made(s)) \/ x_pc' \in {"rga", "null"}
    BY <1>7 DEF X!Transfer, X!stage
  <2>2. X!BuiltFor(s, s)
    BY DEF X!BuiltFor
  <2>3. CASE X!Returns(X!Made(s))
    BY <1>6, <2>1, <2>2, <2>3, MadeIsRight DEF X!Returns, ResizedIsTheFrame, X!ConvertsTheFrame,
       X!BuiltFor, X!TwoPasses
  <2>4. CASE x_pc' \in {"rga", "null"}
    BY <1>6, <2>1, <2>4 DEF ResizedIsTheFrame, X!ConvertsTheFrame
  <2> QED
    BY <2>1, <2>3, <2>4
<1>8. CASE X!RgaConvert
  <2> DEFINE s == x_frame.source
  <2>1. /\ x_pc = "rga" /\ UNCHANGED <<x_dst, x_camera, x_frame, x_remembered, x_filter, x_skipped>>
        /\ \/ X!Returns(X!Made(s))
           \/ /\ X!TwoPasses(s) /\ x_resized' = x_frame.number /\ x_pc' = "sws"
           \/ x_resize_valid' = FALSE /\ x_pc' = "sws"
    BY <1>8 DEF X!RgaConvert, X!stage, X!ResizeReset
  <2>2. X!BuiltFor(s, s)
    BY DEF X!BuiltFor
  <2>3. CASE X!Returns(X!Made(s))
    BY <1>6, <2>1, <2>2, <2>3, MadeIsRight DEF X!Returns, ResizedIsTheFrame, X!ConvertsTheFrame,
       X!BuiltFor, X!TwoPasses
  <2>4. CASE X!TwoPasses(s) /\ x_resized' = x_frame.number /\ x_pc' = "sws"
    BY <1>6, <2>1, <2>4 DEF ResizedIsTheFrame, X!ConvertsTheFrame, X!TwoPasses
  <2>5. CASE x_resize_valid' = FALSE /\ x_pc' = "sws"
    BY <1>6, <2>1, <2>5 DEF ResizedIsTheFrame, X!ConvertsTheFrame
  <2> QED
    BY <2>1, <2>3, <2>4, <2>5
<1>9. CASE X!SwsConvert
  <2> DEFINE s == x_frame.source
  <2> DEFINE made == [X!Made(X!SwsSource) EXCEPT !.number = X!SwsPicture, !.built_for = x_sws']
  <2>1. /\ x_pc = "sws" /\ UNCHANGED <<x_dst, x_camera, x_frame, x_remembered, x_filter, x_skipped>>
        /\ \/ x_sws' = X!SwsSource /\ x_result' = made /\ x_pc' = "done"
           \/ x_pc' = "null"
    BY <1>9 DEF X!SwsConvert, X!stage, X!Returns
  <2>2. CASE x_pc' = "null"
    BY <1>6, <2>1, <2>2 DEF ResizedIsTheFrame, X!ConvertsTheFrame
  <2>3. CASE x_sws' = X!SwsSource /\ x_result' = made /\ x_pc' = "done"
    <3>1. X!SwsPicture = x_frame.number /\ X!BuiltFor(s, X!SwsSource)
      BY <2>1 DEF ResizedIsTheFrame, X!SwsPicture, X!SwsSource, X!BuiltFor, X!NoSource, X!Nothing
    <3>2. /\ x_result'.number = x_frame.number /\ x_result'.built_for = X!SwsSource
          /\ x_result'.hw = x_dst.hw /\ x_result'.fmt = x_dst.fmt /\ x_result'.size = "dst"
      BY <2>3, <3>1 DEF X!Made
    <3>3. X!ConvertsTheFrame'
      BY <2>1, <3>1, <3>2 DEF X!ConvertsTheFrame, X!BuiltFor, X!TwoPasses
    <3> QED
      BY <1>6, <2>1, <2>3, <3>3 DEF ResizedIsTheFrame
  <2> QED
    BY <2>1, <2>2, <2>3
<1> QED
  BY <1>1, <1>2, <1>3, <1>4, <1>5, <1>7, <1>8, <1>9, FilterConverts DEF X!Next
-----------------------------------------------------------------------------
(***************************************************************************)
(* The on-screen display. A revision that is not newer than what is        *)
(* painted was painted from the same fields; a name that is painted is the *)
(* last source's, or erased.                                               *)
(***************************************************************************)
IsView(v) ==
  v = [f |-> v.f, seconds |-> v.seconds, recording |-> v.recording,
       blink |-> v.blink, flash |-> v.flash]
IsParams(o) ==
  /\ o = [f |-> o.f, until |-> o.until, seq |-> o.seq]
  /\ o.f \in [O!Field -> {0, 1}] /\ o.seq \in Nat

ParamsKept ==
  /\ IsParams(o_osd) /\ o_osd.seq # 0 /\ o_wanted = o_osd.f
  /\ o_locked => IsParams(o_copy) /\ o_copy.f = o_osd.f

RevisionTells ==
  /\ IsView(o_rgba)
  /\ o_revision = [seq |-> o_revision.seq, view |-> o_revision.view]
  /\ o_revision.seq \in Nat /\ o_revision.seq <= o_osd.seq
  /\ o_revision.seq # 0 => o_revision.view = [o_rgba EXCEPT !.f = O!NoView.f]
  /\ o_revision.seq = o_osd.seq => o_rgba.f = o_osd.f

Named(label, channel) == label = channel \/ (o_wiped /\ label = O!None)

FrameIsDrawn ==
  /\ o_snap = [channel |-> o_snap.channel, view |-> o_snap.view]
  /\ o_shown = [label |-> o_shown.label, osd |-> o_shown.osd]
  /\ Named(o_label_rgba, o_label_channel)
  /\ o_pc = "label" => Named(o_label_rgba, o_snap.channel)
  /\ o_pc \in {"osd", "overlay", "encode"} => Named(o_shown.label, o_snap.channel)
  /\ o_pc = "overlay" => o_rgba = o_snap.view
  /\ o_pc = "encode" => o_shown.osd = o_snap.view

OsdInv == ParamsKept /\ RevisionTells /\ FrameIsDrawn

LEMMA OsdInit == ASSUME O!Init PROVE OsdInv
<1> USE DEF O!Init
<1>1. O!NoView.f \in [O!Field -> {0, 1}] /\ IsView(O!NoView)
  BY DEF O!NoView, IsView
<1>2. ParamsKept
  BY <1>1 DEF ParamsKept, IsParams, O!Unset
<1>3. RevisionTells
  BY <1>1 DEF RevisionTells, O!Unset
<1>4. FrameIsDrawn
  BY DEF FrameIsDrawn, O!NoSnap, O!NoShown, Named
<1> QED
  BY <1>2, <1>3, <1>4 DEF OsdInv

\* The parameters change, and their number with them, or only the flash does.
LEMMA ParamsChange ==
  ASSUME OsdInv, O!ReadAll \/ O!WriteAll \/ O!SetTelemetry \/ O!vp_osd_notify_snapshot
  PROVE  OsdInv'
<1> USE DEF OsdInv, IsParams
<1>1. UNCHANGED <<o_pc, o_label_channel, o_label_rgba, o_revision, o_rgba, o_snap, o_shown, o_wiped>>
  BY DEF O!ReadAll, O!WriteAll, O!SetTelemetry, O!vp_osd_notify_snapshot, O!painted
<1>2. FrameIsDrawn'
  BY <1>1 DEF FrameIsDrawn, Named
<1>3. CASE O!ReadAll
  <2>1. UNCHANGED <<o_osd, o_wanted>> /\ o_copy' = o_osd
    BY <1>3 DEF O!ReadAll
  <2> QED
    BY <1>1, <1>2, <2>1 DEF ParamsKept, RevisionTells, IsView
<1>4. CASE O!WriteAll
  <2>1. PICK v \in {0, 1} :
          /\ o_osd' = [o_copy EXCEPT !.f.crosshair = v, !.seq = o_osd.seq + 1]
          /\ o_wanted' = [o_wanted EXCEPT !.crosshair = v]
    BY <1>4 DEF O!WriteAll
  <2>2. o_locked /\ o_locked' = FALSE
    BY <1>4 DEF O!WriteAll
  <2>3. /\ o_osd' = [f |-> o_osd'.f, until |-> o_osd'.until, seq |-> o_osd'.seq]
        /\ o_osd'.f = [o_copy.f EXCEPT !["crosshair"] = v] /\ o_osd'.seq = o_osd.seq + 1
    BY <2>1, <2>2 DEF ParamsKept
  <2>4. o_osd'.f \in [O!Field -> {0, 1}] /\ o_osd'.f = o_wanted' /\ o_osd'.seq \in Nat /\ o_osd'.seq # 0
    BY <2>1, <2>2, <2>3 DEF ParamsKept
  <2>5. ParamsKept'
    BY <2>2, <2>3, <2>4 DEF ParamsKept
  <2> QED
    BY <1>1, <1>2, <2>3, <2>5 DEF RevisionTells, IsView, ParamsKept
<1>5. CASE O!SetTelemetry
  <2>1. PICK x \in O!Field \ {"crosshair"}, v \in {0, 1} :
          /\ o_osd' = [o_osd EXCEPT !.f[x] = v, !.seq = @ + 1]
          /\ o_wanted' = [o_wanted EXCEPT ![x] = v]
    BY <1>5 DEF O!SetTelemetry
  <2>2. ~o_locked /\ o_locked' = o_locked
    BY <1>5 DEF O!SetTelemetry, O!ControlLock
  <2>3. /\ o_osd' = [f |-> o_osd'.f, until |-> o_osd'.until, seq |-> o_osd'.seq]
        /\ o_osd'.f = [o_osd.f EXCEPT ![x] = v] /\ o_osd'.seq = o_osd.seq + 1
    BY <2>1 DEF ParamsKept
  <2>4. o_osd'.f \in [O!Field -> {0, 1}] /\ o_osd'.f = o_wanted' /\ o_osd'.seq \in Nat /\ o_osd'.seq # 0
    BY <2>1, <2>3 DEF ParamsKept
  <2>5. ParamsKept'
    BY <2>2, <2>3, <2>4 DEF ParamsKept
  <2> QED
    BY <1>1, <1>2, <2>3, <2>5 DEF RevisionTells, IsView, ParamsKept
<1>6. CASE O!vp_osd_notify_snapshot
  <2>1. /\ o_osd' = [o_osd EXCEPT !.until = o_now + 2]
        /\ UNCHANGED <<o_copy, o_locked, o_wanted>>
    BY <1>6 DEF O!vp_osd_notify_snapshot
  <2>2. /\ o_osd' = [f |-> o_osd'.f, until |-> o_osd'.until, seq |-> o_osd'.seq]
        /\ o_osd'.f = o_osd.f /\ o_osd'.seq = o_osd.seq
    BY <2>1 DEF ParamsKept
  <2>3. ParamsKept'
    BY <2>1, <2>2 DEF ParamsKept
  <2> QED
    BY <1>1, <1>2, <2>2, <2>3 DEF RevisionTells, IsView
<1> HIDE DEF OsdInv
<1> QED
  BY <1>3, <1>4, <1>5, <1>6, SMTT(30)

LEMMA StreamDraws ==
  ASSUME OsdInv, O!TakeFrame \/ O!Label \/ O!Overlay \/ O!Encode
  PROVE  OsdInv'
<1> USE DEF OsdInv
<1>1. UNCHANGED <<o_osd, o_copy, o_locked, o_wanted, o_revision, o_rgba>>
  BY DEF O!TakeFrame, O!Label, O!Overlay, O!Encode, O!params, O!painted
<1>2. ParamsKept' /\ RevisionTells'
  BY <1>1 DEF ParamsKept, RevisionTells, IsParams, IsView
<1>3. CASE O!TakeFrame
  <2>1. /\ o_snap' = [O!NoSnap EXCEPT !.channel = o_stream_ch] /\ o_shown' = o_shown /\ o_pc = "idle"
        /\ \/ /\ o_label_channel = o_stream_ch /\ o_pc' = "label"
              /\ UNCHANGED <<o_label_channel, o_label_rgba, o_wiped>>
           \/ /\ o_pc' = "label" /\ o_label_channel' = o_stream_ch /\ o_label_rgba' = o_stream_ch
              /\ UNCHANGED o_wiped
           \/ /\ UNCHANGED <<o_pc, o_label_channel>>
              /\ o_label_rgba' \in {o_label_rgba, O!None}
              /\ o_wiped' = (o_wiped \/ o_label_rgba' = O!None)
    BY <1>3 DEF O!TakeFrame
  <2>2. o_snap' = [channel |-> o_stream_ch, view |-> O!NoView]
    BY <2>1 DEF O!NoSnap
  <2>3. FrameIsDrawn'
    BY <2>1, <2>2 DEF FrameIsDrawn, Named
  <2> QED
    BY <1>2, <2>3
<1>4. CASE O!Label
  <2>1. /\ o_pc = "label" /\ o_pc' \in {"osd", "idle"} /\ o_shown' = [o_shown EXCEPT !.label = o_label_rgba]
        /\ UNCHANGED <<o_label_channel, o_label_rgba, o_snap, o_wiped>>
    BY <1>4 DEF O!Label, O!Process, O!painted
  <2>2. o_shown' = [label |-> o_label_rgba, osd |-> o_shown.osd]
    BY <2>1 DEF FrameIsDrawn
  <2>3. FrameIsDrawn'
    BY <2>1, <2>2 DEF FrameIsDrawn, Named
  <2> QED
    BY <1>2, <2>3
<1>5. CASE O!Overlay
  <2>1. /\ o_pc = "overlay" /\ o_pc' \in {"encode", "idle"} /\ o_shown' = [o_shown EXCEPT !.osd = o_rgba]
        /\ UNCHANGED <<o_label_channel, o_label_rgba, o_snap, o_wiped>>
    BY <1>5 DEF O!Overlay, O!Process, O!painted
  <2>2. o_shown' = [label |-> o_shown.label, osd |-> o_rgba]
    BY <2>1 DEF FrameIsDrawn
  <2>3. FrameIsDrawn'
    BY <2>1, <2>2 DEF FrameIsDrawn, Named
  <2> QED
    BY <1>2, <2>3
<1>6. CASE O!Encode
  <2>1. /\ o_pc' = "idle" /\ o_snap' = O!NoSnap /\ o_shown' = O!NoShown
        /\ UNCHANGED <<o_label_channel, o_label_rgba, o_wiped>>
    BY <1>6 DEF O!Encode, O!painted
  <2>2. FrameIsDrawn'
    BY <2>1 DEF FrameIsDrawn, Named, O!NoSnap, O!NoShown
  <2> QED
    BY <1>2, <2>2
<1> HIDE DEF OsdInv
<1> QED
  BY <1>3, <1>4, <1>5, <1>6

LEMMA StreamPaints == ASSUME OsdInv, O!Paint PROVE OsdInv'
<1> USE DEF OsdInv
<1>1. PICK view :
        /\ IsView(view) /\ view.f = o_osd.f
        /\ o_snap' = [o_snap EXCEPT !.view = view]
        /\ \/ /\ o_revision = O!Revision(o_osd.seq, view)
              /\ o_pc' = "overlay" /\ UNCHANGED <<o_revision, o_rgba>>
           \/ o_pc' = "overlay" /\ o_revision' = O!Revision(o_osd.seq, view) /\ o_rgba' = view
           \/ o_pc' = "idle" /\ UNCHANGED <<o_revision, o_rgba>>
  <2> DEFINE on == o_recording /\ o_osd.f.crosshair = 1
  <2> DEFINE view == [f |-> o_osd.f, recording |-> on,
                      seconds |-> IF on THEN (o_now - o_rec_start) \div 2 ELSE 0,
                      blink |-> on /\ o_now % 2 = 0,
                      flash |-> o_osd.f.crosshair = 1 /\ o_now < o_osd.until /\ o_now % 2 = 0]
  <2>1. /\ o_snap' = [o_snap EXCEPT !.view = view]
        /\ \/ /\ o_revision = O!Revision(o_osd.seq, view)
              /\ o_pc' = "overlay" /\ UNCHANGED <<o_revision, o_rgba>>
           \/ o_pc' = "overlay" /\ o_revision' = O!Revision(o_osd.seq, view) /\ o_rgba' = view
           \/ o_pc' = "idle" /\ UNCHANGED <<o_revision, o_rgba>>
    BY Zenon DEF O!Paint
  <2>2. IsView(view) /\ view.f = o_osd.f
    BY DEF IsView
  <2> HIDE DEF view
  <2> QED
    BY <2>1, <2>2
<1>2. /\ UNCHANGED <<o_osd, o_copy, o_locked, o_wanted, o_label_channel, o_label_rgba, o_shown, o_wiped>>
      /\ o_pc = "osd"
  BY DEF O!Paint, O!params
<1>3. ParamsKept' /\ o_osd.seq # 0 /\ o_osd.seq \in Nat
  BY <1>2 DEF ParamsKept, IsParams
<1> DEFINE bare == [view EXCEPT !.f = O!NoView.f]
<1>4. O!Revision(o_osd.seq, view) = [seq |-> o_osd.seq, view |-> bare]
  BY DEF O!Revision
<1>5. CASE o_revision = O!Revision(o_osd.seq, view) /\ UNCHANGED <<o_revision, o_rgba>>
  <2>1. o_revision.seq = o_osd.seq /\ o_revision.view = bare
    BY <1>4, <1>5
  <2>2. bare = [o_rgba EXCEPT !.f = O!NoView.f] /\ o_rgba.f = view.f /\ IsView(o_rgba)
    BY <1>1, <1>3, <2>1 DEF RevisionTells
  <2>3. o_rgba = view
    BY <1>1, <2>2 DEF IsView
  <2>4. RevisionTells'
    BY <1>2, <1>5 DEF RevisionTells, IsView
  <2>5. o_snap' = [channel |-> o_snap.channel, view |-> view] /\ o_rgba' = view
    BY <1>1, <1>5, <2>3 DEF FrameIsDrawn
  <2>6. FrameIsDrawn'
    BY <1>1, <1>2, <2>5 DEF FrameIsDrawn, Named
  <2> QED
    BY <1>3, <2>4, <2>6
<1>6. CASE o_pc' = "overlay" /\ o_revision' = O!Revision(o_osd.seq, view) /\ o_rgba' = view
  <2>1. o_revision' = [seq |-> o_osd.seq, view |-> bare]
    BY <1>4, <1>6
  <2>2. RevisionTells'
    BY <1>1, <1>2, <1>3, <1>6, <2>1 DEF RevisionTells, IsView
  <2>3. o_snap' = [channel |-> o_snap.channel, view |-> view] /\ o_rgba' = view
    BY <1>1, <1>6 DEF FrameIsDrawn
  <2>4. FrameIsDrawn'
    BY <1>2, <1>6, <2>3 DEF FrameIsDrawn, Named
  <2> QED
    BY <1>3, <2>2, <2>4
<1>7. CASE o_pc' = "idle" /\ UNCHANGED <<o_revision, o_rgba>>
  <2>1. RevisionTells'
    BY <1>2, <1>7 DEF RevisionTells, IsView
  <2>2. o_snap' = [channel |-> o_snap.channel, view |-> view]
    BY <1>1 DEF FrameIsDrawn
  <2>3. FrameIsDrawn'
    BY <1>2, <1>7, <2>2 DEF FrameIsDrawn, Named
  <2> QED
    BY <1>3, <2>1, <2>3
<1> QED
  BY <1>1, <1>5, <1>6, <1>7

LEMMA OsdKept == ASSUME OsdInv, [O!Next]_o_vars PROVE OsdInv'
<1>1. CASE UNCHANGED o_vars \/ O!World
  <2>1. UNCHANGED <<o_osd, o_copy, o_locked, o_wanted, o_revision, o_rgba, o_label_channel, o_label_rgba,
                    o_snap, o_shown, o_wiped, o_pc>>
    BY <1>1 DEF o_vars, O!World, O!params, O!painted
  <2> QED
    BY <2>1 DEF OsdInv, ParamsKept, RevisionTells, FrameIsDrawn, IsParams, IsView, Named
<1> QED
  BY <1>1, ParamsChange, StreamDraws, StreamPaints DEF O!Next

LEMMA OsdIsCurrent == ASSUME OsdInv PROVE O!TelemetryKept /\ O!OverlayCurrent
BY DEF OsdInv, ParamsKept, FrameIsDrawn, Named, O!TelemetryKept, O!OverlayCurrent
-----------------------------------------------------------------------------
(***************************************************************************)
(* The bytes of the laser and of the thermal camera. The first byte of the *)
(* answer to a call is on the line, or read, at most once, and once the    *)
(* call has returned it is there only if a call up to it failed: so an     *)
(* answer that is taken is the call's own, or excused. What it says is     *)
(* compared with the kind of the call, and with what the call sets.        *)
(***************************************************************************)
OfCalls(S) == \A b \in S : b.of \in Nat

\* A row of bytes, whatever their values: each is of a call, or of none.
IsRow(bytes) == \E S : OfCalls(S) /\ bytes \in Seq(S)

Begun(bytes, c) == \E i \in DOMAIN bytes : bytes[i].of = c /\ bytes[i].at = 1
Unread(rx, wire, asked, c) ==
  (\E i \in DOMAIN asked : asked[i] = c) \/ Begun(rx, c) \/ Begun(wire, c)

SerialTyping ==
  /\ a_device \in {"laser", "thermal"}
  /\ a_kind \in Seq(A!Kind) /\ a_waiting \in BOOLEAN
  /\ a_setting \in Seq(LaserSettings \cup {0}) /\ Len(a_setting) = Len(a_kind)
  /\ \A c \in 1..Len(a_kind) : A!IsSetting(a_kind[c]) \/ a_setting[c] = 0
  /\ IsRow(a_rx) /\ IsRow(a_wire)
  /\ a_to_device \in Seq(Nat) /\ a_failed \in SUBSET Nat /\ a_fooled \in SUBSET Nat
  /\ a_result.call \in 0..Len(a_kind)

\* The first byte of an answer is in one place.
BegunOnce(rx, wire, asked, calls) ==
  /\ \A i, j \in DOMAIN asked : asked[i] = asked[j] => i = j
  /\ \A i \in DOMAIN asked : asked[i] \in 1..calls /\ ~Begun(rx, asked[i]) /\ ~Begun(wire, asked[i])
  /\ \A i, j \in DOMAIN wire : wire[i].at = 1 /\ wire[j].at = 1 /\ wire[i].of = wire[j].of => i = j
  /\ \A i \in DOMAIN wire : wire[i].of <= calls /\ (wire[i].at = 1 => ~Begun(rx, wire[i].of))
  /\ \A i \in DOMAIN rx : rx[i].of <= calls

\* A call that has returned, and whose answer has not been read, failed, or one before it.
LateIsExcused(rx, wire, asked, calls, waiting, excuses) ==
  \A c \in 1..calls :
    Unread(rx, wire, asked, c) /\ (c < calls \/ ~waiting) => \E f \in excuses : f <= c

SerialInv ==
  /\ SerialTyping
  /\ BegunOnce(a_rx, a_wire, a_to_device, Len(a_kind))
  /\ LateIsExcused(a_rx, a_wire, a_to_device, Len(a_kind), a_waiting, a_failed \cup a_fooled)
  /\ A!AnswerIsOwn

LEMMA EmptyIsRow == IsRow(<<>>)
<1>1. OfCalls({}) /\ <<>> \in Seq({})
  BY EmptySeq DEF OfCalls
<1> QED
  BY <1>1 DEF IsRow

\* Two rows may be looked at as rows of the same bytes, and of some bytes more.
LEMMA RowsShare ==
  ASSUME NEW s, IsRow(s), NEW t, IsRow(t)
  PROVE  \E S : OfCalls(S) /\ s \in Seq(S) /\ t \in Seq(S)
<1>1. PICK S : OfCalls(S) /\ s \in Seq(S)
  BY DEF IsRow
<1>2. PICK T : OfCalls(T) /\ t \in Seq(T)
  BY DEF IsRow
<1>3. OfCalls(S \cup T)
  BY <1>1, <1>2 DEF OfCalls
<1>4. s \in Seq(S \cup T)
  BY <1>1, SeqMonotonic
<1>5. t \in Seq(S \cup T)
  BY <1>2, SeqMonotonic
<1> QED
  BY <1>3, <1>4, <1>5

LEMMA SerialInit == A!Init => SerialInv
<1> SUFFICES ASSUME A!Init PROVE SerialInv
  OBVIOUS
<1>1. /\ a_device \in {"laser", "thermal"} /\ a_kind = <<>> /\ a_setting = <<>> /\ a_waiting = FALSE /\ a_rx = <<>>
      /\ a_result.call = 0 /\ a_failed = {} /\ a_fooled = {} /\ a_to_device = <<>> /\ a_wire = <<>>
  BY DEF A!Init, A!None
<1>2. Len(a_kind) = 0
  BY <1>1
<1>3. SerialTyping
  <2>1. a_kind \in Seq(A!Kind) /\ a_setting \in Seq(LaserSettings \cup {0}) /\ a_to_device \in Seq(Nat)
    BY <1>1, EmptySeq
  <2>2. IsRow(a_rx) /\ IsRow(a_wire)
    BY <1>1, EmptyIsRow
  <2>3. a_result.call \in 0..Len(a_kind)
    BY <1>1, <1>2
  <2>4. a_failed \in SUBSET Nat /\ a_fooled \in SUBSET Nat /\ a_waiting \in BOOLEAN
    BY <1>1
  <2> QED
    BY <1>1, <1>2, <2>1, <2>2, <2>3, <2>4 DEF SerialTyping
<1>4. BegunOnce(a_rx, a_wire, a_to_device, Len(a_kind))
  BY <1>1 DEF BegunOnce
<1>5. LateIsExcused(a_rx, a_wire, a_to_device, Len(a_kind), a_waiting, a_failed \cup a_fooled)
  BY <1>1, <1>2 DEF LateIsExcused
<1>6. A!AnswerIsOwn
  BY <1>1 DEF A!AnswerIsOwn, A!None
<1> QED
  BY <1>3, <1>4, <1>5, <1>6 DEF SerialInv

\* The bytes of an answer are of its call, and the first of them is in the first place.
LEMMA AnswerBytes ==
  ASSUME NEW c \in Nat, NEW Value, NEW values \in Seq(Value)
  PROVE  LET s == A!Bytes(c, values) IN
         /\ IsRow(s) /\ DOMAIN s = 1..Len(values) /\ Len(s) = Len(values)
         /\ \A i \in DOMAIN s : s[i].of = c /\ s[i].at = i /\ s[i].value = values[i]
<1> DEFINE s == A!Bytes(c, values)
           n == Len(values)
           S == [of : Nat, at : Nat, value : Value]
<1>1. n \in Nat /\ DOMAIN values = 1..n /\ \A i \in 1..n : values[i] \in Value
  BY LenProperties
<1> HIDE DEF n
<1>2. s = [i \in 1..n |-> [of |-> c, at |-> i, value |-> values[i]]]
  BY <1>1 DEF A!Bytes
<1> HIDE DEF s
<1>3. DOMAIN s = 1..n /\ \A i \in 1..n : s[i] = [of |-> c, at |-> i, value |-> values[i]]
  BY <1>2
<1>4. \A i \in 1..n : [of |-> c, at |-> i, value |-> values[i]] \in S
  BY <1>1
<1>5. OfCalls(S)
  BY DEF OfCalls
<1> HIDE DEF S
<1>6. s \in Seq(S) /\ Len(s) = n
  BY <1>1, <1>2, <1>4
<1>7. \A i \in DOMAIN s : s[i].of = c /\ s[i].at = i /\ s[i].value = values[i]
  BY <1>3
<1> QED
  BY <1>1, <1>3, <1>5, <1>6, <1>7 DEF IsRow, s, n

\* What the answer to a call says, and how long it is.
LEMMA LaserSays ==
  ASSUME SerialTyping, NEW c \in 1..Len(a_kind)
  PROVE  LET s == A!LaserFrame(c) IN
         /\ IsRow(s) /\ Len(s) = 5 /\ DOMAIN s = 1..5
         /\ s[2].value = a_kind[c] /\ s[3].value = 1
         /\ A!IsSetting(a_kind[c]) => s[4].value = a_setting[c]
         /\ \A i \in DOMAIN s : s[i].of = c /\ s[i].at = i
<1> DEFINE k == a_kind[c]
           d == IF A!IsSetting(k) THEN a_setting[c] ELSE c
           body == <<A!LaserHead, k, 1, d>>
           check == A!XorOf(body)
           values == Append(body, check)
           Value == Nat \cup {d, check}
           s == A!LaserFrame(c)
<1>1. Len(a_kind) \in Nat /\ c \in Nat /\ k \in Nat
  <2>1. a_kind \in Seq(A!Kind) /\ Len(a_kind) \in Nat /\ DOMAIN a_kind = 1..Len(a_kind)
    BY LenProperties DEF SerialTyping
  <2>2. k \in A!Kind
    BY <2>1
  <2> QED
    BY <2>1, <2>2 DEF A!Kind
<1>2. s = A!Bytes(c, values)
  BY DEF A!LaserFrame
<1>3. A!IsSetting(k) => d = a_setting[c]
  OBVIOUS
<1> HIDE DEF k, d, check, s
<1>4. body \in Seq(Value) /\ check \in Value
  BY <1>1 DEF A!LaserHead
<1>5. Len(body) = 4 /\ body[2] = k /\ body[3] = 1 /\ body[4] = d
  OBVIOUS
<1> HIDE DEF Value, body
<1>6. values \in Seq(Value) /\ Len(values) = Len(body) + 1
  BY <1>4, AppendProperties
<1>7. \A i \in 1..Len(body) : values[i] = body[i]
  BY <1>4, AppendProperties
<1> HIDE DEF values
<1>8. Len(values) = 5 /\ values[2] = k /\ values[3] = 1 /\ values[4] = d
  BY <1>5, <1>6, <1>7
<1>9. /\ IsRow(s) /\ DOMAIN s = 1..Len(values) /\ Len(s) = Len(values)
      /\ \A i \in DOMAIN s : s[i].of = c /\ s[i].at = i /\ s[i].value = values[i]
  BY <1>1, <1>2, <1>6, AnswerBytes
<1>10. 2 \in 1..5 /\ 3 \in 1..5 /\ 4 \in 1..5
  OBVIOUS
<1> QED
  BY <1>3, <1>8, <1>9, <1>10, Zenon DEF k, s

LEMMA ThermalSays ==
  ASSUME SerialTyping, NEW c \in 1..Len(a_kind), NEW flag \in {A!FlagOk, A!FlagError}
  PROVE  LET s == A!ThermalFrame(c, flag) IN
         /\ IsRow(s) /\ Len(s) = 9 /\ DOMAIN s = 1..9
         /\ s[2].value = 5 /\ s[5].value = a_kind[c]
         /\ \A i \in DOMAIN s : s[i].of = c /\ s[i].at = i
<1> DEFINE k == a_kind[c]
           body == <<A!DeviceAddress, 1, k, flag, c>>
           sum == A!SumOf(body)
           begin == <<A!FrameBegin, 5>>
           end == <<sum, A!FrameEnd>>
           values == begin \o body \o end
           Value == Nat \cup {sum}
           s == A!ThermalFrame(c, flag)
<1>1. Len(a_kind) \in Nat /\ c \in Nat /\ k \in Nat /\ flag \in Nat
  <2>1. a_kind \in Seq(A!Kind) /\ Len(a_kind) \in Nat /\ DOMAIN a_kind = 1..Len(a_kind)
    BY LenProperties DEF SerialTyping
  <2>2. k \in A!Kind
    BY <2>1
  <2> QED
    BY <2>1, <2>2 DEF A!Kind, A!FlagOk, A!FlagError
<1>2. s = A!Bytes(c, values)
  BY DEF A!ThermalFrame
<1> HIDE DEF k, sum, s
<1>3. body \in Seq(Value) /\ Len(body) = 5 /\ body[3] = k
  BY <1>1 DEF A!DeviceAddress
<1>4. begin \in Seq(Value) /\ Len(begin) = 2 /\ begin[2] = 5
  BY DEF A!FrameBegin
<1>5. end \in Seq(Value) /\ Len(end) = 2
  BY DEF A!FrameEnd
<1> HIDE DEF begin, body, end, Value
<1> DEFINE front == begin \o body
<1>6. front \in Seq(Value)
  BY <1>3, <1>4, ConcatProperties
<1>7. Len(front) = Len(begin) + Len(body)
  BY <1>3, <1>4, ConcatProperties
<1>8. \A i \in 1..(Len(begin) + Len(body)) :
        front[i] = IF i <= Len(begin) THEN begin[i] ELSE body[i - Len(begin)]
  BY <1>3, <1>4, ConcatProperties
<1>9. values = front \o end
  OBVIOUS
<1> HIDE DEF front, values
<1>10. values \in Seq(Value)
  BY <1>5, <1>6, <1>9, ConcatProperties
<1>11. Len(values) = Len(front) + Len(end)
  BY <1>5, <1>6, <1>9, ConcatProperties
<1>12. \A i \in 1..(Len(front) + Len(end)) :
         values[i] = IF i <= Len(front) THEN front[i] ELSE end[i - Len(front)]
  BY <1>5, <1>6, <1>9, ConcatProperties
<1>13. Len(front) = 7 /\ front[2] = 5 /\ front[5] = k
  BY <1>3, <1>4, <1>7, <1>8
<1>14. Len(values) = 9 /\ values[2] = 5 /\ values[5] = k
  BY <1>5, <1>11, <1>12, <1>13
<1>15. /\ IsRow(s) /\ DOMAIN s = 1..Len(values) /\ Len(s) = Len(values)
       /\ \A i \in DOMAIN s : s[i].of = c /\ s[i].at = i /\ s[i].value = values[i]
  BY <1>1, <1>2, <1>10, AnswerBytes
<1>16. 2 \in 1..9 /\ 5 \in 1..9
  OBVIOUS
<1> QED
  BY <1>14, <1>15, <1>16, Zenon DEF k, s

\* What comes of the bytes when one is lost, damaged, read or thrown away, when an answer
\* arrives and when a call is made: the first bytes stay in one place, none comes back.
LEMMA BytesLost ==
  ASSUME NEW rx, NEW wire, NEW asked, NEW calls, BegunOnce(rx, wire, asked, calls),
         NEW k \in Nat, NEW rest,
         \A i \in DOMAIN rest : i \in Nat /\ i + k \in DOMAIN wire /\ rest[i] = wire[i + k]
  PROVE  /\ BegunOnce(rx, rest, asked, calls)
         /\ \A c : Unread(rx, rest, asked, c) => Unread(rx, wire, asked, c)
<1>1. \A c : Begun(rest, c) => Begun(wire, c)
  BY DEF Begun
<1>2. \A i, j \in DOMAIN rest : i + k = j + k => i = j
  OBVIOUS
<1>3. \A i, j \in DOMAIN rest :
        rest[i].at = 1 /\ rest[j].at = 1 /\ rest[i].of = rest[j].of => i = j
  BY <1>2 DEF BegunOnce
<1>4. \A i \in DOMAIN rest : rest[i].of <= calls /\ (rest[i].at = 1 => ~Begun(rx, rest[i].of))
  BY DEF BegunOnce
<1>5. BegunOnce(rx, rest, asked, calls)
  BY <1>1, <1>3, <1>4 DEF BegunOnce
<1> QED
  BY <1>1, <1>5 DEF Unread

LEMMA ByteLost ==
  ASSUME NEW S, NEW rx, NEW wire \in Seq(S), NEW asked,
         NEW calls \in Nat, BegunOnce(rx, wire, asked, calls), wire # <<>>
  PROVE  /\ BegunOnce(rx, Tail(wire), asked, calls) /\ Tail(wire) \in Seq(S)
         /\ \A c : Unread(rx, Tail(wire), asked, c) => Unread(rx, wire, asked, c)
<1> DEFINE n == Len(wire)
           rest == Tail(wire)
<1>1. /\ rest \in Seq(S) /\ n \in Nat /\ n > 0 /\ DOMAIN wire = 1..n
      /\ DOMAIN rest = 1..(n - 1) /\ \A i \in 1..(n - 1) : rest[i] = wire[i + 1]
  BY EmptySeq, LenProperties, HeadTailProperties
<1> HIDE DEF n, rest
<1>2. \A i \in DOMAIN rest : i \in Nat /\ i + 1 \in DOMAIN wire /\ rest[i] = wire[i + 1]
  BY <1>1
<1>3. /\ BegunOnce(rx, rest, asked, calls)
      /\ \A c : Unread(rx, rest, asked, c) => Unread(rx, wire, asked, c)
  BY <1>2, BytesLost
<1> QED
  BY <1>1, <1>3 DEF rest

\* Of what is on the line, the bytes that have arrived are thrown away.
LEMMA ArrivedLost ==
  ASSUME NEW S, NEW rx, NEW wire \in Seq(S), NEW asked, NEW calls \in Nat,
         BegunOnce(rx, wire, asked, calls), NEW k \in 0..Len(wire)
  PROVE  LET rest == SubSeq(wire, k + 1, Len(wire)) IN
         /\ BegunOnce(rx, rest, asked, calls) /\ rest \in Seq(S)
         /\ \A c : Unread(rx, rest, asked, c) => Unread(rx, wire, asked, c)
<1> DEFINE n == Len(wire)
           rest == SubSeq(wire, k + 1, n)
<1>1. n \in Nat /\ DOMAIN wire = 1..n /\ k \in Nat /\ k <= n
  BY LenProperties
<1>2. k + 1 \in 1..(n + 1) /\ n \in k..n
  BY <1>1
<1>3. rest \in Seq(S) /\ Len(rest) = n - k /\ \A i \in 1..(n - k) : rest[i] = wire[k + i]
  <2>1. /\ rest \in Seq(S)
        /\ Len(rest) = IF k + 1 <= n THEN n - (k + 1) + 1 ELSE 0
        /\ \A i \in 1..(n - (k + 1) + 1) : rest[i] = wire[k + 1 + i - 1]
    BY <1>1, <1>2, SubSeqProperties
  <2> HIDE DEF rest, n
  <2>2. n - (k + 1) + 1 = n - k /\ \A i \in 1..(n - k) : k + 1 + i - 1 = k + i
    BY <1>1
  <2>3. \A i \in 1..(n - k) : rest[i] = wire[k + i]
    BY <2>1, <2>2
  <2> QED
    BY <1>1, <2>1, <2>2, <2>3
<1>4. DOMAIN rest = 1..(n - k)
  BY <1>3, LenProperties
<1> HIDE DEF n, rest
<1>5. \A i \in DOMAIN rest : i \in Nat /\ i + k \in DOMAIN wire /\ rest[i] = wire[i + k]
  <2> SUFFICES ASSUME NEW i \in 1..(n - k)
               PROVE  i \in Nat /\ i + k \in DOMAIN wire /\ rest[i] = wire[i + k]
    BY <1>4
  <2>1. i \in Nat /\ i + k \in 1..n /\ k + i = i + k
    BY <1>1
  <2> QED
    BY <1>1, <1>3, <2>1
<1>6. /\ BegunOnce(rx, rest, asked, calls)
      /\ \A c : Unread(rx, rest, asked, c) => Unread(rx, wire, asked, c)
  BY <1>1, <1>5, BytesLost
<1> QED
  BY <1>3, <1>6 DEF rest, n

LEMMA ByteDamaged ==
  ASSUME NEW S, NEW rx, NEW wire \in Seq(S), NEW asked,
         NEW calls \in Nat, BegunOnce(rx, wire, asked, calls),
         NEW byte \in S, byte.of = 0, byte.at = 0
  PROVE  /\ BegunOnce(rx, <<byte>> \o wire, asked, calls)
         /\ <<byte>> \o wire \in Seq(S)
         /\ \A c : Unread(rx, <<byte>> \o wire, asked, c) => Unread(rx, wire, asked, c)
<1> DEFINE n == Len(wire)
           first == <<byte>>
           all == first \o wire
<1>1. first \in Seq(S) /\ Len(first) = 1 /\ first[1] = byte
  OBVIOUS
<1>2. n \in Nat /\ DOMAIN wire = 1..n
  BY LenProperties
<1> HIDE DEF first
<1>3. all \in Seq(S)
  BY <1>1, ConcatProperties
<1>4. Len(all) = Len(first) + Len(wire)
  BY <1>1, ConcatProperties
<1>5. \A i \in 1..(Len(first) + Len(wire)) :
        all[i] = IF i <= Len(first) THEN first[i] ELSE wire[i - Len(first)]
  BY <1>1, ConcatProperties
<1> HIDE DEF n, all
<1>6. DOMAIN all = 1..(n + 1)
  BY <1>1, <1>2, <1>3, <1>4, LenProperties DEF n
<1>7. \A i \in DOMAIN all :
        \/ all[i].at = 0 /\ all[i].of = 0
        \/ i - 1 \in DOMAIN wire /\ all[i] = wire[i - 1]
  <2> SUFFICES ASSUME NEW i \in 1..(n + 1)
               PROVE  \/ all[i].at = 0 /\ all[i].of = 0
                      \/ i - 1 \in DOMAIN wire /\ all[i] = wire[i - 1]
    BY <1>6
  <2>1. i \in 1..(Len(first) + Len(wire)) /\ i \in Nat
    BY <1>1, <1>2 DEF n
  <2>2. all[i] = IF i <= Len(first) THEN first[i] ELSE wire[i - Len(first)]
    BY <1>5, <2>1
  <2>3. CASE i = 1
    BY <1>1, <2>2, <2>3
  <2>4. CASE i # 1
    <3>1. i - 1 \in 1..n /\ ~(i <= 1)
      BY <1>2, <2>1, <2>4
    <3>2. all[i] = wire[i - 1]
      BY <1>1, <2>2, <3>1
    <3> QED
      BY <1>2, <3>1, <3>2
  <2> QED
    BY <2>3, <2>4
<1>8. \A c : Begun(all, c) => Begun(wire, c)
  BY <1>7 DEF Begun
<1>9. BegunOnce(rx, all, asked, calls)
  <2>1. \A i, j \in DOMAIN all :
          all[i].at = 1 /\ all[j].at = 1 /\ all[i].of = all[j].of => i = j
    <3> SUFFICES ASSUME NEW i \in DOMAIN all, NEW j \in DOMAIN all,
                        all[i].at = 1, all[j].at = 1, all[i].of = all[j].of
                 PROVE  i = j
      OBVIOUS
    <3>1. i - 1 \in DOMAIN wire /\ all[i] = wire[i - 1] /\ j - 1 \in DOMAIN wire /\ all[j] = wire[j - 1]
      BY <1>7
    <3>2. i - 1 = j - 1
      BY <3>1 DEF BegunOnce
    <3> QED
      BY <1>2, <1>6, <3>2
  <2>2. \A i \in DOMAIN all : all[i].of <= calls /\ (all[i].at = 1 => ~Begun(rx, all[i].of))
    BY <1>7 DEF BegunOnce
  <2> QED
    BY <1>8, <2>1, <2>2 DEF BegunOnce
<1> QED
  BY <1>3, <1>8, <1>9 DEF Unread, all, first

LEMMA ByteRead ==
  ASSUME NEW S, NEW rx \in Seq(S), NEW wire \in Seq(S), NEW asked \in Seq(Nat),
         NEW calls \in Nat, BegunOnce(rx, wire, asked, calls), wire # <<>>
  PROVE  /\ BegunOnce(Append(rx, Head(wire)), Tail(wire), asked, calls)
         /\ Append(rx, Head(wire)) \in Seq(S)
         /\ \A c : Unread(Append(rx, Head(wire)), Tail(wire), asked, c) => Unread(rx, wire, asked, c)
         /\ \A c : Begun(Append(rx, Head(wire)), c) => Begun(rx, c) \/ Begun(wire, c)
<1> DEFINE n == Len(wire)
           m == Len(rx)
           rest == Tail(wire)
           first == Head(wire)
           bytes == Append(rx, first)
<1>1. /\ rest \in Seq(S) /\ n \in Nat /\ n > 0 /\ DOMAIN wire = 1..n
      /\ DOMAIN rest = 1..(n - 1) /\ \A i \in 1..(n - 1) : rest[i] = wire[i + 1]
      /\ first = wire[1] /\ first \in S
  BY EmptySeq, LenProperties, HeadTailProperties
<1>2. m \in Nat /\ DOMAIN rx = 1..m
  BY LenProperties
<1> HIDE DEF n, rest, first
<1>3. bytes \in Seq(S) /\ Len(bytes) = Len(rx) + 1
  BY <1>1, AppendProperties
<1>4. \A i \in 1..Len(rx) : bytes[i] = rx[i]
  BY <1>1, AppendProperties
<1>5. bytes[Len(rx) + 1] = first
  BY <1>1, AppendProperties
<1>6. DOMAIN bytes = 1..(m + 1)
  BY <1>2, <1>3, LenProperties
<1> HIDE DEF m, bytes
<1>7. \A i \in DOMAIN bytes : bytes[i] = wire[1] \/ (i \in DOMAIN rx /\ bytes[i] = rx[i])
  <2> SUFFICES ASSUME NEW i \in 1..(m + 1)
               PROVE  bytes[i] = wire[1] \/ (i \in DOMAIN rx /\ bytes[i] = rx[i])
    BY <1>6
  <2>3. bytes[m + 1] = first
    BY <1>5 DEF m
  <2>1. CASE i = m + 1
    BY <1>1, <2>3, <2>1
  <2>2. CASE i \in 1..m
    BY <1>2, <1>4, <2>2 DEF m
  <2> QED
    BY <1>2, <2>1, <2>2
<1>8. \A i \in DOMAIN rest : i + 1 \in DOMAIN wire /\ i + 1 # 1 /\ rest[i] = wire[i + 1]
  BY <1>1
<1>9. \A i, j \in DOMAIN rest : i + 1 = j + 1 => i = j
  BY <1>1
<1>10. 1 \in DOMAIN wire
  BY <1>1
<1>11. \A c : Begun(bytes, c) => Begun(rx, c) \/ (wire[1].of = c /\ wire[1].at = 1)
  <2> SUFFICES ASSUME NEW c, Begun(bytes, c)
               PROVE  Begun(rx, c) \/ (wire[1].of = c /\ wire[1].at = 1)
    OBVIOUS
  <2>1. PICK i \in DOMAIN bytes : bytes[i].of = c /\ bytes[i].at = 1
    BY DEF Begun
  <2>2. CASE bytes[i] = wire[1]
    BY <2>1, <2>2
  <2>3. CASE i \in DOMAIN rx /\ bytes[i] = rx[i]
    BY <2>1, <2>3 DEF Begun
  <2> QED
    BY <1>7, <2>2, <2>3
<1>12. \A c : Begun(rest, c) => Begun(wire, c)
  BY <1>8 DEF Begun
<1>13. \A c : wire[1].of = c /\ wire[1].at = 1 => Begun(wire, c)
  BY <1>10 DEF Begun
<1>14. BegunOnce(bytes, rest, asked, calls)
  <2>1. \A i, j \in DOMAIN rest :
          rest[i].at = 1 /\ rest[j].at = 1 /\ rest[i].of = rest[j].of => i = j
    BY <1>8, <1>9 DEF BegunOnce
  <2>2. \A i \in DOMAIN rest : rest[i].of <= calls /\ (rest[i].at = 1 => ~Begun(rx, rest[i].of))
    BY <1>8 DEF BegunOnce
  <2>3. \A i \in DOMAIN rest : rest[i].at = 1 => ~(wire[1].of = rest[i].of /\ wire[1].at = 1)
    BY <1>8, <1>10 DEF BegunOnce
  <2>4. \A i \in DOMAIN rest : rest[i].at = 1 => ~Begun(bytes, rest[i].of)
    BY <1>11, <2>2, <2>3
  <2>5. \A i \in DOMAIN bytes : bytes[i].of <= calls
    BY <1>7, <1>10 DEF BegunOnce
  <2>6. \A i \in DOMAIN asked : ~Begun(bytes, asked[i]) /\ ~Begun(rest, asked[i])
    BY <1>11, <1>12, <1>13 DEF BegunOnce
  <2> QED
    BY <2>1, <2>2, <2>4, <2>5, <2>6 DEF BegunOnce
<1>15. \A c : Begun(bytes, c) => Begun(rx, c) \/ Begun(wire, c)
  BY <1>11, <1>13
<1> QED
  BY <1>3, <1>12, <1>14, <1>15 DEF Unread, bytes, rest, first

LEMMA BytesForgotten ==
  ASSUME NEW rx, NEW wire, NEW asked, NEW calls, BegunOnce(rx, wire, asked, calls)
  PROVE  /\ BegunOnce(<<>>, wire, asked, calls)
         /\ \A c : Unread(<<>>, wire, asked, c) => Unread(rx, wire, asked, c)
<1>1. \A c : ~Begun(<<>>, c)
  BY DEF Begun
<1> QED
  BY <1>1 DEF BegunOnce, Unread

LEMMA AnswerArrives ==
  ASSUME NEW S, NEW rx \in Seq(S), NEW wire \in Seq(S), NEW asked \in Seq(Nat),
         NEW calls \in Nat, BegunOnce(rx, wire, asked, calls), asked # <<>>,
         NEW frame \in Seq(S),
         \A i \in DOMAIN frame : frame[i].of = Head(asked) /\ frame[i].at = i
  PROVE  /\ BegunOnce(rx, wire \o frame, Tail(asked), calls)
         /\ wire \o frame \in Seq(S) /\ Tail(asked) \in Seq(Nat)
         /\ \A c : Unread(rx, wire \o frame, Tail(asked), c) => Unread(rx, wire, asked, c)
<1> DEFINE n == Len(asked)
           m == Len(wire)
           l == Len(frame)
           rest == Tail(asked)
           first == Head(asked)
           all == wire \o frame
<1>1. /\ rest \in Seq(Nat) /\ n \in Nat /\ n > 0 /\ DOMAIN asked = 1..n
      /\ DOMAIN rest = 1..(n - 1) /\ \A i \in 1..(n - 1) : rest[i] = asked[i + 1]
      /\ first = asked[1] /\ first \in Nat
  BY EmptySeq, LenProperties, HeadTailProperties
<1>2. m \in Nat /\ DOMAIN wire = 1..m /\ l \in Nat /\ DOMAIN frame = 1..l
  BY LenProperties
<1>3. all \in Seq(S)
  BY ConcatProperties
<1>4. Len(all) = Len(wire) + Len(frame)
  BY ConcatProperties
<1>5. \A i \in 1..(Len(wire) + Len(frame)) :
        all[i] = IF i <= Len(wire) THEN wire[i] ELSE frame[i - Len(wire)]
  BY ConcatProperties
<1> HIDE DEF all
<1>6. DOMAIN all = 1..(m + l)
  BY <1>3, <1>4, LenProperties
<1> HIDE DEF n, m, l, rest, first
<1>7. \A i \in DOMAIN all :
        \/ i \in DOMAIN wire /\ all[i] = wire[i]
        \/ i \notin DOMAIN wire /\ i - m \in DOMAIN frame /\ all[i] = frame[i - m]
  BY <1>2, <1>5, <1>6 DEF m, l
<1>8. \A i \in DOMAIN all :
        \/ i \in DOMAIN wire /\ all[i] = wire[i]
        \/ all[i].of = first /\ all[i].at = i - m
  BY <1>7 DEF first
<1>9. 1 \in DOMAIN asked /\ first = asked[1]
  BY <1>1
<1>10. first \in 1..calls /\ ~Begun(rx, first) /\ ~Begun(wire, first)
  BY <1>9 DEF BegunOnce
<1>11. \A i \in DOMAIN rest : i + 1 \in DOMAIN asked /\ i + 1 # 1 /\ rest[i] = asked[i + 1]
  <2>1. \A i \in 1..(n - 1) : i + 1 \in 1..n /\ i + 1 # 1
    BY <1>1
  <2> QED
    BY <1>1, <2>1, Zenon
<1>12. \A i, j \in DOMAIN rest : i + 1 = j + 1 => i = j
  <2>1. \A i, j \in 1..(n - 1) : i + 1 = j + 1 => i = j
    BY <1>1
  <2> QED
    BY <1>1, <2>1
<1>13. \A i \in DOMAIN rest : rest[i] # first
  BY <1>9, <1>11 DEF BegunOnce
<1>14. \A c : Begun(all, c) => Begun(wire, c) \/ c = first
  BY <1>8 DEF Begun
<1>15. \A c : Unread(rx, all, rest, c) => Unread(rx, wire, asked, c)
  BY <1>9, <1>11, <1>14 DEF Unread
<1>16. BegunOnce(rx, all, rest, calls)
  <2>1. \A i, j \in DOMAIN rest : rest[i] = rest[j] => i = j
    BY <1>11, <1>12 DEF BegunOnce
  <2>2. \A i \in DOMAIN rest : rest[i] \in 1..calls /\ ~Begun(rx, rest[i]) /\ ~Begun(all, rest[i])
    BY <1>11, <1>13, <1>14 DEF BegunOnce
  <2>3. \A i, j \in DOMAIN all :
          all[i].at = 1 /\ all[j].at = 1 /\ all[i].of = all[j].of => i = j
    <3> SUFFICES ASSUME NEW i \in DOMAIN all, NEW j \in DOMAIN all,
                        all[i].at = 1, all[j].at = 1, all[i].of = all[j].of
                 PROVE  i = j
      OBVIOUS
    <3>0. i \in Nat /\ j \in Nat
      BY <1>6
    <3>1. CASE i \in DOMAIN wire /\ all[i] = wire[i] /\ j \in DOMAIN wire /\ all[j] = wire[j]
      BY <3>1 DEF BegunOnce
    <3>2. CASE i \in DOMAIN wire /\ all[i] = wire[i] /\ all[j].of = first
      BY <1>10, <3>2 DEF Begun
    <3>3. CASE j \in DOMAIN wire /\ all[j] = wire[j] /\ all[i].of = first
      BY <1>10, <3>3 DEF Begun
    <3>4. CASE all[i].at = i - m /\ all[j].at = j - m
      BY <1>2, <3>0, <3>4
    <3> QED
      BY <1>8, <3>1, <3>2, <3>3, <3>4
  <2>4. \A i \in DOMAIN all : all[i].of <= calls /\ (all[i].at = 1 => ~Begun(rx, all[i].of))
    <3> SUFFICES ASSUME NEW i \in DOMAIN all
                 PROVE  all[i].of <= calls /\ (all[i].at = 1 => ~Begun(rx, all[i].of))
      OBVIOUS
    <3>1. CASE i \in DOMAIN wire /\ all[i] = wire[i]
      BY <3>1 DEF BegunOnce
    <3>2. CASE all[i].of = first
      BY <1>10, <3>2
    <3> QED
      BY <1>8, <3>1, <3>2
  <2> QED
    BY <2>1, <2>2, <2>3, <2>4 DEF BegunOnce
<1> QED
  BY <1>1, <1>3, <1>15, <1>16 DEF all, rest

LEMMA CallMade ==
  ASSUME NEW S, OfCalls(S), NEW rx \in Seq(S), NEW wire \in Seq(S), NEW asked \in Seq(Nat),
         NEW calls \in Nat, BegunOnce(rx, wire, asked, calls)
  PROVE  /\ BegunOnce(rx, wire, Append(asked, calls + 1), calls + 1)
         /\ Append(asked, calls + 1) \in Seq(Nat)
         /\ \A c \in 1..calls :
              Unread(rx, wire, Append(asked, calls + 1), c) => Unread(rx, wire, asked, c)
<1> DEFINE n == Len(asked)
           call == calls + 1
           all == Append(asked, call)
<1>1. call \in Nat /\ call > calls /\ calls <= call /\ call \in 1..call
  OBVIOUS
<1>2. n \in Nat /\ DOMAIN asked = 1..n
  BY LenProperties
<1> HIDE DEF call
<1>3. all \in Seq(Nat) /\ Len(all) = Len(asked) + 1
  BY <1>1, AppendProperties
<1>4. \A i \in 1..Len(asked) : all[i] = asked[i]
  BY <1>1, AppendProperties
<1>5. all[Len(asked) + 1] = call
  BY <1>1, AppendProperties
<1>6. DOMAIN all = 1..(n + 1)
  BY <1>2, <1>3, LenProperties
<1> HIDE DEF n, all
<1>7. \A i \in DOMAIN all :
        \/ i = n + 1 /\ all[i] = call
        \/ i \in DOMAIN asked /\ all[i] = asked[i]
  <2> SUFFICES ASSUME NEW i \in 1..(n + 1)
               PROVE  \/ i = n + 1 /\ all[i] = call
                      \/ i \in DOMAIN asked /\ all[i] = asked[i]
    BY <1>6
  <2>3. all[n + 1] = call
    BY <1>5 DEF n
  <2>1. CASE i = n + 1
    BY <2>1, <2>3
  <2>2. CASE i \in 1..n
    BY <1>2, <1>4, <2>2 DEF n
  <2> QED
    BY <1>2, <2>1, <2>2
<1>8. \A i \in DOMAIN asked : asked[i] # call /\ asked[i] \in 1..call
  BY <1>1 DEF BegunOnce
<1>9. ~Begun(rx, call) /\ ~Begun(wire, call)
  <2>1. \A i \in DOMAIN rx : rx[i].of # call
    BY <1>1, LenProperties DEF BegunOnce, OfCalls
  <2>2. \A i \in DOMAIN wire : wire[i].of # call
    BY <1>1, LenProperties DEF BegunOnce, OfCalls
  <2> QED
    BY <2>1, <2>2 DEF Begun
<1>10. BegunOnce(rx, wire, all, call)
  <2>1. \A i, j \in DOMAIN all : all[i] = all[j] => i = j
    BY <1>7, <1>8 DEF BegunOnce
  <2>2. \A i \in DOMAIN all : all[i] \in 1..call /\ ~Begun(rx, all[i]) /\ ~Begun(wire, all[i])
    BY <1>1, <1>7, <1>8, <1>9 DEF BegunOnce
  <2>3. \A i \in DOMAIN rx : rx[i] \in S
    BY LenProperties
  <2>4. \A i \in DOMAIN wire : wire[i] \in S
    BY LenProperties
  <2>5. \A k \in Nat : k <= calls => k <= call
    BY <1>1
  <2>6. \A i \in DOMAIN rx : rx[i].of <= call
    BY <2>3, <2>5 DEF BegunOnce, OfCalls
  <2>7. \A i \in DOMAIN wire : wire[i].of <= call
    BY <2>4, <2>5 DEF BegunOnce, OfCalls
  <2> QED
    BY <2>1, <2>2, <2>6, <2>7 DEF BegunOnce
<1>11. \A c \in 1..calls : c # call
  BY <1>1
<1>12. \A c \in 1..calls : Unread(rx, wire, all, c) => Unread(rx, wire, asked, c)
  BY <1>7, <1>11 DEF Unread
<1> QED
  BY <1>3, <1>10, <1>12 DEF all, call

\* What a step leaves of the excuses and of the answer that was taken last.
LEMMA ExcusesStay ==
  ASSUME NEW rx, NEW wire, NEW asked, NEW calls, NEW waiting, NEW excuses,
         LateIsExcused(rx, wire, asked, calls, waiting, excuses),
         NEW rx1, NEW wire1, NEW asked1, NEW excuses1, excuses \subseteq excuses1,
         \A c : Unread(rx1, wire1, asked1, c) => Unread(rx, wire, asked, c)
  PROVE  LateIsExcused(rx1, wire1, asked1, calls, waiting, excuses1)
BY DEF LateIsExcused

LEMMA AnswerStays ==
  ASSUME SerialTyping, A!AnswerIsOwn, UNCHANGED <<a_device, a_result, a_failed, a_fooled>>,
         \A c \in 1..Len(a_kind) : a_kind'[c] = a_kind[c] /\ a_setting'[c] = a_setting[c]
  PROVE  A!AnswerIsOwn'
<1> SUFFICES ASSUME a_result.status = "ok", a_result.call \notin a_fooled \cup {A!None}
             PROVE  /\ a_result.answer \in 1..a_result.call
                    /\ a_kind'[a_result.answer] = a_kind'[a_result.call]
                    /\ a_setting'[a_result.answer] = a_setting'[a_result.call]
                    /\ a_result.answer # a_result.call =>
                         \E f \in a_failed \cup a_fooled :
                           f <= a_result.answer /\ a_result.answer < a_result.call
  BY DEF A!AnswerIsOwn
<1>1. Len(a_kind) \in Nat /\ a_result.call \in 1..Len(a_kind)
  BY LenProperties DEF SerialTyping, A!None
<1>2. a_result.answer \in 1..a_result.call
  BY DEF A!AnswerIsOwn
<1>3. a_result.answer \in 1..Len(a_kind)
  BY <1>1, <1>2
<1> QED
  BY <1>1, <1>2, <1>3 DEF A!AnswerIsOwn

\* A step of the line, or of the frame being read, that returns no call.
LEMMA SerialGoesOn ==
  ASSUME SerialInv,
         UNCHANGED <<a_device, a_kind, a_setting, a_waiting, a_result, a_failed, a_fooled>>,
         IsRow(a_rx'), IsRow(a_wire'), a_to_device' \in Seq(Nat),
         BegunOnce(a_rx', a_wire', a_to_device', Len(a_kind)),
         \A c : Unread(a_rx', a_wire', a_to_device', c) => Unread(a_rx, a_wire, a_to_device, c)
  PROVE  SerialInv'
<1>1. SerialTyping'
  BY DEF SerialInv, SerialTyping, A!IsSetting
<1>2. BegunOnce(a_rx, a_wire, a_to_device, Len(a_kind))'
  <2>1. a_kind' = a_kind
    OBVIOUS
  <2> QED
    BY <2>1
<1>3. LateIsExcused(a_rx', a_wire', a_to_device', Len(a_kind), a_waiting, a_failed \cup a_fooled)
  BY ExcusesStay DEF SerialInv
<1>4. A!AnswerIsOwn'
  BY AnswerStays DEF SerialInv
<1> QED
  BY <1>1, <1>2, <1>3, <1>4 DEF SerialInv

\* A call that returns an error excuses what it leaves behind.
LEMMA SerialFails ==
  ASSUME SerialInv, UNCHANGED <<a_device, a_kind, a_setting, a_to_device>>,
         NEW status, status # "ok", NEW bytes, A!Return(status, bytes),
         IsRow(a_rx'), IsRow(a_wire'),
         BegunOnce(a_rx', a_wire', a_to_device, Len(a_kind)),
         \A c : Unread(a_rx', a_wire', a_to_device, c) => Unread(a_rx, a_wire, a_to_device, c)
  PROVE  SerialInv'
<1> DEFINE n == Len(a_kind)
<1>1. /\ a_waiting' = FALSE /\ a_fooled' = a_fooled /\ a_failed' = a_failed \cup {n}
      /\ a_result' = [call |-> n, status |-> status, answer |-> A!None]
  BY DEF A!Return, A!Current
<1>2. n \in Nat
  BY LenProperties DEF SerialInv, SerialTyping
<1>3. SerialTyping'
  <2>1. (a_result.call)' \in 0..n
    BY <1>1, <1>2
  <2>2. a_failed' \in SUBSET Nat /\ a_fooled' \in SUBSET Nat /\ a_waiting' \in BOOLEAN
    BY <1>1, <1>2 DEF SerialInv, SerialTyping
  <2> QED
    BY <2>1, <2>2 DEF SerialInv, SerialTyping, A!IsSetting
<1>4. BegunOnce(a_rx, a_wire, a_to_device, Len(a_kind))'
  <2>1. a_kind' = a_kind /\ a_to_device' = a_to_device
    OBVIOUS
  <2> QED
    BY <2>1
<1>5. LateIsExcused(a_rx', a_wire', a_to_device', n, FALSE, a_failed' \cup a_fooled')
  <2> SUFFICES ASSUME NEW c \in 1..n, Unread(a_rx', a_wire', a_to_device, c)
               PROVE  \E f \in a_failed' \cup a_fooled' : f <= c
    BY DEF LateIsExcused
  <2>1. CASE c = n
    BY <1>1, <1>2, <2>1
  <2>2. CASE c < n
    BY <1>1, <2>2 DEF SerialInv, LateIsExcused
  <2> QED
    BY <1>2, <2>1, <2>2
<1>6. A!AnswerIsOwn'
  BY <1>1 DEF A!AnswerIsOwn
<1> QED
  BY <1>1, <1>3, <1>4, <1>5, <1>6 DEF SerialInv

\* A call that takes what it has read for its answer. When that is an answer, the first byte
\* of it has left the line, and it is the call's own, or was given up before.
LEMMA SerialTakes ==
  ASSUME SerialInv, A!ReadByte, a_rx # <<>>, a_rx' = <<>>,
         A!Return("ok", Append(a_rx, Head(a_wire))),
         \A c \in 1..Len(a_kind) :
           Append(a_rx, Head(a_wire)) \in {A!LaserFrame(c), A!ThermalFrame(c, A!FlagOk)} =>
             a_kind[c] = a_kind[Len(a_kind)] /\ a_setting[c] = a_setting[Len(a_kind)]
  PROVE  SerialInv'
<1> DEFINE n == Len(a_kind)
           bytes == Append(a_rx, Head(a_wire))
           rest == Tail(a_wire)
           given == a_failed \cup a_fooled
<1>1. /\ a_waiting' = FALSE /\ a_failed' = a_failed
      /\ a_fooled' = IF A!IsAnswer(bytes) THEN a_fooled ELSE a_fooled \cup {n}
      /\ a_result' = [call |-> n, status |-> "ok", answer |-> bytes[1].of]
  BY DEF A!Return, A!Current
<1>2. /\ a_waiting = TRUE /\ a_wire # <<>> /\ a_wire' = rest
      /\ UNCHANGED <<a_device, a_kind, a_setting, a_to_device>>
  BY DEF A!ReadByte, SerialInv, SerialTyping
<1>3. PICK S : OfCalls(S) /\ a_rx \in Seq(S) /\ a_wire \in Seq(S)
  BY RowsShare DEF SerialInv, SerialTyping
<1>4. /\ a_rx \in Seq(S) /\ a_wire \in Seq(S) /\ a_to_device \in Seq(Nat)
      /\ n \in Nat
  BY <1>3, LenProperties DEF SerialInv, SerialTyping
<1>5. BegunOnce(a_rx, a_wire, a_to_device, n)
  BY DEF SerialInv
<1>6. /\ BegunOnce(a_rx, rest, a_to_device, n) /\ rest \in Seq(S)
      /\ \A c : Unread(a_rx, rest, a_to_device, c) => Unread(a_rx, a_wire, a_to_device, c)
  BY <1>2, <1>4, <1>5, ByteLost
<1>7. /\ BegunOnce(<<>>, rest, a_to_device, n)
      /\ \A c : Unread(<<>>, rest, a_to_device, c) => Unread(a_rx, rest, a_to_device, c)
  BY <1>6, BytesForgotten
<1>8. SerialTyping'
  <2>1. IsRow(a_rx') /\ IsRow(a_wire')
    BY <1>2, <1>3, <1>6, EmptyIsRow DEF IsRow
  <2>2. a_fooled' \in SUBSET Nat /\ a_failed' \in SUBSET Nat
    BY <1>1, <1>4 DEF SerialInv, SerialTyping
  <2>3. (a_result.call)' \in 0..n
    BY <1>1, <1>4
  <2> QED
    BY <1>1, <1>2, <2>1, <2>2, <2>3 DEF SerialInv, SerialTyping, A!IsSetting
<1>9. BegunOnce(a_rx, a_wire, a_to_device, Len(a_kind))'
  BY <1>2, <1>7
<1>10. given \subseteq a_failed' \cup a_fooled' /\ given \subseteq Nat
  BY <1>1 DEF SerialInv, SerialTyping
<1>11. ASSUME NEW c \in 1..n, c < n, Unread(a_rx, a_wire, a_to_device, c)
       PROVE  \E f \in given : f <= c
  BY <1>11 DEF SerialInv, LateIsExcused
<1>12. CASE ~A!IsAnswer(bytes)
  <2>1. n \in a_fooled'
    BY <1>1, <1>12
  <2>2. LateIsExcused(<<>>, rest, a_to_device, n, FALSE, a_failed' \cup a_fooled')
    <3> SUFFICES ASSUME NEW c \in 1..n, Unread(<<>>, rest, a_to_device, c)
                 PROVE  \E f \in a_failed' \cup a_fooled' : f <= c
      BY DEF LateIsExcused
    <3>1. CASE c = n
      BY <1>4, <2>1, <3>1
    <3>2. CASE c < n
      BY <1>6, <1>7, <1>10, <1>11, <3>2
    <3> QED
      BY <1>4, <3>1, <3>2
  <2>3. A!AnswerIsOwn'
    BY <1>1, <2>1 DEF A!AnswerIsOwn
  <2> QED
    BY <1>1, <1>2, <1>8, <1>9, <2>2, <2>3 DEF SerialInv
<1>13. CASE A!IsAnswer(bytes)
  <2>1. PICK c \in 1..n : bytes \in {A!LaserFrame(c), A!ThermalFrame(c, A!FlagOk)}
    BY <1>13 DEF A!IsAnswer, A!Current
  <2>2. a_kind[c] = a_kind[n] /\ a_setting[c] = a_setting[n]
    BY <2>1
  <2>3. Begun(a_rx, c) /\ bytes[1].of = c
    <3>1. 1 \in DOMAIN bytes /\ bytes[1].of = c /\ bytes[1].at = 1
      <4>1. SerialTyping /\ A!FlagOk \in {A!FlagOk, A!FlagError}
        BY DEF SerialInv
      <4>2. CASE bytes = A!LaserFrame(c)
        <5>1. /\ DOMAIN A!LaserFrame(c) = 1..5
              /\ \A i \in DOMAIN A!LaserFrame(c) :
                   A!LaserFrame(c)[i].of = c /\ A!LaserFrame(c)[i].at = i
          BY <4>1, LaserSays
        <5> HIDE DEF bytes
        <5> QED
          BY <4>2, <5>1
      <4>3. CASE bytes = A!ThermalFrame(c, A!FlagOk)
        <5> DEFINE s == A!ThermalFrame(c, A!FlagOk)
        <5>1. DOMAIN s = 1..9 /\ \A i \in DOMAIN s : s[i].of = c /\ s[i].at = i
          BY <4>1, ThermalSays
        <5> HIDE DEF bytes
        <5> QED
          BY <4>3, <5>1
      <4> QED
        BY <2>1, <4>2, <4>3
    <3>2. Len(a_rx) \in Nat /\ DOMAIN a_rx = 1..Len(a_rx) /\ Len(a_rx) # 0
      BY <1>4, LenProperties, EmptySeq
    <3>3. Head(a_wire) \in S
      BY <1>2, <1>4, HeadTailProperties
    <3>4. \A i \in 1..Len(a_rx) : bytes[i] = a_rx[i]
      BY <1>4, <3>3, AppendProperties
    <3>5. 1 \in DOMAIN a_rx /\ 1 \in 1..Len(a_rx)
      BY <3>2
    <3>6. bytes[1] = a_rx[1]
      BY <3>4, <3>5
    <3> HIDE DEF bytes
    <3> QED
      BY <3>1, <3>5, <3>6 DEF Begun
  <2>4. ~Unread(<<>>, rest, a_to_device, c)
    <3>1. \A i \in DOMAIN a_to_device : a_to_device[i] # c
      BY <1>5, <2>3 DEF BegunOnce
    <3>2. ~Begun(rest, c)
      BY <1>6, <2>3 DEF BegunOnce, Begun
    <3> QED
      BY <3>1, <3>2 DEF Unread, Begun
  <2>5. c # n => \E f \in given : f <= c
    <3>1. Unread(a_rx, a_wire, a_to_device, c)
      BY <2>3 DEF Unread
    <3>2. c \in Nat /\ (c # n => c < n)
      BY <1>4
    <3> QED
      BY <1>11, <3>1, <3>2
  <2>6. a_fooled' = a_fooled
    BY <1>1, <1>13
  <2>7. LateIsExcused(<<>>, rest, a_to_device, n, FALSE, given)
    <3> SUFFICES ASSUME NEW d \in 1..n, Unread(<<>>, rest, a_to_device, d)
                 PROVE  \E f \in given : f <= d
      BY DEF LateIsExcused
    <3>1. CASE d = n
      <4>1. c # n
        BY <2>4, <3>1
      <4>2. PICK f \in given : f <= c
        BY <2>5, <4>1
      <4>3. f <= d
        BY <1>4, <1>10, <3>1, <4>2
      <4> QED
        BY <4>3
    <3>2. CASE d < n
      BY <1>6, <1>7, <1>11, <3>2
    <3> QED
      BY <1>4, <3>1, <3>2
  <2>8. A!AnswerIsOwn'
    <3>1. c \in 1..n /\ (c # n => c < n)
      BY <1>4
    <3>2. /\ (a_result.answer)' = c /\ (a_result.call)' = n
          /\ a_failed' \cup a_fooled' = given /\ a_kind' = a_kind /\ a_setting' = a_setting
      BY <1>1, <1>2, <2>3, <2>6
    <3> HIDE DEF given, n
    <3>3. (a_result.answer)' # (a_result.call)' =>
            \E f \in a_failed' \cup a_fooled' :
              f <= (a_result.answer)' /\ (a_result.answer)' < (a_result.call)'
      BY <2>5, <3>1, <3>2
    <3> QED
      BY <2>2, <3>1, <3>2, <3>3 DEF A!AnswerIsOwn
  <2> QED
    BY <1>1, <1>2, <1>8, <1>9, <2>6, <2>7, <2>8 DEF SerialInv
<1> QED
  BY <1>12, <1>13

\* What has been read is as long as the frame, and says what the frame says.
LEMMA SaysIt ==
  ASSUME NEW bytes, IsRow(bytes), NEW i \in 1..Len(bytes)
  PROVE  A!Values(bytes)[i] = bytes[i].value /\ Len(A!Values(bytes)) = Len(bytes)
<1>1. DOMAIN bytes = 1..Len(bytes) /\ Len(bytes) \in Nat
  BY LenProperties DEF IsRow
<1>2. A!Values(bytes) = [j \in 1..Len(bytes) |-> bytes[j].value]
  BY <1>1 DEF A!Values
<1> QED
  BY <1>1, <1>2

\* A call that takes an answer takes one to a call of its kind, and for the same setting.
LEMMA LaserTakesOwn ==
  ASSUME SerialInv, NEW bytes, IsRow(bytes), Len(a_kind) \in 1..Len(a_kind),
         A!Values(bytes)[2] = a_kind[Len(a_kind)], a_kind[Len(a_kind)] \in A!Kind,
         A!IsSetting(a_kind[Len(a_kind)]) => A!Values(bytes)[4] = a_setting[Len(a_kind)],
         NEW c \in 1..Len(a_kind), bytes \in {A!LaserFrame(c), A!ThermalFrame(c, A!FlagOk)}
  PROVE  a_kind[c] = a_kind[Len(a_kind)] /\ a_setting[c] = a_setting[Len(a_kind)]
<1>1. SerialTyping /\ A!FlagOk \in {A!FlagOk, A!FlagError}
  BY DEF SerialInv
<1>2. bytes = A!LaserFrame(c)
  <2> SUFFICES ASSUME bytes = A!ThermalFrame(c, A!FlagOk) PROVE FALSE
    OBVIOUS
  <2>1. Len(bytes) = 9 /\ bytes[2].value = 5
    BY <1>1, ThermalSays
  <2>2. 2 \in 1..Len(bytes)
    BY <2>1
  <2>3. a_kind[Len(a_kind)] = 5
    BY <2>1, <2>2, SaysIt
  <2> QED
    BY <2>3 DEF A!Kind
<1>3. /\ Len(bytes) = 5 /\ bytes[2].value = a_kind[c]
      /\ A!IsSetting(a_kind[c]) => bytes[4].value = a_setting[c]
  BY <1>1, <1>2, LaserSays
<1>4. 2 \in 1..Len(bytes) /\ 4 \in 1..Len(bytes)
  BY <1>3
<1>5. A!Values(bytes)[2] = a_kind[c] /\ A!Values(bytes)[4] = bytes[4].value
  BY <1>3, <1>4, SaysIt
<1>6. a_kind[c] = a_kind[Len(a_kind)]
  BY <1>5
<1>7. CASE A!IsSetting(a_kind[c])
  BY <1>3, <1>5, <1>6, <1>7
<1>8. CASE ~A!IsSetting(a_kind[c])
  BY <1>1, <1>6, <1>8 DEF SerialTyping
<1> QED
  BY <1>6, <1>7, <1>8

LEMMA ThermalTakesOwn ==
  ASSUME SerialInv, a_device = "thermal", NEW bytes, IsRow(bytes), A!Expected(A!Values(bytes)),
         NEW c \in 1..Len(a_kind), bytes \in {A!LaserFrame(c), A!ThermalFrame(c, A!FlagOk)}
  PROVE  a_kind[c] = a_kind[Len(a_kind)] /\ a_setting[c] = a_setting[Len(a_kind)]
<1>1. SerialTyping /\ A!FlagOk \in {A!FlagOk, A!FlagError}
  BY DEF SerialInv
<1>2. A!Values(bytes)[3] = 54 /\ A!Values(bytes)[5] = a_kind[Len(a_kind)]
  BY DEF A!Expected, A!DeviceAddress, A!Current
<1>3. bytes = A!ThermalFrame(c, A!FlagOk)
  <2> SUFFICES ASSUME bytes = A!LaserFrame(c) PROVE FALSE
    OBVIOUS
  <2>1. Len(bytes) = 5 /\ bytes[3].value = 1
    BY <1>1, LaserSays
  <2>2. 3 \in 1..Len(bytes)
    BY <2>1
  <2>3. A!Values(bytes)[3] = bytes[3].value
    BY <2>2, SaysIt
  <2> QED
    BY <1>2, <2>1, <2>3
<1>4. Len(bytes) = 9 /\ bytes[5].value = a_kind[c]
  BY <1>1, <1>3, ThermalSays
<1>5. 5 \in 1..Len(bytes)
  BY <1>4
<1>6. a_kind[c] = a_kind[Len(a_kind)]
  BY <1>2, <1>4, <1>5, SaysIt
<1>7. Len(a_kind) \in Nat
  BY <1>1, LenProperties DEF SerialTyping
<1>8. \A d \in 1..Len(a_kind) : a_setting[d] = 0
  BY <1>1 DEF SerialTyping, A!IsSetting
<1> QED
  BY <1>6, <1>7, <1>8

\* Bytes that are read, and kept or thrown away.
LEMMA SerialBytes ==
  ASSUME SerialInv, A!ReadByte, a_rx' \in {<<>>, Append(a_rx, Head(a_wire))}
  PROVE  /\ IsRow(a_rx') /\ IsRow(a_wire')
         /\ IsRow(Append(a_rx, Head(a_wire)))
         /\ BegunOnce(a_rx', a_wire', a_to_device, Len(a_kind))
         /\ \A c : Unread(a_rx', a_wire', a_to_device, c) => Unread(a_rx, a_wire, a_to_device, c)
<1> DEFINE bytes == Append(a_rx, Head(a_wire))
           rest == Tail(a_wire)
<1>1. a_wire # <<>> /\ a_wire' = rest
  BY DEF A!ReadByte
<1>2. PICK S : OfCalls(S) /\ a_rx \in Seq(S) /\ a_wire \in Seq(S)
  BY RowsShare DEF SerialInv, SerialTyping
<1>3. /\ a_to_device \in Seq(Nat) /\ Len(a_kind) \in Nat
      /\ BegunOnce(a_rx, a_wire, a_to_device, Len(a_kind))
  BY LenProperties DEF SerialInv, SerialTyping
<1>4. /\ BegunOnce(bytes, rest, a_to_device, Len(a_kind)) /\ bytes \in Seq(S)
      /\ \A c : Unread(bytes, rest, a_to_device, c) => Unread(a_rx, a_wire, a_to_device, c)
  BY <1>1, <1>2, <1>3, ByteRead
<1>5. rest \in Seq(S)
  BY <1>1, <1>2, <1>3, ByteLost
<1>6. /\ BegunOnce(<<>>, rest, a_to_device, Len(a_kind))
      /\ \A c : Unread(<<>>, rest, a_to_device, c) => Unread(bytes, rest, a_to_device, c)
  BY <1>4, BytesForgotten
<1>7. IsRow(bytes) /\ IsRow(rest)
  BY <1>2, <1>4, <1>5 DEF IsRow
<1>8. CASE a_rx' = <<>>
  BY <1>1, <1>4, <1>6, <1>7, <1>8, EmptyIsRow
<1>9. CASE a_rx' = bytes
  BY <1>1, <1>4, <1>7, <1>9
<1> QED
  BY <1>8, <1>9

LEMMA LaserReadsKeeps == SerialInv /\ A!LaserReads => SerialInv'
<1> SUFFICES ASSUME SerialInv, A!LaserReads PROVE SerialInv'
  OBVIOUS
<1> DEFINE bytes == Append(a_rx, Head(a_wire))
           frame == A!Values(bytes)
           kind == a_kind[Len(a_kind)]
<1>1. a_device = "laser" /\ A!ReadByte
  BY DEF A!LaserReads
<1>2. \/ a_rx' \in {<<>>, bytes} /\ A!GoOn
      \/ \E status : a_rx' = <<>> /\ status # "ok" /\ A!Return(status, bytes)
      \/ /\ a_rx # <<>> /\ a_rx' = <<>> /\ frame[2] = kind
         /\ (A!IsSetting(kind) => frame[4] = a_setting[Len(a_kind)])
         /\ A!Return("ok", bytes)
  <2> HIDE DEF bytes, frame, kind
  <2>1. \/ a_rx' = <<>> /\ A!GoOn
        \/ a_rx' = <<>> /\ A!Return("protocol", bytes)
        \/ a_rx' = <<>> /\ A!Return("checksum", bytes)
        \/ a_rx' = bytes /\ A!GoOn
        \/ /\ a_rx # <<>> /\ a_rx' = <<>> /\ frame[2] = kind
           /\ ~(A!IsSetting(kind) /\ frame[4] # a_setting[Len(a_kind)])
           /\ A!Return("ok", bytes)
    BY DEF A!LaserReads, A!Current, A!WrongEcho, bytes, frame, kind
  <2> QED
    BY <2>1
<1>3. a_rx' \in {<<>>, bytes}
  BY <1>2
<1>4. /\ IsRow(a_rx') /\ IsRow(a_wire') /\ IsRow(bytes)
      /\ BegunOnce(a_rx', a_wire', a_to_device, Len(a_kind))
      /\ \A c : Unread(a_rx', a_wire', a_to_device, c) => Unread(a_rx, a_wire, a_to_device, c)
  BY <1>1, <1>3, SerialBytes
<1>5. UNCHANGED <<a_device, a_kind, a_setting, a_to_device>> /\ a_to_device \in Seq(Nat)
  BY <1>1 DEF A!ReadByte, SerialInv, SerialTyping
<1>6. CASE A!GoOn
  <2>1. UNCHANGED <<a_waiting, a_result, a_failed, a_fooled>>
    BY <1>6 DEF A!GoOn
  <2> HIDE DEF bytes
  <2> QED
    BY <1>4, <1>5, <2>1, SerialGoesOn
<1>7. ASSUME NEW status, status # "ok", A!Return(status, bytes)
      PROVE  SerialInv'
  <2> HIDE DEF bytes
  <2> QED
    BY <1>4, <1>5, <1>7, SerialFails
<1>8. CASE /\ a_rx # <<>> /\ a_rx' = <<>> /\ frame[2] = kind
           /\ (A!IsSetting(kind) => frame[4] = a_setting[Len(a_kind)]) /\ A!Return("ok", bytes)
  <2>1. ASSUME NEW c \in 1..Len(a_kind), bytes \in {A!LaserFrame(c), A!ThermalFrame(c, A!FlagOk)}
        PROVE  a_kind[c] = kind /\ a_setting[c] = a_setting[Len(a_kind)]
    <3>1. a_kind \in Seq(A!Kind) /\ Len(a_kind) \in Nat
      BY LenProperties DEF SerialInv, SerialTyping
    <3>2. Len(a_kind) \in 1..Len(a_kind)
      BY <3>1
    <3>3. kind \in A!Kind
      BY <3>1, <3>2, ElementOfSeq
    <3> HIDE DEF bytes
    <3> QED
      BY <1>4, <1>8, <2>1, <3>2, <3>3, LaserTakesOwn
  <2> QED
    BY <1>1, <1>8, <2>1, SerialTakes
<1> QED
  BY <1>2, <1>6, <1>7, <1>8

LEMMA ThermalReadsKeeps == SerialInv /\ A!ThermalReads => SerialInv'
<1> SUFFICES ASSUME SerialInv, A!ThermalReads PROVE SerialInv'
  OBVIOUS
<1> DEFINE bytes == Append(a_rx, Head(a_wire))
           frame == A!Values(bytes)
<1>1. a_device = "thermal" /\ A!ReadByte
  BY DEF A!ThermalReads
<1>2. \/ a_rx' \in {<<>>, bytes} /\ A!GoOn
      \/ \E status : a_rx' = <<>> /\ status # "ok" /\ A!Return(status, bytes)
      \/ /\ ~(Len(frame) < 2) /\ a_rx' = <<>> /\ A!Expected(frame)
         /\ A!Return("ok", bytes)
  <2> DEFINE n == Len(frame)
             size == frame[2] + 4
             body == SubSeq(frame, 3, size - 2)
             status == CASE frame[size] # A!FrameEnd -> "protocol"
                         [] frame[size] = A!FrameEnd /\ A!SumOf(body) # frame[size - 1] -> "checksum"
                         [] OTHER ->
                              IF ~A!Expected(frame) THEN "protocol"
                              ELSE IF frame[6] = A!FlagError THEN "remote"
                              ELSE IF frame[6] = A!FlagOk THEN "ok" ELSE "protocol"
  <2> HIDE DEF bytes, frame
  <2>1. \/ a_rx' = <<>> /\ A!Return("protocol", bytes)
        \/ a_rx' = bytes /\ A!GoOn
        \/ ~(Len(frame) < 2) /\ a_rx' = <<>> /\ A!Return(status, bytes)
    BY DEF A!ThermalReads, bytes, frame
  <2>2. status = "ok" => A!Expected(frame)
    OBVIOUS
  <2> HIDE DEF status
  <2> QED
    BY <2>1, <2>2
<1>3. a_rx' \in {<<>>, bytes}
  BY <1>2
<1>4. /\ IsRow(a_rx') /\ IsRow(a_wire') /\ IsRow(bytes)
      /\ BegunOnce(a_rx', a_wire', a_to_device, Len(a_kind))
      /\ \A c : Unread(a_rx', a_wire', a_to_device, c) => Unread(a_rx, a_wire, a_to_device, c)
  BY <1>1, <1>3, SerialBytes
<1>5. UNCHANGED <<a_device, a_kind, a_setting, a_to_device>> /\ a_to_device \in Seq(Nat)
  BY <1>1 DEF A!ReadByte, SerialInv, SerialTyping
<1>6. CASE A!GoOn
  <2>1. UNCHANGED <<a_waiting, a_result, a_failed, a_fooled>>
    BY <1>6 DEF A!GoOn
  <2> HIDE DEF bytes
  <2> QED
    BY <1>4, <1>5, <2>1, SerialGoesOn
<1>7. ASSUME NEW status, status # "ok", A!Return(status, bytes)
      PROVE  SerialInv'
  <2> HIDE DEF bytes
  <2> QED
    BY <1>4, <1>5, <1>7, SerialFails
<1>8. CASE /\ ~(Len(frame) < 2) /\ a_rx' = <<>> /\ A!Expected(frame)
           /\ A!Return("ok", bytes)
  <2>1. a_rx # <<>>
    <3> SUFFICES ASSUME a_rx = <<>> PROVE FALSE
      OBVIOUS
    <3>1. bytes = <<Head(a_wire)>>
      OBVIOUS
    <3>2. Len(bytes) = 1 /\ 1 \in 1..Len(bytes)
      BY <3>1
    <3> HIDE DEF bytes
    <3>3. Len(frame) = 1
      BY <1>4, <3>2, SaysIt
    <3> QED
      BY <1>8, <3>3
  <2>2. ASSUME NEW c \in 1..Len(a_kind), bytes \in {A!LaserFrame(c), A!ThermalFrame(c, A!FlagOk)}
        PROVE  a_kind[c] = a_kind[Len(a_kind)] /\ a_setting[c] = a_setting[Len(a_kind)]
    <3> HIDE DEF bytes
    <3> QED
      BY <1>1, <1>4, <1>8, <2>2, ThermalTakesOwn
  <2> QED
    BY <1>1, <1>8, <2>1, <2>2, SerialTakes
<1> QED
  BY <1>2, <1>6, <1>7, <1>8

\* A step keeps what answers are taken by.
LEMMA SerialKept == SerialInv /\ [A!Next]_a_vars => SerialInv'
<1> SUFFICES ASSUME SerialInv, [A!Next]_a_vars PROVE SerialInv'
  OBVIOUS
<1> DEFINE n == Len(a_kind)
<1>1. PICK S : OfCalls(S) /\ a_rx \in Seq(S) /\ a_wire \in Seq(S)
  BY RowsShare DEF SerialInv, SerialTyping
<1>2. /\ a_kind \in Seq(A!Kind) /\ n \in Nat /\ a_rx \in Seq(S) /\ a_wire \in Seq(S) /\ OfCalls(S)
      /\ IsRow(a_rx) /\ IsRow(a_wire) /\ a_to_device \in Seq(Nat) /\ BegunOnce(a_rx, a_wire, a_to_device, n)
      /\ SerialTyping /\ A!AnswerIsOwn /\ a_device \in {"laser", "thermal"}
      /\ LateIsExcused(a_rx, a_wire, a_to_device, n, a_waiting, a_failed \cup a_fooled)
  BY <1>1, LenProperties DEF SerialInv, SerialTyping
<1>3. ASSUME a_to_device # <<>>, NEW frame, a_to_device' = Tail(a_to_device), a_wire' = a_wire \o frame,
             UNCHANGED <<a_device, a_kind, a_setting, a_waiting, a_rx, a_result, a_failed, a_fooled>>,
             frame \in {A!LaserFrame(Head(a_to_device)), A!ThermalFrame(Head(a_to_device), A!FlagOk),
                        A!ThermalFrame(Head(a_to_device), A!FlagError)}
      PROVE  SerialInv'
  <2> DEFINE c == Head(a_to_device)
  <2>1. c \in 1..n
    <3>1. 1 \in DOMAIN a_to_device /\ c = a_to_device[1]
      BY <1>2, <1>3, EmptySeq, LenProperties, HeadTailProperties
    <3> QED
      BY <1>2, <3>1 DEF BegunOnce
  <2> HIDE DEF c
  <2>2. IsRow(frame) /\ \A i \in DOMAIN frame : frame[i].of = c /\ frame[i].at = i
    <3>1. CASE frame = A!LaserFrame(c)
      BY <1>2, <2>1, <3>1, LaserSays
    <3>2. ASSUME NEW flag \in {A!FlagOk, A!FlagError}, frame = A!ThermalFrame(c, flag)
          PROVE  IsRow(frame) /\ \A i \in DOMAIN frame : frame[i].of = c /\ frame[i].at = i
      BY <1>2, <2>1, <3>2, ThermalSays
    <3> QED
      BY <1>3, <3>1, <3>2 DEF c
  <2>3. PICK T : OfCalls(T) /\ frame \in Seq(T)
    BY <2>2 DEF IsRow
  <2> DEFINE U == S \cup T
  <2>4. OfCalls(U)
    BY <1>2, <2>3 DEF OfCalls
  <2>5. a_rx \in Seq(U) /\ a_wire \in Seq(U) /\ frame \in Seq(U)
    <3>1. S \subseteq U /\ T \subseteq U
      OBVIOUS
    <3> HIDE DEF U
    <3> QED
      BY <1>2, <2>3, <3>1, SeqMonotonic
  <2> HIDE DEF U
  <2>6. /\ BegunOnce(a_rx, a_wire \o frame, Tail(a_to_device), n)
        /\ a_wire \o frame \in Seq(U) /\ Tail(a_to_device) \in Seq(Nat)
        /\ \A d : Unread(a_rx, a_wire \o frame, Tail(a_to_device), d) =>
                    Unread(a_rx, a_wire, a_to_device, d)
    BY <1>2, <1>3, <2>2, <2>5, AnswerArrives DEF c
  <2>7. IsRow(a_wire \o frame)
    BY <2>4, <2>6 DEF IsRow
  <2> QED
    BY <1>2, <1>3, <2>6, <2>7, SerialGoesOn
<1>4. CASE A!Answers
  BY <1>3, <1>4 DEF A!Answers
<1>5. CASE A!Refuses
  BY <1>3, <1>5 DEF A!Refuses
<1>6. CASE A!Damage
  <2> DEFINE rest == Tail(a_wire)
  <2>1. /\ a_wire # <<>>
        /\ UNCHANGED <<a_device, a_kind, a_setting, a_waiting, a_rx, a_result, a_failed, a_fooled,
                       a_to_device>>
        /\ \/ a_wire' = rest
           \/ \E bit \in DamagedBit : a_wire' = <<A!Damaged(Head(a_wire), bit)>> \o rest
    BY <1>6 DEF A!Damage
  <2>2. /\ BegunOnce(a_rx, rest, a_to_device, n) /\ rest \in Seq(S)
        /\ \A c : Unread(a_rx, rest, a_to_device, c) => Unread(a_rx, a_wire, a_to_device, c)
    BY <1>2, <2>1, ByteLost
  <2>3. CASE a_wire' = rest
    <3>1. IsRow(a_wire')
      BY <1>2, <2>2, <2>3 DEF IsRow
    <3> QED
      BY <1>2, <2>1, <2>2, <2>3, <3>1, SerialGoesOn
  <2>4. ASSUME NEW bit \in DamagedBit, a_wire' = <<A!Damaged(Head(a_wire), bit)>> \o rest
        PROVE  SerialInv'
    <3> DEFINE byte == A!Damaged(Head(a_wire), bit)
               U == S \cup {byte}
    <3>1. byte.of = 0 /\ byte.at = 0
      BY DEF A!Damaged, A!None
    <3> HIDE DEF byte
    <3>2. OfCalls(U) /\ byte \in U /\ S \subseteq U
      BY <1>2, <3>1 DEF OfCalls
    <3> HIDE DEF U, rest
    <3>3. rest \in Seq(U)
      BY <2>2, <3>2, SeqMonotonic
    <3>4. /\ BegunOnce(a_rx, <<byte>> \o rest, a_to_device, n) /\ <<byte>> \o rest \in Seq(U)
          /\ \A c : Unread(a_rx, <<byte>> \o rest, a_to_device, c) =>
                      Unread(a_rx, rest, a_to_device, c)
      BY <1>2, <2>2, <3>1, <3>2, <3>3, ByteDamaged
    <3>5. a_wire' = <<byte>> \o rest
      BY <2>4 DEF byte
    <3>6. IsRow(a_wire')
      BY <3>2, <3>4, <3>5 DEF IsRow
    <3> QED
      BY <1>2, <2>1, <2>2, <3>4, <3>5, <3>6, SerialGoesOn
  <2> QED
    BY <2>1, <2>3, <2>4
<1>7. CASE A!Send
  <2>1. PICK k \in A!Kind, v \in LaserSettings \cup {0} :
          /\ a_kind' = Append(a_kind, k) /\ a_setting' = Append(a_setting, v)
          /\ A!IsSetting(k) \/ v = 0
    BY <1>7 DEF A!Send
  <2>2. /\ ~a_waiting /\ a_to_device' = Append(a_to_device, n + 1) /\ a_waiting' = TRUE
        /\ a_rx' \in {<<>>, a_rx}
        /\ UNCHANGED <<a_device, a_result, a_failed, a_fooled, a_wire>>
    BY <1>7 DEF A!Send, A!Current
  <2>3. a_kind' \in Seq(A!Kind) /\ Len(a_kind') = Len(a_kind) + 1
    BY <1>2, <2>1, AppendProperties
  <2>4. \A c \in 1..Len(a_kind) : a_kind'[c] = a_kind[c]
    BY <1>2, <2>1, AppendProperties
  <2>5. a_setting \in Seq(LaserSettings \cup {0}) /\ Len(a_setting) = n
    BY <1>2 DEF SerialTyping
  <2>6. a_setting' \in Seq(LaserSettings \cup {0}) /\ Len(a_setting') = Len(a_setting) + 1
    BY <2>1, <2>5, AppendProperties
  <2>7. \A c \in 1..Len(a_setting) : a_setting'[c] = a_setting[c]
    BY <2>1, <2>5, AppendProperties
  <2>8. a_kind'[Len(a_kind) + 1] = k
    BY <1>2, <2>1, AppendProperties
  <2>9. a_setting'[Len(a_setting) + 1] = v
    BY <2>1, <2>5, AppendProperties
  <2>10. /\ BegunOnce(a_rx', a_wire, a_to_device, n) /\ a_rx' \in Seq(S)
        /\ \A c : Unread(a_rx', a_wire, a_to_device, c) => Unread(a_rx, a_wire, a_to_device, c)
    <3>1. CASE a_rx' = <<>>
      BY <1>2, <3>1, BytesForgotten, EmptySeq
    <3>2. CASE a_rx' = a_rx
      BY <1>2, <3>2
    <3> QED
      BY <2>2, <3>1, <3>2
  <2>11. /\ BegunOnce(a_rx', a_wire, Append(a_to_device, n + 1), n + 1)
        /\ Append(a_to_device, n + 1) \in Seq(Nat)
        /\ \A c \in 1..n :
             Unread(a_rx', a_wire, Append(a_to_device, n + 1), c) =>
               Unread(a_rx', a_wire, a_to_device, c)
    BY <1>2, <2>10, CallMade
  <2> DEFINE asked == Append(a_to_device, n + 1)
  <2> HIDE DEF asked
  <2>12. SerialTyping'
    <3>1. a_result.call \in 0..(n + 1)
      BY <1>2 DEF SerialTyping
    <3>2. (a_result.call)' \in 0..Len(a_kind')
      BY <2>2, <2>3, <3>1
    <3>3. ASSUME NEW c \in 1..(n + 1) PROVE A!IsSetting(a_kind'[c]) \/ a_setting'[c] = 0
      <4>1. CASE c \in 1..n
        BY <1>2, <2>4, <2>5, <2>7, <4>1 DEF SerialTyping
      <4>2. CASE c = n + 1
        BY <2>1, <2>5, <2>8, <2>9, <4>2
      <4> QED
        BY <1>2, <4>1, <4>2
    <3>5. (\A c \in 1..Len(a_kind) : A!IsSetting(a_kind[c]) \/ a_setting[c] = 0)'
      BY <2>2, <2>3, <3>3 DEF A!IsSetting
    <3>4. IsRow(a_rx') /\ IsRow(a_wire')
      BY <1>2, <2>2, <2>10 DEF IsRow
    <3> QED
      BY <1>2, <2>2, <2>3, <2>11, <2>5, <2>6, <3>2, <3>4, <3>5 DEF SerialTyping
  <2>13. BegunOnce(a_rx, a_wire, a_to_device, Len(a_kind))'
    BY <2>2, <2>3, <2>11
  <2>14. LateIsExcused(a_rx', a_wire, asked, n + 1, TRUE, a_failed \cup a_fooled)
    <3> SUFFICES ASSUME NEW c \in 1..(n + 1), Unread(a_rx', a_wire, asked, c), c < n + 1
                 PROVE  \E f \in a_failed \cup a_fooled : f <= c
      BY DEF LateIsExcused
    <3>1. c \in 1..n
      BY <1>2
    <3>2. Unread(a_rx, a_wire, a_to_device, c)
      BY <2>10, <2>11, <3>1 DEF asked
    <3> QED
      BY <1>2, <2>2, <3>1, <3>2 DEF LateIsExcused
  <2>15. A!AnswerIsOwn'
    BY <1>2, <2>2, <2>4, <2>5, <2>7, AnswerStays
  <2> QED
    BY <2>2, <2>3, <2>12, <2>13, <2>14, <2>15 DEF SerialInv, asked
<1>8. CASE A!LaserReads
  BY <1>8, LaserReadsKeeps
<1>9. CASE A!InterbyteTimeout
  <2>1. /\ a_rx' = <<>>
        /\ UNCHANGED <<a_device, a_kind, a_setting, a_waiting, a_result, a_failed, a_fooled,
                       a_to_device, a_wire>>
    BY <1>9 DEF A!InterbyteTimeout
  <2>2. /\ BegunOnce(<<>>, a_wire, a_to_device, n)
        /\ \A c : Unread(<<>>, a_wire, a_to_device, c) => Unread(a_rx, a_wire, a_to_device, c)
    BY <1>2, BytesForgotten
  <2> QED
    BY <1>2, <2>1, <2>2, EmptyIsRow, SerialGoesOn
<1>10. CASE A!Reopen
  <2>1. PICK k \in 0..Len(a_wire) : a_wire' = SubSeq(a_wire, k + 1, Len(a_wire))
    BY <1>10 DEF A!Reopen
  <2>2. /\ a_rx' = <<>>
        /\ UNCHANGED <<a_device, a_kind, a_setting, a_waiting, a_result, a_failed, a_fooled,
                       a_to_device>>
    BY <1>10 DEF A!Reopen
  <2>3. /\ BegunOnce(<<>>, a_wire, a_to_device, n)
        /\ \A c : Unread(<<>>, a_wire, a_to_device, c) => Unread(a_rx, a_wire, a_to_device, c)
    BY <1>2, BytesForgotten
  <2>4. /\ BegunOnce(<<>>, a_wire', a_to_device, n) /\ a_wire' \in Seq(S)
        /\ \A c : Unread(<<>>, a_wire', a_to_device, c) => Unread(<<>>, a_wire, a_to_device, c)
    BY <1>2, <2>1, <2>3, ArrivedLost, Zenon
  <2>5. IsRow(a_wire')
    BY <1>2, <2>4 DEF IsRow
  <2> QED
    BY <1>2, <2>2, <2>3, <2>4, <2>5, EmptyIsRow, SerialGoesOn
<1>11. CASE A!ThermalReads
  BY <1>11, ThermalReadsKeeps
<1>12. CASE A!Timeout
  <2>1. /\ a_rx' \in {<<>>, a_rx} /\ A!Return("timeout", a_rx)
        /\ UNCHANGED <<a_device, a_kind, a_setting, a_to_device, a_wire>>
    BY <1>12 DEF A!Timeout
  <2>2. /\ IsRow(a_rx') /\ IsRow(a_wire')
        /\ BegunOnce(a_rx', a_wire', a_to_device, n)
        /\ \A c : Unread(a_rx', a_wire', a_to_device, c) => Unread(a_rx, a_wire, a_to_device, c)
    <3>1. CASE a_rx' = <<>>
      BY <1>2, <2>1, <3>1, BytesForgotten, EmptyIsRow
    <3>2. CASE a_rx' = a_rx
      BY <1>2, <2>1, <3>2
    <3> QED
      BY <2>1, <3>1, <3>2
  <2>3. "timeout" # "ok"
    OBVIOUS
  <2> QED
    BY <1>2, <2>1, <2>2, <2>3, SerialFails
<1>13. CASE UNCHANGED a_vars
  <2>1. UNCHANGED <<a_device, a_kind, a_setting, a_waiting, a_rx, a_wire, a_to_device, a_result,
                    a_failed, a_fooled>>
    BY <1>13 DEF a_vars
  <2> QED
    BY <1>2, <2>1, SerialGoesOn
<1> QED
  BY <1>4, <1>5, <1>6, <1>7, <1>8, <1>9, <1>10, <1>11, <1>12, <1>13 DEF A!Next
-----------------------------------------------------------------------------
(***************************************************************************)
(* One unit moves; the others stay. Each keeps its own invariant either    *)
(* way.                                                                    *)
(***************************************************************************)
LinksInv ==
  /\ CameraInv /\ RsdkInv /\ ButtonsInv /\ AskedInv /\ CaptureInv /\ FormatInv /\ ConvertInv /\ OsdInv
  /\ KeyInv /\ RtpInv /\ BusInv /\ SerialInv /\ ItemsInv

LEMMA InitLinks == LinksInit => LinksInv
<1> SUFFICES ASSUME LinksInit PROVE LinksInv
  OBVIOUS
<1> /\ V!Init /\ R!Init /\ B!Init /\ C!Init /\ L!Init /\ X!Init /\ O!Init
    /\ K!Init /\ P!Init /\ F!Init /\ A!Init /\ I!Init
  BY Zenon DEF LinksInit
<1> QED
  BY LinksAssumption, CameraInit, RsdkInit, ButtonsInit, CaptureInit, FormatInit, ConvertInit, OsdInit,
     KeyInit, RtpInit, BusInit, SerialInit, ItemsInit
  DEF LinksInv

LEMMA UnitSteps ==
  ASSUME [LinksNext]_links_vars
  PROVE  /\ [V!Next]_v_vars /\ [R!Next]_r_vars /\ [B!Next]_b_vars /\ [C!Next]_c_vars
         /\ [L!Next]_l_vars /\ [X!Next]_x_vars /\ [O!Next]_o_vars
         /\ [K!Next]_k_vars /\ [P!Next]_p_vars /\ [F!Next]_f_vars /\ [A!Next]_a_vars
         /\ [I!Next]_i_vars
<1>1. CASE LinksNext
  <2>1. /\ V!Next \/ UNCHANGED v_vars
        /\ R!Next \/ UNCHANGED r_vars
        /\ B!Next \/ UNCHANGED b_vars
        /\ C!Next \/ UNCHANGED c_vars
        /\ L!Next \/ UNCHANGED l_vars
        /\ X!Next \/ UNCHANGED x_vars
        /\ O!Next \/ UNCHANGED o_vars
        /\ K!Next \/ UNCHANGED k_vars
        /\ P!Next \/ UNCHANGED p_vars
        /\ F!Next \/ UNCHANGED f_vars
        /\ A!Next \/ UNCHANGED a_vars
        /\ I!Next \/ UNCHANGED i_vars
    BY <1>1, Zenon DEF LinksNext
  <2> QED
    BY <2>1
<1>2. CASE UNCHANGED links_vars
  BY <1>2 DEF links_vars
<1> QED
  BY <1>1, <1>2

LEMMA LinksKept == LinksInv /\ [LinksNext]_links_vars => LinksInv'
<1> SUFFICES ASSUME LinksInv, [LinksNext]_links_vars PROVE LinksInv'
  OBVIOUS
<1>1. CameraInv' /\ RsdkInv'
  BY LinksAssumption, UnitSteps, CameraKept, RsdkKept DEF LinksInv
<1>2. ButtonsInv' /\ AskedInv'
  BY LinksAssumption, UnitSteps, ButtonsKept DEF LinksInv
<1>3. CaptureInv' /\ FormatInv'
  BY LinksAssumption, UnitSteps, CaptureKept, FormatKept DEF LinksInv
<1>4. ConvertInv' /\ OsdInv'
  BY LinksAssumption, UnitSteps, ConvertKept, OsdKept DEF LinksInv
<1>5. KeyInv' /\ RtpInv' /\ BusInv'
  BY LinksAssumption, UnitSteps, KeyKept, RtpKept, BusKept DEF LinksInv
<1>6. SerialInv' /\ ItemsInv'
  BY UnitSteps, SerialKept, ItemsKept DEF LinksInv
<1> QED
  BY <1>1, <1>2, <1>3, <1>4, <1>5, <1>6 DEF LinksInv

LEMMA LinksInvariance == LinksSpec => []LinksInv
BY InitLinks, LinksKept, PTL DEF LinksSpec

\* The answer that is returned is the answer to the call that waits: the camera's
\* (visca_wait_for_command), the laser's (sfl0603_laser_wait_for_command) and the thermal camera's
\* (thermal_camera_receive_response) unless an earlier call has failed, or the check of the serial
\* line deceived one, and the gimbal's (dji_rsdk_protocol_request) always; for any number of calls,
\* losses, damaged bytes and late answers, as long as one of the gimbal's does not outlive its
\* number. After an error it is still one to a call of the same kind, and to the same setting of
\* the laser. And what the gimbal answers to an inquiry, or reports, is read as what it was last
\* set to (dji_rsdk_commands.c), for any angles, limits, positions and recordings in range, and of
\* the stiffness of the motors for the pitch axis.
THEOREM AnswersAreTheirOwn == LinksSpec => []AnswersAreOwn
<1>1. LinksInv => AnswersAreOwn
  BY DEF LinksInv, CameraInv, RsdkInv, SerialInv, ItemsInv, AnswersAreOwn
<1> QED
  BY <1>1, LinksInvariance, PTL

\* Every press of video_control_actions.c that is answered OK takes effect once: recordings and
\* switches follow the presses of any number of operators, for any number of channels.
THEOREM PressesDoCount == LinksSpec => []PressesCount
<1>1. LinksInv => PressesCount
  BY ButtonsCount DEF LinksInv
<1> QED
  BY <1>1, LinksInvariance, PTL

\* The captured buffers are counted and given back once (input_hdmi_in.c, input_csi.c), the
\* descriptor of a frame lies in its buffer, the converter returns the frame it was given and
\* the overlay is what was set last: for any buffers, openings, formats, sizes and failures.
THEOREM PicturesAreHeld == LinksSpec => []PicturesHold
<1>1. LinksInv => PicturesHold
  BY LinksAssumption, CaptureIsAccounted, DescriptorIsInside, OsdIsCurrent
  DEF LinksInv, ConvertInv, PicturesHold
<1> QED
  BY <1>1, LinksInvariance, PTL

\* Every valid frame of the key board is accepted once it has been read and nothing else is
\* (high_speed_camera.c); a receiver of the UDP stream completes only the units the encoder
\* emitted, all of them without a loss, and the last packet alone carries the marker
\* (rtp_output.c); every unencrypted packet of the gimbal that arrives whole is delivered, once and in order,
\* and rx_buffer never has to be emptied for want of room (dji_rsdk_protocol.c): for any faults
\* and losses, frames, units, packets and sizes.
THEOREM FramesAreKept == LinksSpec => []FramesKept
<1>1. LinksInv => FramesKept
  BY LinksAssumption, KeyIsRead, UnitsAreWhole, BusSuffices DEF LinksInv, FramesKept
<1> QED
  BY <1>1, LinksInvariance, PTL
=============================================================================
