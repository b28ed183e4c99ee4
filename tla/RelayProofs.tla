----------------------------- MODULE RelayProofs -----------------------------
(* Proofs about the remote access relay, for any number of requests, topics   *)
(* and messages, and whatever the connection does.                             *)
(*                                                                             *)
(* A step of one kind leaves the frames of the other kind as they were, a few  *)
(* of them taken from the front or all of them lost (OldFrames): what holds of *)
(* the frames on their way needs an argument only where one of them is made.   *)
EXTENDS Relay, FiniteSetTheorems, SequenceTheorems, TLAPS

----------------------------------------------------------------------------
\* Numbers, and sequences of frames.

LEMMA LeastExists ==
  ASSUME NEW U \in SUBSET Nat, U # {}
  PROVE  \E x \in U : \A y \in U : x <= y
<1> DEFINE R == OpToRel(<, Nat)
<1>1. IsWellFoundedOn(R, Nat)
  BY NatLessThanWellFounded
<1>2. \A x, y \in Nat : x < y => <<x, y>> \in R
  BY DEF OpToRel
<1> HIDE DEF R
<1>3. \E x \in U : \A y \in U : ~ (<<y, x>> \in R)
  BY <1>1, WFMin
<1>4. \A x, y \in Nat : ~ (<<y, x>> \in R) => x <= y
  BY <1>2
<1> QED
  BY <1>3, <1>4

LEMMA MinIsLeast ==
  ASSUME NEW U \in SUBSET Nat, U # {}
  PROVE  Min(U) \in U /\ \A y \in U : Min(U) <= y
BY LeastExists DEF Min

LEMMA MaxIsGreatest ==
  ASSUME NEW U \in SUBSET Nat, U # {}, NEW n \in Nat, \A y \in U : y <= n
  PROVE  Max(U) \in U /\ \A y \in U : y <= Max(U)
<1> DEFINE B == {n - y : y \in U}
<1>1. PICK z \in U : TRUE
  OBVIOUS
<1>2. \A b \in B : b \in Nat
  OBVIOUS
<1>3. n - z \in B
  OBVIOUS
<1>4. PICK b \in B : \A c \in B : b <= c
  <2>1. B \in SUBSET Nat /\ B # {}
    BY <1>2, <1>3
  <2> HIDE DEF B
  <2> QED
    BY <2>1, LeastExists
<1>5. \E x \in U : \A y \in U : x >= y
  BY <1>4
<1> QED
  BY <1>5 DEF Max

LEMMA NextIdFits ==
  ASSUME id \in 0..IDS
  PROVE  NextId \in 1..IDS /\ (id < IDS => NextId = id + 1)
BY CallsAssumption DEF NextId

OldFrames(s, t, kind) ==
  \E k \in Nat : \A i \in DOMAIN t : t[i].type = kind => i + k \in DOMAIN s /\ t[i] = s[i + k]

LEMMA SameOld == ASSUME NEW S, NEW s \in Seq(S), NEW kind PROVE OldFrames(s, s, kind)
<1>1. \A i \in DOMAIN s : i + 0 = i
  OBVIOUS
<1> QED
  BY <1>1, 0 \in Nat DEF OldFrames

LEMMA EmptyOld == ASSUME NEW s, NEW kind PROVE OldFrames(s, <<>>, kind)
BY DEF OldFrames

LEMMA TailOld ==
  ASSUME NEW S, NEW s \in Seq(S), s # <<>>, NEW kind
  PROVE  /\ OldFrames(s, Tail(s), kind) /\ Tail(s) \in Seq(S)
         /\ Head(s) = s[1] /\ 1 \in DOMAIN s
<1>1. \A i \in DOMAIN Tail(s) : i + 1 \in DOMAIN s /\ Tail(s)[i] = s[i + 1]
  OBVIOUS
<1> QED
  BY <1>1, 1 \in Nat DEF OldFrames

LEMMA ConcatElements ==
  ASSUME NEW S, NEW s \in Seq(S), NEW f \in Seq(S)
  PROVE  \A i \in DOMAIN (s \o f) :
           \/ (i \in DOMAIN s /\ (s \o f)[i] = s[i])
           \/ (i - Len(s) \in DOMAIN f /\ (s \o f)[i] = f[i - Len(s)])
<1>1. /\ (s \o f) \in Seq(S) /\ Len(s \o f) = Len(s) + Len(f)
      /\ \A i \in 1 .. Len(s) + Len(f) :
           (s \o f)[i] = IF i <= Len(s) THEN s[i] ELSE f[i - Len(s)]
  BY ConcatProperties
<1>2. /\ DOMAIN (s \o f) = 1 .. Len(s) + Len(f)
      /\ DOMAIN s = 1 .. Len(s) /\ DOMAIN f = 1 .. Len(f) /\ Len(s) \in Nat /\ Len(f) \in Nat
  BY <1>1
<1>3. ASSUME NEW i \in DOMAIN (s \o f)
      PROVE  \/ (i \in DOMAIN s /\ (s \o f)[i] = s[i])
             \/ (i - Len(s) \in DOMAIN f /\ (s \o f)[i] = f[i - Len(s)])
  <2>1. i \in 1 .. Len(s) + Len(f)
    BY <1>2, <1>3
  <2>2. CASE i <= Len(s)
    <3>1. i \in DOMAIN s
      BY <1>2, <2>1, <2>2
    <3> QED
      BY <1>1, <2>1, <2>2, <3>1
  <2>3. CASE ~(i <= Len(s))
    <3>1. i - Len(s) \in DOMAIN f
      BY <1>2, <2>1, <2>3
    <3> QED
      BY <1>1, <2>1, <2>3, <3>1
  <2> QED
    BY <2>2, <2>3
<1> QED
  BY <1>3

LEMMA ConcatDomain ==
  ASSUME NEW S, NEW s \in Seq(S), NEW f \in Seq(S)
  PROVE  Len(s) \in Nat /\ DOMAIN (s \o f) \subseteq Nat
<1>1. \A t \in Seq(S) : Len(t) \in Nat /\ DOMAIN t \subseteq Nat
  OBVIOUS
<1>2. PICK t : t = s \o f
  OBVIOUS
<1>3. t \in Seq(S)
  BY <1>2
<1> QED
  BY <1>1, <1>2, <1>3, Zenon

\* t is s with the elements of f after it; f has one
LEMMA OneMore ==
  ASSUME NEW s, NEW f, NEW t, NEW n \in Nat, DOMAIN f = {1}, DOMAIN t \subseteq Nat,
         \A i \in DOMAIN t : (i \in DOMAIN s /\ t[i] = s[i]) \/ (i - n \in DOMAIN f /\ t[i] = f[i - n])
  PROVE  \A i \in DOMAIN t : (i \in DOMAIN s /\ t[i] = s[i]) \/ (i = n + 1 /\ t[i] = f[1])
<1>1. ASSUME NEW i \in DOMAIN t, i - n \in DOMAIN f PROVE i = n + 1 /\ i - n = 1
  BY <1>1
<1> QED
  BY <1>1

LEMMA MoreOld ==
  ASSUME NEW S, NEW s \in Seq(S), NEW f \in Seq(S), NEW kind,
         \A i \in DOMAIN f : f[i].type # kind
  PROVE  OldFrames(s, s \o f, kind)
<1>1. \A i \in DOMAIN (s \o f) : (s \o f)[i].type = kind => i \in DOMAIN s /\ (s \o f)[i] = s[i]
  BY ConcatElements
<1>2. \A i \in DOMAIN (s \o f) : i + 0 = i
  BY ConcatDomain
<1> QED
  BY <1>1, <1>2, 0 \in Nat DEF OldFrames

----------------------------------------------------------------------------
\* The link.

DownFrames == [type : {"R"}, id : 1..IDS, request : Requests] \cup [type : {"C"}, message : Ids]
UpFrames == [type : {"E"}, id : 1..IDS, request : Requests]
              \cup [type : {"H"}, topic : Wanted, since : 0..MaxMessages]

LinkInv ==
  /\ dev \in BOOLEAN /\ sock \in BOOLEAN /\ closes \in Nat /\ conns \in 0..MaxConns
  /\ down \in Seq(DownFrames) /\ upq \in Seq(UpFrames)
  /\ ~dev => down = <<>>
  /\ ~sock => upq = <<>>

Kept(kind) == OldFrames(down, down', kind) /\ OldFrames(upq, upq', kind)

LEMMA LinkStays == ASSUME LinkInv, UNCHANGED linkVars, NEW kind PROVE LinkInv' /\ Kept(kind)
BY SameOld DEF LinkInv, linkVars, Kept

LEMMA LinkSend ==
  ASSUME LinkInv, NEW f \in Seq(DownFrames), Send(f)
  PROVE  /\ LinkInv'
         /\ \A kind : (\A i \in DOMAIN f : f[i].type # kind) => Kept(kind)
         /\ \A kind : OldFrames(upq, upq', kind)
<1>1. /\ down' = IF dev THEN down \o f ELSE down
      /\ UNCHANGED <<dev, sock, upq, closes, conns>>
  BY DEF Send, Down
<1>2. down' \in Seq(DownFrames) /\ down \in Seq(DownFrames) /\ upq \in Seq(UpFrames)
  BY <1>1 DEF LinkInv
<1>3. LinkInv'
  BY <1>1, <1>2 DEF LinkInv
<1>4. \A kind : OldFrames(upq, upq', kind)
  BY <1>1, <1>2, SameOld
<1>5. ASSUME NEW kind, \A i \in DOMAIN f : f[i].type # kind PROVE OldFrames(down, down', kind)
  BY <1>1, <1>2, <1>5, SameOld, MoreOld
<1> QED
  BY <1>3, <1>4, <1>5 DEF Kept

LEMMA LinkTell ==
  ASSUME LinkInv, NEW f \in Seq(UpFrames), Tell(f)
  PROVE  /\ LinkInv'
         /\ \A kind : (\A i \in DOMAIN f : f[i].type # kind) => Kept(kind)
<1>1. /\ upq' = IF sock THEN upq \o f ELSE upq
      /\ UNCHANGED <<dev, sock, down, closes, conns>>
  BY DEF Tell, Up
<1>2. upq' \in Seq(UpFrames) /\ down \in Seq(DownFrames) /\ upq \in Seq(UpFrames)
  BY <1>1 DEF LinkInv
<1>3. LinkInv'
  BY <1>1, <1>2 DEF LinkInv
<1>4. \A kind : OldFrames(down, down', kind)
  BY <1>1, <1>2, SameOld
<1>5. ASSUME NEW kind, \A i \in DOMAIN f : f[i].type # kind PROVE OldFrames(upq, upq', kind)
  BY <1>1, <1>2, <1>5, SameOld, MoreOld
<1> QED
  BY <1>3, <1>4, <1>5 DEF Kept

LEMMA LinkPump ==
  ASSUME LinkInv, NEW f \in Seq(UpFrames), Pump(f)
  PROVE  /\ LinkInv' /\ down' = Tail(down) /\ down # <<>>
         /\ Head(down) = down[1] /\ Head(down) \in DownFrames
         /\ \A kind : OldFrames(down, down', kind)
         /\ \A kind : (\A i \in DOMAIN f : f[i].type # kind) => Kept(kind)
<1>1. /\ dev /\ down # <<>> /\ down' = Tail(down)
      /\ upq' = IF sock THEN upq \o f ELSE upq
      /\ UNCHANGED <<dev, sock, closes, conns>>
  BY DEF Pump, Up
<1>2. upq' \in Seq(UpFrames) /\ down \in Seq(DownFrames) /\ upq \in Seq(UpFrames)
  BY <1>1 DEF LinkInv
<1>3. \A kind : OldFrames(down, down', kind)
  BY <1>1, <1>2, TailOld
<1>4. down' \in Seq(DownFrames) /\ Head(down) = down[1] /\ Head(down) \in DownFrames
  BY <1>1, <1>2
<1>5. LinkInv'
  BY <1>1, <1>2, <1>4 DEF LinkInv
<1>6. ASSUME NEW kind, \A i \in DOMAIN f : f[i].type # kind PROVE OldFrames(upq, upq', kind)
  BY <1>1, <1>2, <1>6, SameOld, MoreOld
<1> QED
  BY <1>1, <1>3, <1>4, <1>5, <1>6 DEF Kept

LEMMA LinkReceive ==
  ASSUME LinkInv, Receive
  PROVE  /\ LinkInv' /\ upq' = Tail(upq) /\ upq # <<>> /\ sock
         /\ Head(upq) = upq[1] /\ Head(upq) \in UpFrames /\ 1 \in DOMAIN upq
         /\ \A kind : Kept(kind)
<1>1. /\ sock /\ upq # <<>> /\ upq' = Tail(upq)
      /\ UNCHANGED <<dev, sock, down, closes, conns>>
  BY DEF Receive
<1>2. down \in Seq(DownFrames) /\ upq \in Seq(UpFrames)
  BY <1>1 DEF LinkInv
<1>3. \A kind : OldFrames(down, down', kind) /\ OldFrames(upq, upq', kind)
  BY <1>1, <1>2, TailOld, SameOld
<1>4. upq' \in Seq(UpFrames) /\ Head(upq) = upq[1] /\ Head(upq) \in UpFrames /\ 1 \in DOMAIN upq
  BY <1>1, <1>2
<1>5. LinkInv'
  BY <1>1, <1>2, <1>4 DEF LinkInv
<1> QED
  BY <1>1, <1>3, <1>4, <1>5 DEF Kept

LEMMA LinkAccept ==
  ASSUME LinkInv, NEW ok \in BOOLEAN, NEW f \in Seq(DownFrames), NEW g \in Seq(UpFrames),
         Accept(ok, f, g)
  PROVE  LinkInv'
<1>1. /\ ~dev /\ conns < MaxConns /\ conns' = conns + 1 /\ dev' = ok /\ sock' = TRUE
      /\ closes' = IF sock THEN closes + 1 ELSE closes
      /\ down' = IF ok THEN f ELSE <<>>
      /\ upq' = IF ok THEN g ELSE <<>>
  BY DEF Accept
<1>2. closes' \in Nat /\ conns' \in 0..MaxConns
  BY <1>1, MaxConnsAssumption DEF LinkInv
<1>3. down' \in Seq(DownFrames) /\ upq' \in Seq(UpFrames)
  BY <1>1
<1> QED
  BY <1>1, <1>2, <1>3 DEF LinkInv

\* What is lost on the link, by its own steps
LEMMA LinkLoses ==
  ASSUME LinkInv, DeviceCloses \/ SocketCloses \/ LateClose, NEW kind
  PROVE  LinkInv' /\ Kept(kind)
<1>1. down \in Seq(DownFrames) /\ upq \in Seq(UpFrames) /\ closes \in Nat
  BY DEF LinkInv
<1>2. (down' = down \/ down' = <<>>) /\ (upq' = upq \/ upq' = <<>>)
  BY DEF DeviceCloses, SocketCloses, LateClose
<1>3. Kept(kind)
  BY <1>1, <1>2, SameOld, EmptyOld DEF Kept
<1>4. <<>> \in Seq(DownFrames) /\ <<>> \in Seq(UpFrames)
  OBVIOUS
<1>5. CASE DeviceCloses
  BY <1>1, <1>3, <1>4, <1>5 DEF LinkInv, DeviceCloses
<1>6. CASE SocketCloses
  BY <1>1, <1>3, <1>4, <1>6 DEF LinkInv, SocketCloses
<1>7. CASE LateClose
  BY <1>1, <1>3, <1>4, <1>7 DEF LinkInv, LateClose
<1> QED
  BY <1>5, <1>6, <1>7

LEMMA LinkBoots ==
  ASSUME LinkInv, dev' = FALSE, down' = <<>>, UNCHANGED <<sock, upq, closes, conns>>, NEW kind
  PROVE  LinkInv' /\ Kept(kind)
<1>1. down \in Seq(DownFrames) /\ upq \in Seq(UpFrames)
  BY DEF LinkInv
<1>2. Kept(kind)
  BY <1>1, SameOld, EmptyOld DEF Kept
<1>3. down' \in Seq(DownFrames) /\ upq' \in Seq(UpFrames)
  BY <1>1
<1> QED
  BY <1>2, <1>3 DEF LinkInv
----------------------------------------------------------------------------
\* The calls' steps: what they do to the link, and the types of their state.

Ends(r) == [type |-> "E", id |-> Head(down).id, request |-> r]

LEMMA FrameTyped ==
  ASSUME CallsTypeOK, queue # <<>>
  PROVE  /\ Frame \in Seq(DownFrames) /\ Len(Frame) = 1 /\ DOMAIN Frame = {1}
         /\ Frame[1].type = "R" /\ Frame[1].id = NextId /\ Frame[1].request = Head(queue)
         /\ Frame[1] \in DownFrames /\ Head(queue) = queue[1] /\ 1 \in DOMAIN queue
<1>1. queue \in Seq(Requests) /\ Head(queue) \in Requests /\ Head(queue) = queue[1] /\ 1 \in DOMAIN queue
  BY DEF CallsTypeOK
<1>2. NextId \in 1..IDS
  BY NextIdFits DEF CallsTypeOK
<1>3. [type |-> "R", id |-> NextId, request |-> Head(queue)] \in DownFrames
  BY <1>1, <1>2 DEF DownFrames
<1> HIDE DEF DownFrames
<1> QED
  BY <1>1, <1>3 DEF Frame

\* What a step that serves a request does
LEMMA ServeFacts ==
  ASSUME LinkInv, CallsTypeOK, ServeRequest
  PROVE  /\ LinkInv' /\ down' = Tail(down) /\ down # <<>>
         /\ Head(down) = down[1] /\ Head(down).type = "R"
         /\ Head(down).request \in Requests /\ Head(down).id \in 1..IDS
         /\ served' = [served EXCEPT ![Head(down).request] = @ + 1]
         /\ upq' = IF sock THEN Append(upq, Ends(Head(down).request)) ELSE upq
         /\ Ends(Head(down).request) \in UpFrames
         /\ \A kind : OldFrames(down, down', kind)
         /\ \A kind : kind # "E" => Kept(kind)
         /\ UNCHANGED <<dev, sock, queue, phase, id, answer, evicted>>
<1> DEFINE h == Head(down)
           f == <<Ends(h.request)>>
<1>1. /\ dev /\ down # <<>> /\ h.type = "R" /\ Pump(f)
      /\ served' = [served EXCEPT ![h.request] = @ + 1]
      /\ UNCHANGED <<queue, phase, id, answer, evicted>>
  BY DEF ServeRequest, Ends
<1>2. h \in DownFrames
  BY <1>1 DEF LinkInv
<1>3. h.request \in Requests /\ h.id \in 1..IDS
  BY <1>1, <1>2 DEF DownFrames
<1>4. Ends(h.request) \in UpFrames /\ Ends(h.request).type = "E"
  BY <1>3 DEF UpFrames, Ends
<1>5. f \in Seq(UpFrames) /\ DOMAIN f = {1} /\ f[1].type = "E"
  BY <1>4
<1>6. \A kind : kind # "E" => \A i \in DOMAIN f : f[i].type # kind
  BY <1>5
<1>7. upq \o f = Append(upq, Ends(h.request))
  <2>1. upq \in Seq(UpFrames)
    BY DEF LinkInv
  <2> QED
    BY <2>1, <1>4
<1> HIDE DEF f
<1>8. /\ upq' = IF sock THEN upq \o f ELSE upq
      /\ UNCHANGED <<dev, sock>>
  BY <1>1 DEF Pump, Up
<1>9. /\ LinkInv' /\ down' = Tail(down) /\ down # <<>> /\ Head(down) = down[1]
      /\ \A kind : OldFrames(down, down', kind)
      /\ \A kind : (\A i \in DOMAIN f : f[i].type # kind) => Kept(kind)
  BY <1>1, <1>5, LinkPump
<1> QED
  BY <1>1, <1>3, <1>4, <1>6, <1>7, <1>8, <1>9

CallStep == Call \/ (UNCHANGED linkVars /\ \E r \in Requests : Ask(r))

LEMMA CallLink ==
  ASSUME LinkInv, CallsTypeOK, CallStep
  PROVE  LinkInv' /\ Kept("C") /\ Kept("H") /\ UNCHANGED <<dev, sock>>
<1>1. CASE UNCHANGED linkVars
  BY <1>1, LinkStays DEF linkVars
<1>2. CASE Forward /\ Send(Frame)
  <2>1. queue # <<>>
    BY <1>2 DEF Forward
  <2>2. \A i \in DOMAIN Frame : Frame[i].type # "C" /\ Frame[i].type # "H"
    BY <2>1, FrameTyped
  <2> QED
    BY <1>2, <2>1, <2>2, FrameTyped, LinkSend DEF Send
<1>3. CASE ServeRequest
  BY <1>3, ServeFacts
<1>4. CASE ReplyArrives
  BY <1>4, LinkReceive DEF ReplyArrives, Receive
<1>5. Call => UNCHANGED linkVars \/ (Forward /\ Send(Frame)) \/ ServeRequest \/ ReplyArrives
  BY DEF Call, Forward, WaitEnds, ReplyEnds
<1> QED
  BY <1>1, <1>2, <1>3, <1>4, <1>5 DEF CallStep

LEMMA DoneTyped ==
  ASSUME CallsTypeOK, queue # <<>>, NEW o \in Outcomes, Done(o)
  PROVE  /\ queue' \in Seq(Requests) /\ Len(queue') <= MAX_QUEUE /\ phase' = "turn"
         /\ answer' \in [Requests -> Outcomes]
<1>1. queue \in Seq(Requests) /\ Head(queue) \in Requests /\ answer \in [Requests -> Outcomes]
  BY DEF CallsTypeOK
<1>2. queue' = Tail(queue) /\ Tail(queue) \in Seq(Requests) /\ Len(Tail(queue)) = Len(queue) - 1
  BY <1>1 DEF Done
<1>3. Len(queue) <= MAX_QUEUE /\ MAX_QUEUE \in Nat /\ Len(queue) \in Nat
  BY <1>1, CallsAssumption DEF CallsTypeOK
<1> QED
  BY <1>1, <1>2, <1>3 DEF Done

LEMMA CallTyped == ASSUME LinkInv, CallsTypeOK, CallStep PROVE CallsTypeOK'
<1> USE DEF CallsTypeOK
<1>0. phase # "turn" => queue # <<>>
  OBVIOUS
<1>1. CASE Forward
  BY <1>1, NextIdFits, CallsAssumption DEF Forward
<1>2. CASE WaitEnds
  <2>1. "offline" \in Outcomes /\ queue # <<>>
    BY <1>2, <1>0 DEF Outcomes, WaitEnds
  <2> QED
    BY <1>2, <2>1, DoneTyped DEF WaitEnds
<1>3. CASE ReplyEnds
  <2>1. "timeout" \in Outcomes /\ queue # <<>>
    BY <1>3, <1>0 DEF Outcomes, ReplyEnds
  <2> QED
    BY <1>3, <2>1, DoneTyped DEF ReplyEnds
<1>4. CASE ServeRequest
  <2>1. served' \in [Requests -> Nat]
    <3>1. /\ served' = [served EXCEPT ![Head(down).request] = @ + 1]
          /\ Head(down).request \in Requests
      BY <1>4, ServeFacts
    <3> QED
      BY <3>1
  <2>2. UNCHANGED <<queue, phase, id, answer, evicted>>
    BY <1>4 DEF ServeRequest
  <2> QED
    BY <2>1, <2>2
<1>5. CASE ReplyArrives
  <2>1. Receive /\ Head(upq).type = "E" /\ UNCHANGED <<id, served, evicted>>
    BY <1>5 DEF ReplyArrives
  <2>2. Head(upq).request \in Outcomes
    BY <2>1, LinkReceive DEF UpFrames, Outcomes
  <2>3. CASE Done(Head(upq).request) /\ Matches(Head(upq).id)
    BY <2>1, <2>2, <2>3, <1>0, DoneTyped DEF Matches
  <2>4. CASE UNCHANGED <<queue, phase, answer>>
    BY <2>1, <2>4
  <2> QED
    BY <1>5, <2>3, <2>4 DEF ReplyArrives
<1>6. ASSUME NEW r \in Requests, Ask(r) PROVE CallsTypeOK'
  <2>1. CASE Room /\ queue' = Append(queue, r) /\ UNCHANGED answer
    <3>1. queue' \in Seq(Requests) /\ Len(queue') = Len(queue) + 1 /\ queue' # <<>>
      BY <2>1
    <3>2. Len(queue') <= MAX_QUEUE
      BY <2>1, <3>1, CallsAssumption DEF Room
    <3> QED
      BY <1>6, <2>1, <3>1, <3>2 DEF Ask
  <2>2. CASE answer' = [answer EXCEPT ![r] = "busy"] /\ UNCHANGED queue
    BY <1>6, <2>2 DEF Ask, Outcomes
  <2> QED
    BY <1>6, <2>1, <2>2 DEF Ask
<1> QED
  BY <1>1, <1>2, <1>3, <1>4, <1>5, <1>6 DEF CallStep, Call

LEMMA CallsLinkTyped ==
  ASSUME CallsTypeOK, CallAccepted \/ CallsFail \/ ForgetCalls
  PROVE  CallsTypeOK'
<1> USE DEF CallsTypeOK
<1>1. CASE CallAccepted
  BY <1>1, NextIdFits, CallsAssumption DEF CallAccepted
<1>2. CASE CallsFail
  <2>1. "gone" \in Outcomes
    BY DEF Outcomes
  <2>2. CASE phase = "sent"
    BY <1>2, <2>1, <2>2, DoneTyped DEF CallsFail
  <2>3. CASE phase # "sent"
    BY <1>2, <2>3 DEF CallsFail
  <2> QED
    BY <2>2, <2>3
<1>3. CASE ForgetCalls
  BY <1>3, CallsAssumption DEF ForgetCalls
<1> QED
  BY <1>1, <1>2, <1>3

----------------------------------------------------------------------------
\* The commands' steps, and the types of their state: every place that is
\* remembered, or on its way, is one the topic has.

Known(p) == p # NoSince => p.at <= Len(log) /\ (p.id => p.at >= 1)

PlacesKnown ==
  /\ lastId <= Len(log) /\ stream.at <= Len(log) /\ alarm.len <= Len(log)
  /\ Known(since) /\ Known(alarm.since)
  /\ alarm.at # "idle" => since # NoSince
  /\ alarm.at = "fetch" => alarm.since # NoSince
  /\ ~sock => ~alarm.live
  /\ \A i \in DOMAIN down : down[i].type = "C" => down[i].message <= Len(log)
  /\ \A i \in DOMAIN upq : upq[i].type = "H" => upq[i].since <= Len(log)

CommandsInv == CommandsTypeOK /\ PlacesKnown

CommandStep == Device \/ Worker \/ \E t \in Topics : Publish(t)

LEMMA HelloTyped ==
  ASSUME CommandsInv
  PROVE  /\ Hello \in Seq(UpFrames) /\ DOMAIN Hello = {1}
         /\ Hello[1].type = "H" /\ Hello[1].since <= Len(log)
<1>1. /\ topic \in Wanted /\ lastId \in 0..MaxMessages /\ lastId <= Len(log)
      /\ MaxMessages \in Nat /\ log \in Seq(Topics)
  BY CommandsAssumption DEF CommandsInv, CommandsTypeOK, PlacesKnown
<1> DEFINE n == IF topic = NoTopic THEN 0 ELSE lastId
           h == [type |-> "H", topic |-> topic, since |-> n]
<1>2. n \in 0..MaxMessages /\ n <= Len(log)
  BY <1>1
<1>3. h \in UpFrames
  BY <1>1, <1>2 DEF UpFrames
<1>4. Hello = <<h>> /\ h.type = "H" /\ h.since = n
  BY DEF Hello
<1> HIDE DEF h, n
<1> QED
  BY <1>2, <1>3, <1>4

\* What a poll finds, and what it sends and stores
Found(cut) == {i \in From(alarm.topic, alarm.since) : i <= cut}

Brings(cut) ==
  /\ alarm.live /\ Found(cut) # {}
  /\ \E f \in Seq(DownFrames) :
       /\ Send(f)
       /\ \A i \in DOMAIN f : f[i].type = "C" /\ f[i].message \in Found(cut)
  /\ since' = Message(Max(Found(cut)))
  /\ sent' = sent \cup Found(cut)
  /\ got' = got \cup Found(cut)
  /\ again' = (again \/ (~raced /\ Found(cut) \cap got # {}))

BringsNothing == UNCHANGED <<linkVars, since, sent, got, again>>

LEMMA FoundKnown ==
  ASSUME CommandsInv, NEW cut
  PROVE  /\ Found(cut) \subseteq 1..Len(log) /\ Len(log) \in Nat /\ Len(log) <= MaxMessages
         /\ Found(cut) \subseteq Ids
         /\ IsFiniteSet(Found(cut))
         /\ Found(cut) # {} => /\ Max(Found(cut)) \in Found(cut)
                               /\ \A i \in Found(cut) : i <= Max(Found(cut))
<1>1. log \in Seq(Topics) /\ Len(log) \in Nat /\ Len(log) <= MaxMessages
  BY DEF CommandsInv, CommandsTypeOK
<1>2. Found(cut) \subseteq 1..Len(log)
  BY <1>1 DEF Found, From
<1>3. IsFiniteSet(1..Len(log))
  BY <1>1, FS_Interval
<1>4. IsFiniteSet(Found(cut))
  BY <1>2, <1>3, FS_Subset
<1>5. Found(cut) \subseteq Ids
  BY <1>1, <1>2, CommandsAssumption DEF Ids
<1> HIDE DEF Found
<1>6. Found(cut) # {} => /\ Max(Found(cut)) \in Found(cut)
                         /\ \A i \in Found(cut) : i <= Max(Found(cut))
  <2>1. Found(cut) \in SUBSET Nat /\ \A i \in Found(cut) : i <= Len(log)
    BY <1>1, <1>2
  <2> QED
    BY <1>1, <2>1, MaxIsGreatest
<1> QED
  BY <1>1, <1>2, <1>4, <1>5, <1>6

LEMMA FetchFacts ==
  ASSUME CommandsInv, FetchDone
  PROVE  /\ BringsNothing \/ \E cut \in Nat : Brings(cut)
         /\ alarm.at = "fetch" /\ alarm' = Idle /\ armed' = "soon"
         /\ UNCHANGED <<log, ntfyVars, hello, released, start, raced, late>>
<1>1. PICK cut \in alarm.len .. Len(log) :
        IF alarm.live /\ Found(cut) # {}
        THEN /\ \E order \in InOrder(Found(cut)) :
                  Send([n \in 1..Cardinality(Found(cut)) |-> [type |-> "C", message |-> order[n]]])
             /\ since' = LastOf(Found(cut))
             /\ sent' = sent \cup Found(cut)
             /\ got' = got \cup Found(cut)
             /\ again' = (again \/ (~raced /\ Found(cut) \cap got # {}))
        ELSE UNCHANGED <<linkVars, since, sent, got, again>>
  BY DEF FetchDone, Found
<1>2. cut \in Nat
  BY DEF CommandsInv, CommandsTypeOK
<1>3. CASE ~(alarm.live /\ Found(cut) # {})
  BY <1>1, <1>3 DEF FetchDone, BringsNothing
<1>4. CASE alarm.live /\ Found(cut) # {}
  <2> DEFINE c == Cardinality(Found(cut))
  <2>1. PICK order \in InOrder(Found(cut)) :
          Send([n \in 1..c |-> [type |-> "C", message |-> order[n]]])
    BY <1>1, <1>4
  <2> DEFINE f == [n \in 1..c |-> [type |-> "C", message |-> order[n]]]
  <2>2. c \in Nat /\ order \in [1..c -> Found(cut)]
    BY FoundKnown, FS_CardinalityType DEF InOrder
  <2>3. \A n \in 1..c : order[n] \in Found(cut) /\ order[n] \in Ids
    BY <2>2, FoundKnown
  <2>4. f \in Seq(DownFrames)
    <3>1. \A n \in 1..c : f[n] \in DownFrames
      BY <2>3 DEF DownFrames
    <3> HIDE DEF c
    <3> QED
      BY <2>2, <3>1
  <2>5. \A i \in DOMAIN f : f[i].type = "C" /\ f[i].message \in Found(cut)
    BY <2>3
  <2>6. Send(f)
    BY <2>1
  <2> HIDE DEF f
  <2>7. \E g \in Seq(DownFrames) :
          Send(g) /\ \A i \in DOMAIN g : g[i].type = "C" /\ g[i].message \in Found(cut)
    BY <2>4, <2>5, <2>6
  <2>8. Brings(cut)
    BY <1>1, <1>4, <2>7 DEF Brings, LastOf
  <2> QED
    BY <1>2, <2>8 DEF FetchDone
<1> QED
  BY <1>3, <1>4

LEMMA CommandLink ==
  ASSUME LinkInv, CommandsInv, CommandStep
  PROVE  LinkInv' /\ Kept("R") /\ Kept("E") /\ UNCHANGED <<dev, sock>>
<1>1. CASE UNCHANGED linkVars
  BY <1>1, LinkStays DEF linkVars
<1>2. CASE HelloAgain
  <2>1. Tell(Hello) /\ UNCHANGED <<dev, sock>>
    BY <1>2 DEF HelloAgain, Tell
  <2>2. \A i \in DOMAIN Hello : Hello[i].type # "R" /\ Hello[i].type # "E"
    BY HelloTyped
  <2> QED
    BY <2>1, <2>2, HelloTyped, LinkTell
<1>3. CASE CommandArrives
  <2>1. Pump(<<>>) /\ UNCHANGED <<dev, sock>>
    BY <1>3 DEF CommandArrives, Pump, Up
  <2>2. <<>> \in Seq(UpFrames) /\ DOMAIN <<>> = {}
    OBVIOUS
  <2> QED
    BY <2>1, <2>2, LinkPump
<1>4. CASE HelloArrives
  BY <1>4, LinkReceive DEF HelloArrives, Receive
<1>5. CASE FetchDone
  <2>1. CASE BringsNothing
    BY <1>1, <2>1 DEF BringsNothing
  <2>2. ASSUME NEW cut \in Nat, Brings(cut) PROVE LinkInv' /\ Kept("R") /\ Kept("E") /\ UNCHANGED <<dev, sock>>
    <3>1. PICK f \in Seq(DownFrames) :
            Send(f) /\ \A i \in DOMAIN f : f[i].type = "C" /\ f[i].message \in Found(cut)
      BY <2>2 DEF Brings
    <3>2. \A i \in DOMAIN f : f[i].type # "R" /\ f[i].type # "E"
      BY <3>1
    <3> QED
      BY <3>1, <3>2, LinkSend DEF Send
  <2> QED
    BY <1>5, <2>1, <2>2, FetchFacts
<1>6. ASSUME NEW t, Publish(t) \/ SaveTopic(t) PROVE UNCHANGED linkVars
  BY <1>6 DEF Publish, SaveTopic
<1>7. SaveToken \/ GraceEnds \/ StreamOpens \/ StreamCloses \/ StreamReads \/ AlarmFires \/ ReleaseEnds \/ FetchFails
      => UNCHANGED linkVars
  BY DEF SaveToken, GraceEnds, StreamOpens, StreamCloses, StreamReads, AlarmFires,
         ReleaseEnds, FetchFails
<1> QED
  BY <1>1, <1>2, <1>3, <1>4, <1>5, <1>6, <1>7 DEF CommandStep, Device, Worker

FramesKnown ==
  /\ \A i \in DOMAIN down : down[i].type = "C" => down[i].message <= Len(log)
  /\ \A i \in DOMAIN upq : upq[i].type = "H" => upq[i].since <= Len(log)

LEMMA LogGrows ==
  ASSUME CommandsInv, UNCHANGED log \/ \E t \in Topics : Publish(t)
  PROVE  /\ log' \in Seq(Topics) /\ Len(log') \in Nat /\ Len(log) \in Nat
         /\ Len(log) <= Len(log') /\ Len(log') <= MaxMessages
         /\ \A i \in DOMAIN log : i \in DOMAIN log' /\ log'[i] = log[i]
<1>1. log \in Seq(Topics) /\ Len(log) <= MaxMessages
  BY DEF CommandsInv, CommandsTypeOK
<1>2. CASE UNCHANGED log
  BY <1>1, <1>2
<1>3. ASSUME NEW t \in Topics, Publish(t)
      PROVE  /\ log' \in Seq(Topics) /\ Len(log') = Len(log) + 1 /\ Len(log') <= MaxMessages
             /\ \A i \in DOMAIN log : i \in DOMAIN log' /\ log'[i] = log[i]
  BY <1>1, <1>3, CommandsAssumption DEF Publish
<1> QED
  BY <1>1, <1>2, <1>3

LEMMA OldKnown ==
  ASSUME LinkInv, LinkInv', FramesKnown, Len(log) \in Nat, Len(log') \in Nat, Len(log) <= Len(log'),
         OldFrames(down, down', "C"), OldFrames(upq, upq', "H")
  PROVE  FramesKnown'
<1>1. \A i \in DOMAIN down : down[i].type = "C" => down[i].message \in Nat
  <2>1. \A i \in DOMAIN down : down[i] \in DownFrames
    BY DEF LinkInv
  <2> QED
    BY <2>1 DEF DownFrames, Ids
<1>2. \A i \in DOMAIN upq : upq[i].type = "H" => upq[i].since \in Nat
  <2>1. \A i \in DOMAIN upq : upq[i] \in UpFrames
    BY DEF LinkInv
  <2> QED
    BY <2>1 DEF UpFrames
<1>3. \A i \in DOMAIN down' : down'[i].type = "C" => down'[i].message <= Len(log')
  BY <1>1 DEF OldFrames, FramesKnown
<1>4. \A i \in DOMAIN upq' : upq'[i].type = "H" => upq'[i].since <= Len(log')
  BY <1>2 DEF OldFrames, FramesKnown
<1> QED
  BY <1>3, <1>4 DEF FramesKnown

\* What the commands keep of their places when neither log nor places change
LEMMA PlacesStay ==
  ASSUME CommandsInv, FramesKnown',
         UNCHANGED <<log, since, hello, lastId, topic, changes, released, armed, seenVars>>,
         grace' \in BOOLEAN, told' \in BOOLEAN,
         stream' = stream \/ stream' = Closed, stream'.open => ~dev',
         alarm' = alarm \/ SocketGone, ~sock' => ~alarm'.live
  PROVE  CommandsInv'
<1>1. CommandsTypeOK /\ Known(since) /\ Known(alarm.since)
  BY DEF CommandsInv, PlacesKnown
<1>2. /\ stream' \in [open : BOOLEAN, topic : Wanted, at : 0..MaxMessages]
      /\ stream'.at <= Len(log)
  <2>1. stream \in [open : BOOLEAN, topic : Wanted, at : 0..MaxMessages] /\ stream.at <= Len(log)
    BY DEF CommandsInv, CommandsTypeOK, PlacesKnown
  <2>2. Closed \in [open : BOOLEAN, topic : Wanted, at : 0..MaxMessages] /\ Closed.at = 0
    BY CommandsAssumption DEF Closed, Wanted
  <2>3. 0 <= Len(log)
    BY <1>1 DEF CommandsTypeOK
  <2> QED
    BY <2>1, <2>2, <2>3
<1>3. /\ alarm' \in [at : {"idle", "release", "fetch"}, live : BOOLEAN, topic : Wanted,
                     since : Places \cup {NoSince}, len : 0..MaxMessages]
      /\ alarm'.at = alarm.at /\ alarm'.since = alarm.since /\ alarm'.len = alarm.len
  BY DEF CommandsInv, CommandsTypeOK, SocketGone
<1>4. CommandsTypeOK'
  BY <1>1, <1>2, <1>3 DEF CommandsTypeOK, seenVars
<1>5. /\ lastId' <= Len(log') /\ stream'.at <= Len(log') /\ alarm'.len <= Len(log')
      /\ alarm'.at # "idle" => since' # NoSince
      /\ alarm'.at = "fetch" => alarm'.since # NoSince
  BY <1>2, <1>3 DEF CommandsInv, PlacesKnown
<1>6. (Known(since))' /\ (Known(alarm.since))'
  BY <1>1, <1>3 DEF Known
<1> QED
  BY <1>4, <1>5, <1>6 DEF CommandsInv, PlacesKnown, FramesKnown

LEMMA InvFrames == ASSUME CommandsInv PROVE FramesKnown /\ Len(log) \in Nat
BY DEF CommandsInv, PlacesKnown, FramesKnown, CommandsTypeOK

\* Steps of the link, and of the calls
LEMMA LinkKnown ==
  ASSUME LinkInv, LinkInv', CommandsInv, Kept("C"), Kept("H"),
         \/ UNCHANGED <<commandVars, dev, sock>>
         \/ DeviceCloses /\ CommandsUnlinked
         \/ SocketCloses /\ CommandsSocketLost
  PROVE  CommandsInv'
<1>1. UNCHANGED log
  BY DEF commandVars, CommandsUnlinked, CommandsSocketLost
<1>2. FramesKnown'
  BY <1>1, InvFrames, OldKnown DEF Kept
<1>3. CASE UNCHANGED <<commandVars, dev, sock>>
  BY <1>2, <1>3, PlacesStay DEF commandVars, ntfyVars, pollVars, seenVars, CommandsInv, CommandsTypeOK, PlacesKnown
<1>4. CASE DeviceCloses /\ CommandsUnlinked
  BY <1>2, <1>4, PlacesStay DEF DeviceCloses, CommandsUnlinked, pollVars, seenVars, CommandsInv, PlacesKnown
<1>5. CASE SocketCloses /\ CommandsSocketLost
  <2>1. SocketGone => ~alarm'.live
    BY DEF SocketGone, CommandsInv, CommandsTypeOK
  <2> QED
    BY <1>2, <1>5, <2>1, PlacesStay
       DEF SocketCloses, CommandsSocketLost, ntfyVars, seenVars, CommandsInv, CommandsTypeOK
<1> QED
  BY <1>3, <1>4, <1>5

LEMMA ConnectKnown ==
  ASSUME LinkInv, CallsTypeOK, CommandsInv, Connect \/ ConnectFails
  PROVE  LinkInv' /\ CommandsInv'
<1>1. Waiting \in Seq(DownFrames) /\ \A i \in DOMAIN Waiting : Waiting[i].type = "R"
  <2>1. CASE phase = "socket"
    <3>1. queue # <<>>
      BY <2>1 DEF CallsTypeOK
    <3> QED
      BY <2>1, <3>1, FrameTyped DEF Waiting
  <2>2. CASE phase # "socket"
    BY <2>2 DEF Waiting
  <2> QED
    BY <2>1, <2>2
<1>2. PICK ok \in BOOLEAN, f \in Seq(DownFrames), g \in Seq(UpFrames) :
        /\ Accept(ok, f, g) /\ CommandsAccepted(ok)
        /\ \A i \in DOMAIN f : f[i].type = "R"
        /\ \A i \in DOMAIN g : g[i].type = "H" => g[i].since <= Len(log)
  <2>1. CASE Connect
    <3>1. \A i \in DOMAIN Hello : Hello[i].since <= Len(log)
      BY HelloTyped
    <3> QED
      BY <1>1, <2>1, <3>1, HelloTyped DEF Connect
  <2>2. CASE ConnectFails
    <3>1. <<>> \in Seq(DownFrames) /\ <<>> \in Seq(UpFrames) /\ DOMAIN <<>> = {}
      OBVIOUS
    <3> QED
      BY <2>2, <3>1 DEF ConnectFails
  <2> QED
    BY <2>1, <2>2
<1>3. LinkInv'
  BY <1>2, LinkAccept
<1>4. /\ down' = f \/ down' = <<>>
      /\ upq' = g \/ upq' = <<>>
      /\ sock' /\ UNCHANGED log
  BY <1>2 DEF Accept, CommandsAccepted
<1>5. FramesKnown'
  BY <1>2, <1>4 DEF FramesKnown
<1>6. SocketGone => ~alarm'.live
  BY DEF SocketGone, CommandsInv, CommandsTypeOK
<1>7. CommandsInv'
  <2>1. stream' = Closed /\ ~stream'.open
    BY <1>2 DEF CommandsAccepted, Closed
  <2>2. told' \in BOOLEAN /\ grace' \in BOOLEAN
    BY <1>2 DEF CommandsAccepted, CommandsInv, CommandsTypeOK
  <2> QED
    BY <1>2, <1>4, <1>5, <1>6, <2>1, <2>2, PlacesStay DEF CommandsAccepted
<1> QED
  BY <1>3, <1>7

LEMMA BootKnown ==
  ASSUME LinkInv, CommandsInv, Boot
  PROVE  LinkInv' /\ CommandsInv'
<1>1. /\ dev' = FALSE /\ down' = <<>> /\ UNCHANGED <<sock, upq, closes, conns>> /\ CommandsBoot
  BY DEF Boot
<1>2. LinkInv' /\ Kept("C") /\ Kept("H")
  BY <1>1, LinkBoots
<1>3. FramesKnown'
  BY <1>1, <1>2, InvFrames, OldKnown DEF Kept, CommandsBoot
<1>4. /\ told' = TRUE /\ lastId' = 0 /\ grace' = TRUE /\ stream' = Closed
      /\ UNCHANGED <<log, topic, changes, pollVars, seenVars>>
  BY <1>1 DEF CommandsBoot
<1>5. Closed \in [open : BOOLEAN, topic : Wanted, at : 0..MaxMessages] /\ Closed.at = 0 /\ ~Closed.open
  BY CommandsAssumption DEF Closed, Wanted
<1>6. CommandsTypeOK'
  BY <1>4, <1>5, CommandsAssumption DEF CommandsInv, CommandsTypeOK, pollVars, seenVars
<1>7. (Known(since))' /\ (Known(alarm.since))'
  BY <1>4 DEF CommandsInv, PlacesKnown, Known, pollVars
<1>8. /\ lastId' <= Len(log') /\ stream'.at <= Len(log') /\ alarm'.len <= Len(log')
      /\ alarm'.at # "idle" => since' # NoSince
      /\ alarm'.at = "fetch" => alarm'.since # NoSince
      /\ ~sock' => ~alarm'.live
  BY <1>1, <1>4, <1>5, InvFrames DEF CommandsInv, PlacesKnown, pollVars
<1> QED
  BY <1>2, <1>3, <1>6, <1>7, <1>8 DEF CommandsInv, PlacesKnown, FramesKnown

LEMMA TellKnown ==
  ASSUME LinkInv, CommandsInv, Tell(Hello), UNCHANGED log
  PROVE  LinkInv' /\ FramesKnown'
<1>1. Hello \in Seq(UpFrames) /\ \A i \in DOMAIN Hello : Hello[i].since <= Len(log)
  BY HelloTyped
<1>2. LinkInv'
  BY <1>1, LinkTell
<1>3. down' = down /\ (upq' = upq \/ upq' = upq \o Hello) /\ upq \in Seq(UpFrames)
  BY DEF Tell, Up, LinkInv
<1>4. \A i \in DOMAIN (upq \o Hello) :
        \/ i \in DOMAIN upq /\ (upq \o Hello)[i] = upq[i]
        \/ i - Len(upq) \in DOMAIN Hello /\ (upq \o Hello)[i] = Hello[i - Len(upq)]
  BY <1>1, <1>3
<1> QED
  BY <1>1, <1>2, <1>3, <1>4, InvFrames DEF FramesKnown

LEMMA SendKnown ==
  ASSUME LinkInv, CommandsInv, NEW f \in Seq(DownFrames), Send(f), UNCHANGED log,
         \A i \in DOMAIN f : f[i].message <= Len(log)
  PROVE  LinkInv' /\ FramesKnown'
<1>1. LinkInv'
  BY LinkSend
<1>2. upq' = upq /\ (down' = down \/ down' = down \o f) /\ down \in Seq(DownFrames)
  BY DEF Send, Down, LinkInv
<1>3. \A i \in DOMAIN (down \o f) :
        \/ i \in DOMAIN down /\ (down \o f)[i] = down[i]
        \/ i - Len(down) \in DOMAIN f /\ (down \o f)[i] = f[i - Len(down)]
  BY <1>2
<1> QED
  BY <1>1, <1>2, <1>3, InvFrames DEF FramesKnown

\* The frames after each step of the commands
LEMMA CommandFrames ==
  ASSUME LinkInv, CommandsInv, CommandStep
  PROVE  FramesKnown'
<1>1. UNCHANGED log \/ \E t \in Topics : Publish(t)
  BY DEF CommandStep, Device, Worker, SaveTopic, SaveToken, HelloAgain, CommandArrives, GraceEnds,
         StreamOpens, StreamCloses, StreamReads, HelloArrives, AlarmFires,
         ReleaseEnds, FetchDone, FetchFails
<1>2. LinkInv' /\ Len(log) \in Nat /\ Len(log') \in Nat /\ Len(log) <= Len(log')
  BY <1>1, CommandLink, LogGrows
<1>3. ASSUME OldFrames(down, down', "C"), OldFrames(upq, upq', "H") PROVE FramesKnown'
  BY <1>2, <1>3, InvFrames, OldKnown
<1>4. CASE UNCHANGED linkVars
  BY <1>3, <1>4, LinkStays DEF Kept
<1>5. CASE HelloAgain
  BY <1>5, TellKnown DEF HelloAgain
<1>6. CASE CommandArrives
  <2>1. Pump(<<>>) /\ <<>> \in Seq(UpFrames) /\ DOMAIN <<>> = {}
    BY <1>6 DEF CommandArrives
  <2> QED
    BY <1>3, <2>1, LinkPump DEF Kept
<1>7. CASE HelloArrives
  BY <1>3, <1>7, LinkReceive DEF Kept, HelloArrives
<1>8. CASE FetchDone
  <2>1. CASE BringsNothing
    BY <1>4, <2>1 DEF BringsNothing
  <2>2. ASSUME NEW cut \in Nat, Brings(cut) PROVE FramesKnown'
    <3>1. PICK f \in Seq(DownFrames) :
            Send(f) /\ \A i \in DOMAIN f : f[i].type = "C" /\ f[i].message \in Found(cut)
      BY <2>2 DEF Brings
    <3>2. \A i \in DOMAIN f : f[i].message <= Len(log)
      BY <3>1, FoundKnown
    <3> QED
      BY <1>8, <3>1, <3>2, SendKnown DEF FetchDone
  <2> QED
    BY <1>8, <2>1, <2>2, FetchFacts
<1>9. ASSUME NEW t, Publish(t) \/ SaveTopic(t) PROVE UNCHANGED linkVars
  BY <1>9 DEF Publish, SaveTopic
<1>10. SaveToken \/ GraceEnds \/ StreamOpens \/ StreamCloses \/ StreamReads \/ AlarmFires \/ ReleaseEnds \/ FetchFails
       => UNCHANGED linkVars
  BY DEF SaveToken, GraceEnds, StreamOpens, StreamCloses, StreamReads, AlarmFires,
         ReleaseEnds, FetchFails
<1> QED
  BY <1>4, <1>5, <1>6, <1>7, <1>8, <1>9, <1>10 DEF CommandStep, Device, Worker

Streams == [open : BOOLEAN, topic : Wanted, at : 0..MaxMessages]
Alarms == [at : {"idle", "release", "fetch"}, live : BOOLEAN, topic : Wanted,
           since : Places \cup {NoSince}, len : 0..MaxMessages]

\* The device's part of a step: what it needs to keep its places known
LEMMA DevicePlaces ==
  ASSUME CommandsInv, FramesKnown', UNCHANGED <<log, pollVars, seenVars, dev, sock>>,
         topic' \in Wanted, told' \in BOOLEAN, grace' \in BOOLEAN, changes' \in 0..MaxChanges,
         lastId' \in 0..MaxMessages, lastId' <= Len(log),
         stream' \in Streams, stream'.at <= Len(log), stream'.open => ~dev
  PROVE  CommandsInv'
<1>1. CommandsTypeOK'
  BY DEF CommandsInv, CommandsTypeOK, Streams, pollVars, seenVars
<1>2. (Known(since))' /\ (Known(alarm.since))'
  BY DEF CommandsInv, PlacesKnown, Known, pollVars
<1> QED
  BY <1>1, <1>2 DEF CommandsInv, PlacesKnown, FramesKnown, pollVars

LEMMA DeviceKnown ==
  ASSUME LinkInv, CommandsInv, Device
  PROVE  CommandsInv'
<1>1. FramesKnown' /\ UNCHANGED <<dev, sock>>
  BY CommandFrames, CommandLink DEF CommandStep
<1>2. /\ topic \in Wanted /\ told \in BOOLEAN /\ grace \in BOOLEAN /\ changes \in 0..MaxChanges
      /\ lastId \in 0..MaxMessages /\ lastId <= Len(log) /\ log \in Seq(Topics)
      /\ Len(log) \in Nat /\ Len(log) <= MaxMessages
      /\ stream \in Streams /\ stream.at <= Len(log) /\ (stream.open => ~dev)
      /\ stream.topic \in Wanted /\ stream.at \in Nat
  BY DEF CommandsInv, CommandsTypeOK, PlacesKnown, Streams
<1>3. Closed \in Streams /\ Closed.at = 0 /\ ~Closed.open
  BY CommandsAssumption DEF Closed, Wanted, Streams
<1>4. ASSUME NEW t \in Wanted, SaveTopic(t) PROVE CommandsInv'
  <2>1. /\ topic' = t /\ changes' \in 0..MaxChanges /\ told' \in BOOLEAN
        /\ lastId' \in 0..MaxMessages /\ lastId' <= Len(log)
        /\ stream' = stream \/ stream' = Closed
        /\ UNCHANGED <<log, grace, pollVars, seenVars>>
    BY <1>2, <1>4, CommandsAssumption DEF SaveTopic
  <2> QED
    BY <1>1, <1>2, <1>3, <2>1, DevicePlaces
<1>5. CASE SaveToken
  <2>1. /\ changes' \in 0..MaxChanges
        /\ told' = FALSE /\ UNCHANGED <<log, topic, lastId, grace, stream, pollVars, seenVars>>
    BY <1>2, <1>5, CommandsAssumption DEF SaveToken
  <2> QED
    BY <1>1, <1>2, <2>1, DevicePlaces
<1>6. CASE HelloAgain
  BY <1>1, <1>2, <1>6, DevicePlaces DEF HelloAgain
<1>7. CASE CommandArrives
  <2>1. /\ Head(down) = down[1] /\ Head(down) \in DownFrames /\ Head(down).type = "C" /\ 1 \in DOMAIN down
    <3>1. Pump(<<>>) /\ down # <<>> /\ Head(down).type = "C"
      BY <1>7 DEF CommandArrives
    <3>2. down \in Seq(DownFrames)
      BY DEF LinkInv
    <3> QED
      BY <3>1, <3>2
  <2>2. Head(down).message \in Ids /\ Head(down).message <= Len(log)
    BY <2>1, InvFrames DEF FramesKnown, DownFrames
  <2>3. lastId' \in 0..MaxMessages /\ lastId' <= Len(log)
    BY <1>2, <1>7, <2>2 DEF CommandArrives, Ids
  <2> QED
    BY <1>1, <1>2, <1>7, <2>3, DevicePlaces DEF CommandArrives
<1>8. CASE GraceEnds
  BY <1>1, <1>2, <1>8, DevicePlaces DEF GraceEnds
<1>9. CASE StreamOpens
  <2>1. StreamFrom \in 0..MaxMessages /\ StreamFrom <= Len(log)
    BY <1>2, CommandsAssumption DEF StreamFrom
  <2>2. ~dev /\ stream' = [open |-> TRUE, topic |-> topic, at |-> StreamFrom]
    BY <1>9 DEF StreamOpens
  <2>3. stream' \in Streams /\ stream'.at <= Len(log)
    BY <1>2, <2>1, <2>2 DEF Streams
  <2> QED
    BY <1>1, <1>2, <1>9, <2>2, <2>3, DevicePlaces DEF StreamOpens
<1>10. CASE StreamCloses
  BY <1>1, <1>2, <1>3, <1>10, DevicePlaces DEF StreamCloses
<1>11. CASE StreamReads
  <2>1. InStream \subseteq DOMAIN log /\ InStream # {}
    <3>1. InStream \subseteq DOMAIN log
      BY DEF InStream, From
    <3>2. InStream # {}
      BY <1>11 DEF StreamReads
    <3> QED
      BY <3>1, <3>2
  <2>2. Min(InStream) \in 1..Len(log)
    <3>1. DOMAIN log = 1..Len(log) /\ InStream \in SUBSET Nat
      BY <1>2, <2>1
    <3> HIDE DEF InStream
    <3> QED
      BY <2>1, <3>1, MinIsLeast
  <2>3. Min(InStream) \in 0..MaxMessages /\ Min(InStream) <= Len(log)
    BY <1>2, <2>2, CommandsAssumption
  <2>4. stream' = [stream EXCEPT !.at = Min(InStream)] /\ lastId' = Min(InStream)
    BY <1>11 DEF StreamReads
  <2>5. stream' \in Streams /\ stream'.at = Min(InStream) /\ stream'.open = stream.open
    BY <1>2, <2>3, <2>4 DEF Streams
  <2> QED
    BY <1>1, <1>2, <1>11, <2>3, <2>4, <2>5, DevicePlaces DEF StreamReads
<1> QED
  BY <1>4, <1>5, <1>6, <1>7, <1>8, <1>9, <1>10, <1>11 DEF Device

LEMMA PublishKnown ==
  ASSUME LinkInv, CommandsInv, NEW t \in Topics, Publish(t)
  PROVE  CommandsInv'
<1>1. FramesKnown' /\ UNCHANGED <<dev, sock>>
  BY CommandFrames, CommandLink DEF CommandStep
<1>2. /\ log' \in Seq(Topics) /\ Len(log') \in Nat /\ Len(log) \in Nat
      /\ Len(log) <= Len(log') /\ Len(log') <= MaxMessages
  BY LogGrows
<1>3. UNCHANGED <<ntfyVars, pollVars, seenVars>>
  BY DEF Publish
<1>4. CommandsTypeOK'
  BY <1>1, <1>2, <1>3 DEF CommandsInv, CommandsTypeOK, ntfyVars, pollVars, seenVars
<1>5. /\ since \in Places \cup {NoSince} /\ alarm.since \in Places \cup {NoSince}
      /\ stream.at \in Nat /\ alarm.len \in Nat /\ lastId \in Nat
  BY DEF CommandsInv, CommandsTypeOK
<1>6. ASSUME NEW p \in Places \cup {NoSince}, Known(p) PROVE p # NoSince => p.at <= Len(log') /\ (p.id => p.at >= 1)
  BY <1>2, <1>6 DEF Known, Places
<1>7. (Known(since))' /\ (Known(alarm.since))'
  <2>1. since' = since /\ alarm' = alarm
    BY <1>3 DEF pollVars
  <2> QED
    BY <1>5, <1>6, <2>1 DEF CommandsInv, PlacesKnown, Known
<1>8. lastId' <= Len(log') /\ stream'.at <= Len(log') /\ alarm'.len <= Len(log')
  BY <1>2, <1>3, <1>5 DEF CommandsInv, PlacesKnown, ntfyVars, pollVars
<1> QED
  BY <1>1, <1>3, <1>4, <1>7, <1>8 DEF CommandsInv, PlacesKnown, FramesKnown, pollVars

\* What a hello does, with h the frame
Anew(h) == h.since # 0 \/ since = NoSince \/ hello # h.topic

HelloSays(h) ==
  /\ h \in [type : {"H"}, topic : Wanted, since : 0..MaxMessages] /\ h.since <= Len(log)
  /\ hello' = h.topic /\ since' = PlaceAfter(h)
  /\ start' = IF Anew(h) THEN PlaceAfter(h).at ELSE start
  /\ raced' = ((raced /\ ~Anew(h)) \/ Races(h))
  /\ got' = IF h.since = 0 THEN got ELSE got \ From(h.topic, Message(h.since))
  /\ late' = (alarm.at = "release" /\ alarm.topic = NoTopic)
  /\ released' = FALSE /\ armed' = "soon"
  /\ UNCHANGED <<log, ntfyVars, alarm, sent, again>>

LEMMA HelloFacts ==
  ASSUME LinkInv, CommandsInv, HelloArrives
  PROVE  \E h : HelloSays(h)
<1>1. Receive /\ Head(upq).type = "H"
  BY DEF HelloArrives
<1>2. Head(upq) = upq[1] /\ Head(upq) \in UpFrames /\ 1 \in DOMAIN upq
  BY <1>1, LinkReceive
<1>3. Head(upq) \in [type : {"H"}, topic : Wanted, since : 0..MaxMessages] /\ Head(upq).since <= Len(log)
  BY <1>1, <1>2, InvFrames DEF FramesKnown, UpFrames
<1> QED
  BY <1>3 DEF HelloArrives, HelloSays, Anew, Soon

LEMMA PlaceAfterKnown ==
  ASSUME CommandsInv, NEW h \in [type : {"H"}, topic : Wanted, since : 0..MaxMessages],
         h.since <= Len(log)
  PROVE  PlaceAfter(h) \in Places /\ Known(PlaceAfter(h))
<1>1. /\ Len(log) \in Nat /\ Len(log) <= MaxMessages /\ h.since \in 0..MaxMessages
      /\ since \in Places \cup {NoSince} /\ Known(since)
  BY DEF CommandsInv, CommandsTypeOK, PlacesKnown
<1>2. Moment \in Places /\ Known(Moment)
  BY <1>1, CommandsAssumption DEF Moment, Places, Known
<1>3. h.since # 0 => Message(h.since) \in Places /\ Known(Message(h.since))
  BY <1>1 DEF Message, Places, Known
<1> QED
  BY <1>1, <1>2, <1>3 DEF PlaceAfter

\* The Worker's part of a step
LEMMA WorkerPlaces ==
  ASSUME CommandsInv, FramesKnown', UNCHANGED <<log, ntfyVars, dev, sock>>,
         hello' \in Wanted, since' \in Places \cup {NoSince}, Known(since'),
         released' \in BOOLEAN, armed' \in {"no", "soon", "hour"},
         alarm' \in Alarms, Known(alarm'.since), alarm'.len <= Len(log),
         alarm'.at # "idle" => since' # NoSince,
         alarm'.at = "fetch" => alarm'.since # NoSince, ~sock => ~alarm'.live,
         sent' \subseteq Ids, got' \subseteq Ids, again' \in BOOLEAN,
         start' \in 0..MaxMessages, raced' \in BOOLEAN, late' \in BOOLEAN
  PROVE  CommandsInv'
<1>1. CommandsTypeOK'
  BY DEF CommandsInv, CommandsTypeOK, Alarms, ntfyVars
<1>2. (Known(since))' /\ (Known(alarm.since))'
  BY DEF Known
<1> QED
  BY <1>1, <1>2 DEF CommandsInv, PlacesKnown, FramesKnown, ntfyVars

\* What the alarm's handler does up to the poll
LooksAt(t, live) ==
  /\ UNCHANGED <<linkVars, log, ntfyVars, hello, since, seenVars>>
  /\ \/ t = NoTopic /\ alarm' = Idle /\ armed' = "hour"
     \/ /\ t # NoTopic /\ armed' \in {"no", armed}
        /\ alarm' = [at |-> "fetch", live |-> live, topic |-> t, since |-> since, len |-> Len(log)]

ChecksRelease ==
  /\ UNCHANGED <<linkVars, log, ntfyVars, hello, since, released, seenVars>>
  /\ sock /\ since # NoSince /\ armed' = "no"
  /\ alarm' = [at |-> "release", live |-> TRUE, topic |-> hello, since |-> NoSince, len |-> 0]

PollingEnds ==
  /\ UNCHANGED <<linkVars, log, ntfyVars, hello, since, released, alarm, seenVars>>
  /\ (~sock \/ since = NoSince) /\ armed' = "no"

LEMMA AlarmKinds ==
  ASSUME AlarmFires
  PROVE  \/ PollingEnds \/ ChecksRelease
         \/ LooksAt(hello, TRUE) /\ sock /\ since # NoSince /\ UNCHANGED released
<1>1. CASE PollingEnds
  BY <1>1
<1>2. CASE sock /\ since # NoSince /\ armed' = "no"
           /\ alarm' = [Idle EXCEPT !.at = "release", !.live = TRUE, !.topic = hello]
  BY <1>2 DEF AlarmFires, ChecksRelease, Idle
<1>3. CASE sock /\ since # NoSince /\ Looks(hello, TRUE)
  BY <1>3 DEF AlarmFires, Looks, LooksAt
<1> QED
  BY <1>1, <1>2, <1>3 DEF AlarmFires, PollingEnds

LEMMA ReleaseFacts ==
  ASSUME ReleaseEnds
  PROVE  alarm.at = "release" /\ released' = TRUE /\ LooksAt(alarm.topic, alarm.live)
BY DEF ReleaseEnds, Looks, LooksAt

LEMMA WorkerKnown ==
  ASSUME LinkInv, CommandsInv, Worker
  PROVE  CommandsInv'
<1>1. FramesKnown' /\ UNCHANGED <<dev, sock>>
  BY CommandFrames, CommandLink DEF CommandStep
<1>2. /\ hello \in Wanted /\ since \in Places \cup {NoSince} /\ Known(since)
      /\ released \in BOOLEAN /\ armed \in {"no", "soon", "hour"}
      /\ alarm \in Alarms /\ Known(alarm.since) /\ alarm.len <= Len(log)
      /\ (alarm.at # "idle" => since # NoSince)
      /\ (alarm.at = "fetch" => alarm.since # NoSince) /\ (~sock => ~alarm.live)
      /\ sent \subseteq Ids /\ got \subseteq Ids /\ again \in BOOLEAN
      /\ start \in 0..MaxMessages /\ raced \in BOOLEAN /\ late \in BOOLEAN
      /\ log \in Seq(Topics) /\ Len(log) \in Nat /\ Len(log) <= MaxMessages
  BY DEF CommandsInv, CommandsTypeOK, PlacesKnown, Alarms
<1>3. Idle \in Alarms /\ Idle.since = NoSince /\ Idle.len = 0 /\ Idle.at = "idle" /\ ~Idle.live
  BY CommandsAssumption DEF Idle, Alarms, Wanted
<1>4. Known(Idle.since) /\ Idle.len <= Len(log)
  BY <1>2, <1>3 DEF Known
<1>5. CASE HelloArrives
  <2>1. PICK h : HelloSays(h)
    BY <1>5, HelloFacts
  <2>2. /\ h \in [type : {"H"}, topic : Wanted, since : 0..MaxMessages] /\ h.since <= Len(log)
        /\ hello' = h.topic /\ since' = PlaceAfter(h)
        /\ start' = start \/ start' = PlaceAfter(h).at
        /\ released' = FALSE /\ armed' = "soon"
        /\ UNCHANGED <<log, ntfyVars, alarm, sent, again>>
    BY <2>1 DEF HelloSays
  <2>3. since' \in Places /\ Known(since') /\ PlaceAfter(h).at \in 0..MaxMessages
    BY <2>2, PlaceAfterKnown DEF Places
  <2>4. start' \in 0..MaxMessages /\ hello' \in Wanted
    BY <1>2, <2>2, <2>3
  <2>5. since' # NoSince
    <3>1. Places \subseteq [id : BOOLEAN, at : Nat]
      BY DEF Places
    <3> QED
      BY <2>3, <3>1, CommandsAssumption
  <2>6. raced' \in BOOLEAN /\ late' \in BOOLEAN
    BY <2>1 DEF HelloSays
  <2>7. got' \subseteq got
    BY <2>1 DEF HelloSays
  <2> QED
    BY <1>1, <1>2, <2>2, <2>3, <2>4, <2>5, <2>6, <2>7, WorkerPlaces
<1>6. ASSUME NEW t \in Wanted, NEW live \in BOOLEAN, LooksAt(t, live), since # NoSince, sock \/ ~live,
             released' \in BOOLEAN
      PROVE  CommandsInv'
  <2>1. /\ armed' \in {"no", "soon", "hour"}
        /\ UNCHANGED <<log, ntfyVars, hello, since, seenVars>>
    BY <1>2, <1>6 DEF LooksAt
  <2>2. CASE alarm' = Idle
    BY <1>1, <1>2, <1>3, <1>4, <1>6, <2>1, <2>2, WorkerPlaces DEF seenVars
  <2>3. CASE alarm' = [at |-> "fetch", live |-> live, topic |-> t, since |-> since, len |-> Len(log)]
    <3>1. alarm' \in Alarms /\ alarm'.since = since /\ alarm'.len = Len(log) /\ alarm'.live = live
      BY <1>2, <1>6, <2>3, CommandsAssumption DEF Alarms
    <3> QED
      BY <1>1, <1>2, <1>6, <2>1, <3>1, WorkerPlaces DEF seenVars
  <2> QED
    BY <1>6, <2>2, <2>3 DEF LooksAt
<1>7. CASE PollingEnds
  BY <1>1, <1>2, <1>7, WorkerPlaces DEF PollingEnds, seenVars
<1>8. CASE ChecksRelease
  <2>1. /\ alarm' \in Alarms /\ alarm'.since = NoSince /\ alarm'.len = 0 /\ alarm'.at = "release"
        /\ sock /\ since # NoSince /\ armed' = "no"
        /\ UNCHANGED <<log, ntfyVars, hello, since, released, seenVars>>
    BY <1>2, <1>8, CommandsAssumption DEF ChecksRelease, Alarms
  <2>2. Known(alarm'.since) /\ alarm'.len <= Len(log)
    BY <1>2, <2>1 DEF Known
  <2> QED
    BY <1>1, <1>2, <2>1, <2>2, WorkerPlaces DEF seenVars
<1>9. CASE AlarmFires
  BY <1>2, <1>6, <1>7, <1>8, <1>9, AlarmKinds
<1>10. CASE ReleaseEnds
  <2>1. alarm.topic \in Wanted /\ alarm.live \in BOOLEAN
    BY <1>2 DEF Alarms
  <2>2. alarm.at = "release" /\ released' = TRUE /\ LooksAt(alarm.topic, alarm.live)
    BY <1>10, ReleaseFacts
  <2> QED
    BY <1>2, <1>6, <2>1, <2>2
<1>11. CASE FetchDone
  <2>1. /\ alarm' = Idle /\ armed' = "soon"
        /\ UNCHANGED <<log, ntfyVars, hello, released, start, raced, late>>
    BY <1>11, FetchFacts
  <2>2. CASE BringsNothing
    BY <1>1, <1>2, <1>3, <1>4, <2>1, <2>2, WorkerPlaces DEF BringsNothing
  <2>3. ASSUME NEW cut \in Nat, Brings(cut) PROVE CommandsInv'
    <3>1. /\ since' = Message(Max(Found(cut))) /\ sent' = sent \cup Found(cut)
          /\ got' = got \cup Found(cut) /\ again' \in BOOLEAN
      BY <1>2, <2>3 DEF Brings
    <3>2. Max(Found(cut)) \in 1..Len(log) /\ Found(cut) \subseteq Ids
      BY <2>3, FoundKnown DEF Brings
    <3>3. since' \in Places /\ Known(since')
      BY <1>2, <3>1, <3>2, CommandsAssumption DEF Message, Places, Known
    <3>4. sent' \subseteq Ids /\ got' \subseteq Ids
      BY <1>2, <3>1, <3>2
    <3> QED
      BY <1>1, <1>2, <1>3, <1>4, <2>1, <3>1, <3>3, <3>4, WorkerPlaces
  <2> QED
    BY <1>11, <2>2, <2>3, FetchFacts
<1>12. CASE FetchFails
  BY <1>1, <1>2, <1>3, <1>4, <1>12, WorkerPlaces DEF FetchFails, seenVars
<1> QED
  BY <1>5, <1>9, <1>10, <1>11, <1>12 DEF Worker

----------------------------------------------------------------------------
\* The types, of every reachable state.

RelayTyped == LinkInv /\ CallsTypeOK /\ CommandsInv

LEMMA TypedInit == Init => RelayTyped
<1> SUFFICES ASSUME LinkInit, CallsInit, CommandsInit PROVE RelayTyped
  BY DEF Init
<1>1. LinkInv
  <2>1. <<>> \in Seq(DownFrames) /\ <<>> \in Seq(UpFrames)
    OBVIOUS
  <2> QED
    <3>1. /\ dev = FALSE /\ sock = FALSE /\ closes = 0 /\ conns = 0 /\ down = <<>> /\ upq = <<>>
      BY DEF LinkInit
    <3>2. dev \in BOOLEAN /\ sock \in BOOLEAN /\ closes \in Nat
      BY <3>1
    <3>3. conns \in 0..MaxConns
      BY <3>1, MaxConnsAssumption
    <3> QED
      BY <2>1, <3>1, <3>2, <3>3 DEF LinkInv
<1>2. CallsTypeOK
  <2>1. <<>> \in Seq(Requests) /\ Len(<<>>) = 0
    OBVIOUS
  <2> QED
    <3>1. /\ queue = <<>> /\ phase = "turn" /\ id = 0 /\ evicted = FALSE
          /\ answer = [r \in Requests |-> "none"] /\ served = [r \in Requests |-> 0]
      BY DEF CallsInit
    <3>2. queue \in Seq(Requests) /\ Len(queue) <= MAX_QUEUE
      BY <2>1, <3>1, CallsAssumption
    <3>3. phase \in {"turn", "socket", "sent"} /\ evicted \in BOOLEAN
      BY <3>1
    <3>4. id \in 0..IDS
      BY <3>1, CallsAssumption
    <3>5. answer \in [Requests -> Outcomes]
      BY <3>1 DEF Outcomes
    <3>6. served \in [Requests -> Nat]
      BY <3>1
    <3> QED
      BY <3>1, <3>2, <3>3, <3>4, <3>5, <3>6 DEF CallsTypeOK
<1>3. topic \in Wanted
  <2>1. (CHOOSE t \in Topics : TRUE) \in Topics
    BY CommandsAssumption
  <2> QED
    BY <2>1 DEF CommandsInit, Wanted
<1>4. CommandsTypeOK
  <2>1. <<>> \in Seq(Topics) /\ Len(<<>>) = 0
    OBVIOUS
  <2>2. Closed \in Streams /\ Idle \in Alarms /\ ~Closed.open
    BY CommandsAssumption DEF Closed, Idle, Wanted, Streams, Alarms
  <2>3. log = <<>> /\ told = TRUE /\ lastId = 0 /\ grace = TRUE /\ stream = Closed /\ changes = 0
        /\ hello = NoTopic /\ since = NoSince /\ released = FALSE /\ armed = "no" /\ alarm = Idle
        /\ sent = {} /\ got = {} /\ again = FALSE /\ start = 0 /\ raced = FALSE /\ late = FALSE
    BY DEF CommandsInit
  <2> QED
    <3>1. /\ told \in BOOLEAN /\ grace \in BOOLEAN /\ again \in BOOLEAN /\ raced \in BOOLEAN
          /\ late \in BOOLEAN /\ released \in BOOLEAN /\ armed \in {"no", "soon", "hour"}
      BY <2>3
    <3>2. log \in Seq(Topics) /\ Len(log) <= MaxMessages
      BY <2>1, <2>3, CommandsAssumption
    <3>3. lastId \in 0..MaxMessages /\ changes \in 0..MaxChanges /\ start \in 0..MaxMessages
      BY <2>3, CommandsAssumption
    <3>4. hello \in Wanted /\ since \in Places \cup {NoSince} /\ sent \subseteq Ids /\ got \subseteq Ids
      BY <2>3 DEF Wanted
    <3>5. stream \in Streams /\ alarm \in Alarms /\ ~stream.open
      BY <2>2, <2>3
    <3> QED
      BY <1>3, <3>1, <3>2, <3>3, <3>4, <3>5 DEF CommandsTypeOK, Streams, Alarms
<1>5. PlacesKnown
  <2>1. /\ down = <<>> /\ upq = <<>> /\ log = <<>> /\ lastId = 0 /\ stream.at = 0
        /\ since = NoSince /\ alarm.since = NoSince /\ alarm.at = "idle" /\ ~alarm.live /\ alarm.len = 0
    BY DEF LinkInit, CommandsInit, Closed, Idle
  <2> QED
    BY <2>1 DEF PlacesKnown, Known
<1> QED
  BY <1>1, <1>2, <1>4, <1>5 DEF RelayTyped, CommandsInv

\* The steps of Next, by what they touch
CallsOnly == CallStep /\ UNCHANGED commandVars
CommandsOnly == CommandStep /\ UNCHANGED callVars
LinkOnly == Connect \/ ConnectFails \/ Unlink \/ SocketLost \/ ReplacedSocketLost \/ Boot \/ Evict

LEMMA Steps == Next => CallsOnly \/ CommandsOnly \/ LinkOnly
BY DEF Next, CallsOnly, CallStep, CommandsOnly, CommandStep, LinkOnly

LEMMA TypedKept == RelayTyped /\ [Next]_vars => RelayTyped'
<1> SUFFICES ASSUME RelayTyped, [Next]_vars PROVE RelayTyped'
  OBVIOUS
<1> USE DEF RelayTyped
<1>1. CASE UNCHANGED vars
  <2>1. UNCHANGED linkVars /\ UNCHANGED callVars /\ UNCHANGED commandVars /\ UNCHANGED <<dev, sock>>
    BY <1>1 DEF vars, linkVars
  <2>2. LinkInv' /\ Kept("C") /\ Kept("H")
    BY <2>1, LinkStays
  <2>3. CallsTypeOK'
    BY <2>1 DEF CallsTypeOK, callVars
  <2> QED
    BY <2>1, <2>2, <2>3, LinkKnown
<1>2. CASE CallsOnly
  <2>1. CallStep /\ UNCHANGED commandVars
    BY <1>2 DEF CallsOnly
  <2> QED
    BY <2>1, CallLink, CallTyped, LinkKnown
<1>3. CASE CommandsOnly
  <2>1. CommandStep /\ UNCHANGED callVars
    BY <1>3 DEF CommandsOnly
  <2>2. CallsTypeOK'
    BY <2>1 DEF CallsTypeOK, callVars
  <2> QED
    BY <2>1, <2>2, CommandLink, DeviceKnown, WorkerKnown, PublishKnown DEF CommandStep
<1>4. CASE Connect \/ ConnectFails
  <2>1. CallsTypeOK'
    BY <1>4, CallsLinkTyped DEF Connect, ConnectFails
  <2> QED
    BY <1>4, <2>1, ConnectKnown
<1>5. CASE Unlink
  <2>1. DeviceCloses /\ CommandsUnlinked /\ UNCHANGED callVars
    BY <1>5 DEF Unlink
  <2>2. CallsTypeOK'
    BY <2>1 DEF CallsTypeOK, callVars
  <2> QED
    BY <2>1, <2>2, LinkLoses, LinkKnown
<1>6. CASE SocketLost
  BY <1>6, CallsLinkTyped, LinkLoses, LinkKnown DEF SocketLost
<1>7. CASE ReplacedSocketLost
  BY <1>7, CallsLinkTyped, LinkLoses, LinkKnown DEF ReplacedSocketLost, LateClose
<1>8. CASE Boot
  <2>1. CallsTypeOK'
    BY <1>8 DEF Boot, CallsTypeOK, callVars
  <2> QED
    BY <1>8, <2>1, BootKnown
<1>9. CASE Evict
  <2>1. ForgetCalls /\ UNCHANGED linkVars /\ UNCHANGED commandVars /\ UNCHANGED <<dev, sock>>
    BY <1>9 DEF Evict, linkVars
  <2> QED
    BY <2>1, CallsLinkTyped, LinkStays, LinkKnown
<1> QED
  BY <1>1, <1>2, <1>3, <1>4, <1>5, <1>6, <1>7, <1>8, <1>9, Steps DEF LinkOnly

LEMMA RelayAlwaysTyped == Spec => []RelayTyped
BY TypedInit, TypedKept, PTL DEF Spec

\* The relay's state has its types, with any number of frames on the way: an
\* empty queue has no first call, a closed end nothing under way to it, and the
\* stream is never open beside the link (RelayService.h, worker.mjs)
THEOREM RelayTypeCorrect == Spec => []TypeOK
<1>1. RelayTyped => TypeOK
  <2> SUFFICES ASSUME RelayTyped PROVE TypeOK
    OBVIOUS
  <2>1. down \in Seq(DownFrames) /\ upq \in Seq(UpFrames)
    BY DEF RelayTyped, LinkInv
  <2>2. /\ \A i \in DOMAIN down : down[i].type \in {"R", "C"}
        /\ \A i \in DOMAIN upq : upq[i].type \in {"H", "E"}
    <3>1. /\ \A i \in DOMAIN down : down[i] \in DownFrames
          /\ \A i \in DOMAIN upq : upq[i] \in UpFrames
      BY <2>1
    <3> QED
      BY <3>1 DEF DownFrames, UpFrames
  <2> QED
    BY <2>2 DEF TypeOK, RelayTyped, LinkInv, CommandsInv, PlacesKnown
<1> QED
  BY <1>1, RelayAlwaysTyped, PTL

----------------------------------------------------------------------------
\* The steps, as the Worker's place in the topic sees them.

placeVars == <<hello, since, sent, got, again, start, raced>>

PollStays == UNCHANGED <<log, alarm, placeVars>>

PollForgets ==
  /\ UNCHANGED <<log, placeVars>>
  /\ ~alarm'.live /\ alarm'.at = alarm.at

PollPublish ==
  /\ UNCHANGED <<alarm, placeVars>>
  /\ \A i \in DOMAIN log : i \in DOMAIN log' /\ log'[i] = log[i]

PollChecks ==
  /\ UNCHANGED <<log, placeVars>>
  /\ alarm'.at = "release" /\ alarm'.topic = hello

PollAsks ==
  /\ UNCHANGED <<log, placeVars>>
  /\ alarm'.at = "fetch" /\ alarm'.topic # NoTopic /\ alarm'.since = since
  /\ alarm'.topic = hello \/ (alarm.at = "release" /\ alarm'.topic = alarm.topic /\ alarm'.live = alarm.live)

PollFails ==
  /\ UNCHANGED <<log, placeVars>>
  /\ alarm' = Idle

PollBrings ==
  /\ alarm.at = "fetch" /\ alarm.live /\ alarm' = Idle /\ UNCHANGED <<log, hello, start, raced>>
  /\ \E cut \in Nat :
       /\ Found(cut) # {}
       /\ since' = Message(Max(Found(cut)))
       /\ sent' = sent \cup Found(cut)
       /\ got' = got \cup Found(cut)
       /\ again' = (again \/ (~raced /\ Found(cut) \cap got # {}))

PollQuiet == PollStays \/ PollForgets \/ PollPublish \/ PollChecks \/ PollAsks \/ PollFails

LEMMA LooksSteps ==
  ASSUME NEW t, NEW live, LooksAt(t, live),
         t = hello \/ (alarm.at = "release" /\ t = alarm.topic /\ live = alarm.live)
  PROVE  PollFails \/ PollAsks
<1>1. UNCHANGED <<log, placeVars>>
  BY DEF LooksAt, seenVars, placeVars
<1>2. CASE alarm' = Idle
  BY <1>1, <1>2 DEF PollFails
<1>3. CASE t # NoTopic /\ alarm' = [at |-> "fetch", live |-> live, topic |-> t, since |-> since, len |-> Len(log)]
  <2>1. alarm'.at = "fetch" /\ alarm'.topic = t /\ alarm'.since = since /\ alarm'.live = live
    BY <1>3
  <2> QED
    BY <1>1, <1>3, <2>1 DEF PollAsks
<1> QED
  BY <1>2, <1>3 DEF LooksAt

LEMMA PollSteps ==
  ASSUME RelayTyped, Next
  PROVE  PollQuiet \/ PollBrings \/ \E h : HelloSays(h)
<1> USE DEF PollQuiet
<1>1. UNCHANGED commandVars => PollStays
  BY DEF commandVars, pollVars, seenVars, placeVars, PollStays
<1>2. Device => PollStays
  BY DEF Device, SaveTopic, SaveToken, HelloAgain, CommandArrives, GraceEnds, StreamOpens, StreamCloses,
         StreamReads, pollVars, seenVars, placeVars, PollStays
<1>3. ASSUME NEW t \in Topics, Publish(t) PROVE PollPublish
  BY <1>3, LogGrows DEF Publish, PollPublish, pollVars, seenVars, placeVars, RelayTyped
<1>4. AlarmFires => PollStays \/ PollChecks \/ PollAsks \/ PollFails
  <2> SUFFICES ASSUME AlarmFires PROVE PollStays \/ PollChecks \/ PollAsks \/ PollFails
    OBVIOUS
  <2>1. PollingEnds => PollStays
    BY DEF PollingEnds, PollStays, seenVars, placeVars
  <2>2. ChecksRelease => PollChecks
    BY DEF ChecksRelease, PollChecks, seenVars, placeVars
  <2> QED
    BY <2>1, <2>2, AlarmKinds, LooksSteps
<1>5. ReleaseEnds => PollFails \/ PollAsks
  BY ReleaseFacts, LooksSteps
<1>6. FetchFails => PollFails
  BY DEF FetchFails, PollFails, seenVars, placeVars
<1>7. FetchDone => PollFails \/ PollBrings
  <2> SUFFICES ASSUME FetchDone PROVE PollFails \/ PollBrings
    OBVIOUS
  <2>1. /\ BringsNothing \/ \E cut \in Nat : Brings(cut)
        /\ alarm.at = "fetch" /\ alarm' = Idle
        /\ UNCHANGED <<log, hello, start, raced>>
    BY FetchFacts DEF RelayTyped
  <2> QED
    BY <2>1 DEF BringsNothing, Brings, PollFails, PollBrings, placeVars
<1>8. HelloArrives => \E h : HelloSays(h)
  BY HelloFacts DEF RelayTyped
<1>9. SocketGone => ~alarm'.live /\ alarm'.at = alarm.at
  BY DEF SocketGone, RelayTyped, CommandsInv, CommandsTypeOK
<1>10. Connect \/ ConnectFails \/ SocketLost => PollForgets
  BY <1>9 DEF Connect, ConnectFails, SocketLost, CommandsAccepted, CommandsSocketLost, seenVars, placeVars,
              PollForgets
<1>11. Unlink \/ Boot => PollStays
  BY DEF Unlink, Boot, CommandsUnlinked, CommandsBoot, pollVars, seenVars, placeVars, PollStays
<1>12. ReplacedSocketLost \/ Evict => PollStays
  BY <1>1 DEF ReplacedSocketLost, Evict
<1> QED
  BY <1>1, <1>2, <1>3, <1>4, <1>5, <1>6, <1>7, <1>8, <1>10, <1>11, <1>12, Steps
     DEF CallsOnly, CommandsOnly, CommandStep, Worker, LinkOnly

LEMMA SinceTyped ==
  ASSUME RelayTyped, since # NoSince
  PROVE  /\ since.at \in Nat /\ since.at <= Len(log) /\ (since.id => since.at \in DOMAIN log)
         /\ Len(log) \in Nat /\ DOMAIN log = 1..Len(log)
<1>1. since \in Places \cup {NoSince} /\ Known(since) /\ log \in Seq(Topics)
  BY DEF RelayTyped, CommandsInv, CommandsTypeOK, PlacesKnown
<1> QED
  BY <1>1 DEF Known, Places

LEMMA HelloPlace ==
  ASSUME RelayTyped, NEW h, HelloSays(h)
  PROVE  since' = PlaceAfter(h) /\ since' \in Places /\ since' # NoSince
<1>1. /\ h \in [type : {"H"}, topic : Wanted, since : 0..MaxMessages] /\ h.since <= Len(log)
      /\ since' = PlaceAfter(h)
  BY DEF HelloSays
<1>2. PlaceAfter(h) \in Places
  BY <1>1, PlaceAfterKnown DEF RelayTyped
<1>3. Places \subseteq [id : BOOLEAN, at : Nat]
  BY DEF Places
<1> QED
  BY <1>1, <1>2, <1>3, CommandsAssumption

LEMMA BroughtPlace ==
  ASSUME NEW m \in Nat, since' = Message(m)
  PROVE  since'.id /\ since'.at = m /\ since' # NoSince
<1>1. PICK p : p = [id |-> TRUE, at |-> m]
  OBVIOUS
<1>2. p \in [id : BOOLEAN, at : Nat] /\ p.id = TRUE /\ p.at = m
  BY <1>1
<1>3. p # NoSince
  BY <1>2, CommandsAssumption
<1>4. since' = p
  BY <1>1 DEF Message
<1> QED
  BY <1>2, <1>3, <1>4

----------------------------------------------------------------------------
\* Without a race, the alarm's handler goes on with the topic of the last hello,
\* and a poll of it asks from the place of now; a hello in between is a race
\* unless it changes neither.

FollowInv ==
  ~raced /\ alarm.live =>
    /\ alarm.at = "release" => alarm.topic \in {NoTopic, hello}
    /\ alarm.at = "fetch" => alarm.since = since /\ alarm.topic = hello

LEMMA FollowKept == RelayTyped /\ FollowInv /\ [Next]_vars => FollowInv'
<1> SUFFICES ASSUME RelayTyped, FollowInv, [Next]_vars PROVE FollowInv'
  OBVIOUS
<1> USE DEF placeVars
<1>1. CASE PollStays
  BY <1>1 DEF PollStays, FollowInv
<1>2. CASE PollForgets
  BY <1>2 DEF PollForgets, FollowInv
<1>3. CASE PollPublish
  BY <1>3 DEF PollPublish, FollowInv
<1>4. CASE PollChecks
  BY <1>4 DEF PollChecks, FollowInv
<1>5. CASE PollAsks
  BY <1>5 DEF PollAsks, FollowInv
<1>6. CASE PollFails
  BY <1>6 DEF PollFails, FollowInv, Idle
<1>7. CASE PollBrings
  BY <1>7 DEF PollBrings, FollowInv, Idle
<1>8. ASSUME NEW h, HelloSays(h) PROVE FollowInv'
  <2>1. /\ hello' = h.topic /\ since' = PlaceAfter(h) /\ alarm' = alarm
        /\ ~raced' => ~Races(h)
    BY <1>8 DEF HelloSays
  <2> QED
    BY <2>1 DEF FollowInv, Races
<1>9. CASE UNCHANGED vars
  BY <1>1, <1>9 DEF vars, commandVars, pollVars, seenVars, PollStays
<1> QED
  BY <1>1, <1>2, <1>3, <1>4, <1>5, <1>6, <1>7, <1>8, <1>9, PollSteps DEF PollQuiet

LEMMA FollowInit == Init => FollowInv
BY DEF Init, CommandsInit, FollowInv, Idle

----------------------------------------------------------------------------
\* Without a race, what was sent and not asked for again lies before the Worker's
\* place in the topic it follows; so what a poll finds after it is new.

AgainInv ==
  /\ ~again
  /\ got \subseteq DOMAIN log
  /\ ~raced /\ since # NoSince =>
       \A i \in got : log[i] = hello => i <= since.at /\ (since.id => log[since.at] = hello)

LEMMA AgainBrings == ASSUME RelayTyped, FollowInv, AgainInv, PollBrings PROVE AgainInv'
<1>1. PICK cut \in Nat :
        /\ Found(cut) # {}
        /\ since' = Message(Max(Found(cut)))
        /\ got' = got \cup Found(cut)
        /\ again' = (again \/ (~raced /\ Found(cut) \cap got # {}))
  BY DEF PollBrings
<1> DEFINE m == Max(Found(cut))
<1>2. /\ alarm.at = "fetch" /\ alarm.live /\ alarm' = Idle /\ UNCHANGED <<log, hello, raced>>
      /\ since # NoSince
  BY DEF PollBrings, RelayTyped, CommandsInv, PlacesKnown
<1>3. /\ Found(cut) \subseteq 1..Len(log) /\ m \in Found(cut) /\ \A i \in Found(cut) : i <= m
      /\ Len(log) \in Nat /\ DOMAIN log = 1..Len(log)
  BY <1>1, FoundKnown DEF RelayTyped, CommandsInv, CommandsTypeOK
<1>4. \A i \in Found(cut) : log[i] = alarm.topic /\ (i > alarm.since.at \/ Foreign(alarm.topic, alarm.since))
  BY DEF Found, From
<1>5. ASSUME ~raced, NEW i \in got, log[i] = hello
      PROVE  i \notin Found(cut) /\ i <= m
  <2>1. /\ alarm.since = since /\ alarm.topic = hello
        /\ i <= since.at /\ (since.id => log[since.at] = hello)
    BY <1>2, <1>5 DEF AgainInv, FollowInv
  <2>2. m > since.at /\ \A j \in Found(cut) : j > since.at
    BY <1>3, <1>4, <2>1 DEF Foreign
  <2>3. since.at \in Nat /\ i \in Nat /\ m \in Nat
    BY <1>2, <1>3, <1>5, SinceTyped DEF AgainInv
  <2> HIDE DEF m
  <2> QED
    BY <2>1, <2>2, <2>3
<1>6. ~raced => \A i \in got : i \notin Found(cut)
  <2>1. ASSUME ~raced, NEW i \in got, i \in Found(cut) PROVE FALSE
    <3>1. log[i] = alarm.topic /\ alarm.topic = hello
      BY <1>2, <1>4, <2>1 DEF FollowInv
    <3> QED
      BY <1>5, <2>1, <3>1
  <2> QED
    BY <2>1
<1> HIDE DEF m
<1>7. ~again'
  BY <1>1, <1>6 DEF AgainInv
<1>8. since'.id /\ since'.at = m
  <2>1. m \in Nat /\ since' = Message(m)
    BY <1>1, <1>3 DEF m
  <2> QED
    BY <2>1, BroughtPlace
<1>9. ASSUME ~raced, NEW i \in got', log[i] = hello PROVE i <= m /\ log[m] = hello
  <2>1. alarm.topic = hello
    BY <1>2, <1>9 DEF FollowInv
  <2>2. log[m] = hello
    BY <1>3, <1>4, <2>1
  <2>3. CASE i \in Found(cut)
    BY <1>3, <2>2, <2>3
  <2>4. CASE i \in got
    BY <1>5, <1>9, <2>2, <2>4
  <2> QED
    BY <1>1, <1>9, <2>3, <2>4
<1>10. got' \subseteq DOMAIN log'
  BY <1>1, <1>2, <1>3 DEF AgainInv
<1> QED
  BY <1>2, <1>7, <1>8, <1>9, <1>10 DEF AgainInv

LEMMA AgainHello == ASSUME RelayTyped, AgainInv, NEW h, HelloSays(h) PROVE AgainInv'
<1>1. /\ hello' = h.topic /\ since' = PlaceAfter(h) /\ UNCHANGED <<log, again>>
      /\ h.since \in 0..MaxMessages
      /\ raced' = ((raced /\ ~Anew(h)) \/ Races(h))
      /\ got' = IF h.since = 0 THEN got ELSE got \ From(h.topic, Message(h.since))
  BY DEF HelloSays
<1>2. ~again' /\ got' \subseteq DOMAIN log' /\ got' \subseteq got
  BY <1>1 DEF AgainInv
<1>3. ASSUME ~raced', NEW i \in got', log[i] = h.topic
      PROVE  i <= since'.at /\ (since'.id => log[since'.at] = h.topic)
  <2>1. i \in DOMAIN log /\ DOMAIN log = 1..Len(log) /\ Len(log) \in Nat
    BY <1>2, <1>3 DEF AgainInv, RelayTyped, CommandsInv, CommandsTypeOK
  <2>2. CASE h.since # 0
    <3>1. since' = [id |-> TRUE, at |-> h.since] /\ i \notin From(h.topic, [id |-> TRUE, at |-> h.since])
      BY <1>1, <1>3, <2>2 DEF PlaceAfter, Message
    <3>2. ~(i > h.since) /\ log[h.since] = h.topic
      BY <1>3, <2>1, <3>1 DEF From, Foreign
    <3> QED
      BY <1>1, <2>1, <3>1, <3>2
  <2>3. CASE h.since = 0 /\ Anew(h)
    <3>1. since' = [id |-> FALSE, at |-> Len(log)]
      BY <1>1, <2>3 DEF PlaceAfter, Moment, Anew
    <3> QED
      BY <2>1, <3>1
  <2>4. CASE ~Anew(h)
    <3>1. since' = since /\ hello = h.topic /\ since # NoSince /\ h.since = 0 /\ ~raced
      BY <1>1, <1>3, <2>4 DEF PlaceAfter, Anew
    <3> QED
      BY <1>1, <1>3, <3>1 DEF AgainInv
  <2> QED
    BY <2>2, <2>3, <2>4
<1> QED
  BY <1>1, <1>2, <1>3 DEF AgainInv

LEMMA AgainKept == RelayTyped /\ FollowInv /\ AgainInv /\ [Next]_vars => AgainInv'
<1> SUFFICES ASSUME RelayTyped, FollowInv, AgainInv, [Next]_vars PROVE AgainInv'
  OBVIOUS
<1>1. ASSUME UNCHANGED <<log, placeVars>> PROVE AgainInv'
  BY <1>1 DEF AgainInv, placeVars
<1>2. CASE PollPublish
  <2>1. /\ UNCHANGED <<hello, since, got, again, raced>>
        /\ \A i \in DOMAIN log : i \in DOMAIN log' /\ log'[i] = log[i]
    BY <1>2 DEF PollPublish, placeVars
  <2>2. since # NoSince /\ since.id => since.at \in DOMAIN log
    BY SinceTyped
  <2> QED
    BY <2>1, <2>2 DEF AgainInv
<1>3. CASE UNCHANGED vars
  BY <1>1, <1>3 DEF vars, commandVars, pollVars, seenVars, placeVars
<1>4. PollQuiet => PollPublish \/ UNCHANGED <<log, placeVars>>
  BY DEF PollQuiet, PollStays, PollForgets, PollChecks, PollAsks, PollFails
<1> QED
  BY <1>1, <1>2, <1>3, <1>4, PollSteps, AgainBrings, AgainHello

\* The Worker sends no message twice unless a hello asked from a place before it,
\* or a hello met the alarm's handler at an answer of GitHub's or ntfy's and the
\* two disagree about topic or place (worker.mjs:267-276, 288-337)
THEOREM AgainIfAsked == Spec => []AgainOnlyIfAsked
<1>1. Init => AgainInv
  BY DEF Init, CommandsInit, AgainInv
<1>2. AgainInv => AgainOnlyIfAsked
  BY DEF AgainInv, AgainOnlyIfAsked
<1> QED
  BY <1>1, <1>2, AgainKept, FollowInit, FollowKept, RelayAlwaysTyped, PTL DEF Spec

----------------------------------------------------------------------------
\* Without a race, what the Worker follows was sent up to its place.

SkipInv ==
  ~raced /\ since # NoSince => \A i \in start + 1 .. since.at : log[i] = hello => i \in sent

LEMMA SkipBrings == ASSUME RelayTyped, FollowInv, SkipInv, PollBrings PROVE SkipInv'
<1>1. PICK cut \in Nat :
        /\ Found(cut) # {}
        /\ since' = Message(Max(Found(cut)))
        /\ sent' = sent \cup Found(cut)
  BY DEF PollBrings
<1> DEFINE m == Max(Found(cut))
<1>2. /\ alarm.at = "fetch" /\ alarm.live /\ UNCHANGED <<log, hello, start, raced>> /\ since # NoSince
  BY DEF PollBrings, RelayTyped, CommandsInv, PlacesKnown
<1>3. /\ Found(cut) \subseteq 1..Len(log) /\ m \in Found(cut) /\ \A i \in Found(cut) : i <= m
      /\ Len(log) \in Nat /\ DOMAIN log = 1..Len(log) /\ start \in Nat
  BY <1>1, FoundKnown DEF RelayTyped, CommandsInv, CommandsTypeOK
<1>4. m <= cut /\ m \in Nat
  BY <1>3 DEF Found
<1>5. ASSUME ~raced, NEW i \in start + 1 .. m, log[i] = hello PROVE i \in sent'
  <2>1. alarm.since = since /\ alarm.topic = hello /\ since.at \in Nat
    BY <1>2, <1>5, SinceTyped DEF FollowInv
  <2>2. CASE i > since.at
    <3>1. i \in DOMAIN log /\ i <= cut
      BY <1>3, <1>4
    <3>2. i \in Found(cut)
      BY <1>5, <2>1, <2>2, <3>1 DEF Found, From
    <3> QED
      BY <1>1, <3>2
  <2>3. CASE i <= since.at
    BY <1>1, <1>2, <1>3, <1>5, <2>1, <2>3 DEF SkipInv
  <2> QED
    BY <1>3, <2>1, <2>2, <2>3
<1> HIDE DEF m
<1>6. since'.at = m
  BY <1>1, <1>4, BroughtPlace DEF m
<1> QED
  BY <1>2, <1>5, <1>6 DEF SkipInv

LEMMA SkipHello == ASSUME RelayTyped, SkipInv, NEW h, HelloSays(h) PROVE SkipInv'
<1>1. /\ hello' = h.topic /\ UNCHANGED <<log, sent>>
      /\ start' = IF Anew(h) THEN PlaceAfter(h).at ELSE start
      /\ raced' = ((raced /\ ~Anew(h)) \/ Races(h))
  BY DEF HelloSays
<1>2. since' = PlaceAfter(h) /\ since' \in Places
  BY HelloPlace
<1>3. CASE Anew(h)
  <2>1. start' = since'.at /\ since'.at \in Nat
    BY <1>1, <1>2, <1>3 DEF Places
  <2>2. start' + 1 .. since'.at = {}
    BY <2>1
  <2> QED
    BY <1>1, <2>2 DEF SkipInv
<1>4. CASE ~Anew(h)
  <2>1. since' = since /\ start' = start /\ hello' = hello
    BY <1>1, <1>2, <1>4 DEF PlaceAfter, Anew
  <2> QED
    BY <1>1, <1>4, <2>1 DEF SkipInv
<1> QED
  BY <1>3, <1>4

LEMMA SkipKept == RelayTyped /\ FollowInv /\ SkipInv /\ [Next]_vars => SkipInv'
<1> SUFFICES ASSUME RelayTyped, FollowInv, SkipInv, [Next]_vars PROVE SkipInv'
  OBVIOUS
<1>1. ASSUME UNCHANGED <<log, placeVars>> PROVE SkipInv'
  BY <1>1 DEF SkipInv, placeVars
<1>2. CASE PollPublish
  <2>1. /\ UNCHANGED <<hello, since, sent, start, raced>>
        /\ \A i \in DOMAIN log : i \in DOMAIN log' /\ log'[i] = log[i]
    BY <1>2 DEF PollPublish, placeVars
  <2>2. since # NoSince =>
          start \in Nat /\ since.at \in Nat /\ \A i \in start + 1 .. since.at : i \in DOMAIN log
    BY SinceTyped DEF RelayTyped, CommandsInv, CommandsTypeOK
  <2> QED
    BY <2>1, <2>2 DEF SkipInv
<1>3. CASE UNCHANGED vars
  BY <1>1, <1>3 DEF vars, commandVars, pollVars, seenVars, placeVars
<1>4. PollQuiet => PollPublish \/ UNCHANGED <<log, placeVars>>
  BY DEF PollQuiet, PollStays, PollForgets, PollChecks, PollAsks, PollFails
<1> QED
  BY <1>1, <1>2, <1>3, <1>4, PollSteps, SkipBrings, SkipHello

\* A message is passed over only when a hello met the alarm's handler at an answer
\* of GitHub's or ntfy's for the same socket, and the handler's topic or place is
\* stored against what the hello told (worker.mjs:267-276, 288-337)
THEOREM SkipsInRaceOnly == Spec => []SkipsOnlyInRace
<1>1. Init => SkipInv
  BY DEF Init, CommandsInit, SkipInv
<1>2. SkipInv => SkipsOnlyInRace
  BY DEF SkipInv, SkipsOnlyInRace, Skipped
<1> QED
  BY <1>1, <1>2, SkipKept, FollowInit, FollowKept, RelayAlwaysTyped, PTL DEF Spec

----------------------------------------------------------------------------
\* The polling: a hello on its way, the alarm it sets and the handler that sets
\* the next one take turns, and nothing but the handler of a hello without a
\* topic puts the alarm off.

Waits(u) == \E i \in DOMAIN u : u[i].type = "H"

GoesOnInv ==
  /\ hello # NoTopic => since # NoSince
  /\ alarm.at = "release" /\ alarm.topic = NoTopic /\ hello # NoTopic => late
  /\ armed = "hour" /\ hello # NoTopic => late
  /\ dev /\ sock /\ hello # NoTopic /\ armed = "no" /\ alarm.at = "idle" => Waits(upq)

GoesOnVars == <<hello, since, armed, alarm, late>>

\* Nothing of the alarm changes, and a hello that waits stays
Goes ==
  /\ UNCHANGED GoesOnVars
  /\ dev' /\ sock' => dev /\ sock
  /\ sock' /\ Waits(upq) => Waits(upq')

LEMMA GoesKept == ASSUME GoesOnInv, Goes PROVE GoesOnInv'
BY DEF GoesOnInv, Goes, GoesOnVars

LEMMA TailWaits ==
  ASSUME NEW S, NEW u \in Seq(S), u # <<>>, Head(u).type # "H", Waits(u)
  PROVE  Waits(Tail(u))
<1>1. PICK i \in DOMAIN u : u[i].type = "H"
  BY DEF Waits
<1>2. i # 1
  BY <1>1
<1>3. i - 1 \in DOMAIN Tail(u) /\ Tail(u)[i - 1] = u[i]
  BY <1>2
<1> QED
  BY <1>1, <1>3 DEF Waits

LEMMA MoreWaits ==
  ASSUME NEW S, NEW u \in Seq(S), NEW f \in Seq(S), Waits(u)
  PROVE  Waits(u \o f)
<1>1. PICK i \in DOMAIN u : u[i].type = "H"
  BY DEF Waits
<1>2. i \in DOMAIN (u \o f) /\ (u \o f)[i] = u[i]
  <2>1. DOMAIN u = 1 .. Len(u) /\ Len(u) \in Nat /\ Len(f) \in Nat
    OBVIOUS
  <2>2. /\ (u \o f) \in Seq(S) /\ Len(u \o f) = Len(u) + Len(f)
        /\ \A j \in 1 .. Len(u) + Len(f) :
             (u \o f)[j] = IF j <= Len(u) THEN u[j] ELSE f[j - Len(u)]
    BY ConcatProperties
  <2>3. DOMAIN (u \o f) = 1 .. Len(u) + Len(f)
    BY <2>2
  <2> QED
    BY <1>1, <2>1, <2>2, <2>3
<1> QED
  BY <1>1, <1>2 DEF Waits

LEMMA UpWaits ==
  ASSUME LinkInv, NEW f \in Seq(UpFrames), upq' = Up(f), Waits(upq)
  PROVE  Waits(upq')
<1>1. upq \in Seq(UpFrames) /\ (upq' = upq \/ upq' = upq \o f)
  BY DEF Up, LinkInv
<1> QED
  BY <1>1, MoreWaits

LEMMA CallGoes == ASSUME RelayTyped, CallsOnly PROVE Goes
<1>1. UNCHANGED GoesOnVars /\ LinkInv /\ CallsTypeOK
  BY DEF CallsOnly, commandVars, pollVars, seenVars, GoesOnVars, RelayTyped
<1>2. UNCHANGED <<dev, sock>>
  BY <1>1, CallLink DEF CallsOnly
<1>3. Waits(upq) => Waits(upq')
  <2>1. CASE UNCHANGED upq
    BY <2>1
  <2>2. CASE ServeRequest
    <3>1. /\ upq' = IF sock THEN Append(upq, Ends(Head(down).request)) ELSE upq
          /\ Ends(Head(down).request) \in UpFrames /\ upq \in Seq(UpFrames)
      BY <1>1, <2>2, ServeFacts DEF LinkInv
    <3>2. Append(upq, Ends(Head(down).request)) = upq \o <<Ends(Head(down).request)>>
      BY <3>1
    <3>3. <<Ends(Head(down).request)>> \in Seq(UpFrames)
      BY <3>1
    <3> QED
      BY <3>1, <3>2, <3>3, MoreWaits
  <2>3. CASE ReplyArrives
    <3>1. Head(upq).type # "H" /\ upq # <<>> /\ upq' = Tail(upq) /\ upq \in Seq(UpFrames)
      BY <1>1, <2>3 DEF ReplyArrives, Receive, LinkInv
    <3> QED
      BY <3>1, TailWaits
  <2>4. Call => UNCHANGED upq \/ ServeRequest \/ ReplyArrives
    BY DEF Call, Forward, WaitEnds, ReplyEnds, linkVars, Send
  <2> QED
    BY <2>1, <2>2, <2>3, <2>4 DEF CallsOnly, CallStep, linkVars
<1> QED
  BY <1>1, <1>2, <1>3 DEF Goes

LEMMA DeviceGoes == ASSUME RelayTyped, Device \/ \E t \in Topics : Publish(t) PROVE Goes
<1>1. UNCHANGED GoesOnVars
  BY DEF Device, SaveTopic, SaveToken, HelloAgain, CommandArrives, GraceEnds, StreamOpens, StreamCloses,
         StreamReads, Publish, pollVars, seenVars, GoesOnVars
<1>2. UNCHANGED <<dev, sock>> /\ LinkInv
  BY CommandLink DEF CommandStep, RelayTyped
<1>3. Waits(upq) => Waits(upq')
  <2>1. CASE UNCHANGED upq
    BY <2>1
  <2>2. CASE HelloAgain
    BY <1>2, <2>2, HelloTyped, UpWaits DEF HelloAgain, Tell, RelayTyped
  <2>3. CASE CommandArrives
    <3>1. <<>> \in Seq(UpFrames) /\ upq' = Up(<<>>)
      BY <2>3 DEF CommandArrives, Pump
    <3> QED
      BY <1>2, <3>1, UpWaits
  <2>4. Device => UNCHANGED upq \/ HelloAgain \/ CommandArrives
    BY DEF Device, SaveTopic, SaveToken, GraceEnds, StreamOpens, StreamCloses, StreamReads, linkVars
  <2> QED
    BY <2>1, <2>2, <2>3, <2>4 DEF Publish, linkVars
<1> QED
  BY <1>1, <1>2, <1>3 DEF Goes

LEMMA LooksGoes ==
  ASSUME GoesOnInv, NEW t, NEW live, LooksAt(t, live), since # NoSince,
         t = hello \/ (alarm.at = "release" /\ t = alarm.topic)
  PROVE  GoesOnInv'
<1>1. UNCHANGED <<hello, since, late>> /\ (t = NoTopic /\ hello # NoTopic => late)
  BY DEF LooksAt, seenVars, GoesOnInv
<1>2. CASE t = NoTopic /\ alarm' = Idle /\ armed' = "hour"
  BY <1>1, <1>2 DEF GoesOnInv, Idle
<1>3. CASE alarm' = [at |-> "fetch", live |-> live, topic |-> t, since |-> since, len |-> Len(log)]
           /\ armed' \in {"no", armed}
  <2>1. alarm'.at = "fetch"
    BY <1>3
  <2> QED
    BY <1>1, <1>3, <2>1 DEF GoesOnInv
<1> QED
  BY <1>2, <1>3 DEF LooksAt

LEMMA WorkerGoes == ASSUME RelayTyped, GoesOnInv, Worker PROVE GoesOnInv'
<1>1. alarm.at # "idle" => since # NoSince
  BY DEF RelayTyped, CommandsInv, PlacesKnown
<1>2. CASE HelloArrives
  <2>1. PICK h : HelloSays(h)
    BY <1>2, HelloFacts DEF RelayTyped
  <2>2. /\ armed' = "soon" /\ alarm' = alarm /\ since' # NoSince
        /\ late' = (alarm.at = "release" /\ alarm.topic = NoTopic)
    BY <2>1, HelloPlace DEF HelloSays
  <2> QED
    BY <2>2 DEF GoesOnInv
<1>3. CASE PollingEnds
  <2>1. UNCHANGED <<hello, since, alarm, late, sock>> /\ (~sock \/ since = NoSince) /\ armed' = "no"
    BY <1>3 DEF PollingEnds, seenVars, linkVars
  <2> QED
    BY <2>1 DEF GoesOnInv
<1>4. CASE ChecksRelease
  <2>1. /\ UNCHANGED <<hello, since, late>> /\ armed' = "no"
        /\ alarm'.at = "release" /\ alarm'.topic = hello
    BY <1>4 DEF ChecksRelease, seenVars
  <2> QED
    BY <2>1 DEF GoesOnInv
<1>5. CASE AlarmFires
  BY <1>3, <1>4, <1>5, AlarmKinds, LooksGoes
<1>6. CASE ReleaseEnds
  BY <1>1, <1>6, ReleaseFacts, LooksGoes
<1>7. CASE FetchDone
  <2>1. /\ alarm.at = "fetch" /\ alarm' = Idle /\ armed' = "soon" /\ UNCHANGED <<hello, late>>
        /\ BringsNothing \/ \E cut \in Nat : Brings(cut)
    BY <1>7, FetchFacts DEF RelayTyped
  <2>2. since' # NoSince
    <3>1. CASE BringsNothing
      BY <1>1, <2>1, <3>1 DEF BringsNothing
    <3>2. ASSUME NEW cut \in Nat, Brings(cut) PROVE since' # NoSince
      <4>1. since' = Message(Max(Found(cut))) /\ Max(Found(cut)) \in Nat
        BY <3>2, FoundKnown DEF Brings, RelayTyped
      <4> QED
        BY <4>1, BroughtPlace
    <3> QED
      BY <2>1, <3>1, <3>2
  <2> QED
    BY <2>1, <2>2 DEF GoesOnInv, Idle
<1>8. CASE FetchFails
  <2>1. alarm' = Idle /\ armed' = "soon" /\ UNCHANGED <<hello, since, late>>
    BY <1>8 DEF FetchFails, seenVars
  <2> QED
    BY <2>1 DEF GoesOnInv, Idle
<1> QED
  BY <1>2, <1>5, <1>6, <1>7, <1>8 DEF Worker

LEMMA LinkGoes == ASSUME RelayTyped, GoesOnInv, LinkOnly PROVE GoesOnInv'
<1>1. alarm' = alarm \/ SocketGone => alarm'.at = alarm.at /\ alarm'.topic = alarm.topic
  BY DEF SocketGone, RelayTyped, CommandsInv, CommandsTypeOK
<1>2. CASE Connect
  <2>1. upq' = Hello /\ UNCHANGED <<hello, since, armed, late>> /\ SocketGone
    BY <1>2 DEF Connect, Accept, CommandsAccepted, seenVars
  <2>2. Waits(upq')
    BY <2>1, HelloTyped DEF Waits, RelayTyped
  <2> QED
    BY <1>1, <2>1, <2>2 DEF GoesOnInv
<1>3. CASE ConnectFails
  <2>1. dev' = FALSE /\ UNCHANGED <<hello, since, armed, late>> /\ SocketGone
    BY <1>3 DEF ConnectFails, Accept, CommandsAccepted, seenVars
  <2> QED
    BY <1>1, <2>1 DEF GoesOnInv
<1>4. CASE Unlink \/ Boot
  <2>1. dev' = FALSE /\ UNCHANGED GoesOnVars
    BY <1>4 DEF Unlink, DeviceCloses, CommandsUnlinked, Boot, CommandsBoot, pollVars, seenVars, GoesOnVars
  <2> QED
    BY <2>1 DEF GoesOnInv, GoesOnVars
<1>5. CASE SocketLost
  <2>1. sock' = FALSE /\ UNCHANGED <<hello, since, armed, late>> /\ SocketGone
    BY <1>5 DEF SocketLost, SocketCloses, CommandsSocketLost, seenVars
  <2> QED
    BY <1>1, <2>1 DEF GoesOnInv
<1>6. CASE ReplacedSocketLost \/ Evict
  <2>1. UNCHANGED <<dev, sock, upq>> /\ UNCHANGED GoesOnVars
    BY <1>6 DEF ReplacedSocketLost, LateClose, Evict, linkVars, commandVars, pollVars, seenVars, GoesOnVars
  <2> QED
    BY <2>1 DEF GoesOnInv, GoesOnVars
<1> QED
  BY <1>2, <1>3, <1>4, <1>5, <1>6 DEF LinkOnly

LEMMA GoesOnKept == RelayTyped /\ GoesOnInv /\ [Next]_vars => GoesOnInv'
<1> SUFFICES ASSUME RelayTyped, GoesOnInv, [Next]_vars PROVE GoesOnInv'
  OBVIOUS
<1>1. CASE UNCHANGED vars
  BY <1>1 DEF vars, linkVars, commandVars, pollVars, seenVars, GoesOnInv
<1>2. CASE CommandsOnly
  BY <1>2, DeviceGoes, GoesKept, WorkerGoes DEF CommandsOnly, CommandStep
<1> QED
  BY <1>1, <1>2, Steps, CallGoes, GoesKept, LinkGoes

\* On a connection that is up, with a topic to follow, the next poll is near or
\* under way, whatever the order of hello, alarm, release check and poll; only a
\* hello that came during the release check of one without a topic may wait an
\* hour (worker.mjs:267-301)
THEOREM PollsGoOn == Spec => []PollingGoesOn
<1>1. Init => GoesOnInv
  BY DEF Init, CommandsInit, LinkInit, GoesOnInv, Idle
<1>2. RelayTyped /\ GoesOnInv => PollingGoesOn
  BY DEF RelayTyped, CommandsInv, CommandsTypeOK, GoesOnInv, PollingGoesOn, Waits
<1> QED
  BY <1>1, <1>2, GoesOnKept, RelayAlwaysTyped, PTL DEF Spec

----------------------------------------------------------------------------
\* The steps, as the calls see them.

Carried == Kept("R") /\ Kept("E")

\* Nothing happens to a call, but that it may begin to wait for a socket
CallQuiet ==
  /\ UNCHANGED <<queue, answer, served>> /\ Carried
  /\ phase' = phase \/ (phase = "turn" /\ phase' = "socket")
  /\ UNCHANGED <<id, evicted>> \/ evicted'

AddsFrame ==
  /\ OldFrames(upq, upq', "E")
  /\ \A i \in DOMAIN down' : down'[i].type = "R" =>
       \/ i \in DOMAIN down /\ down'[i] = down[i]
       \/ i = Len(down) + 1 /\ down'[i] = Frame[1]

CallStarts ==
  /\ queue # <<>> /\ phase # "sent" /\ phase' = "sent" /\ id' = NextId
  /\ UNCHANGED <<queue, answer, served, evicted>>
  /\ AddsFrame

ReplyIs(o) == \E i \in DOMAIN upq : upq[i].type = "E" /\ upq[i].id = id /\ upq[i].request = o

CallEnds(o) ==
  /\ queue # <<>> /\ Done(o) /\ UNCHANGED <<id, served, evicted>> /\ Carried
  /\ \/ phase = "socket" /\ o = "offline"
     \/ phase = "sent" /\ o \in {"timeout", "gone"}
     \/ phase = "sent" /\ o \in Requests /\ ReplyIs(o)

CallAsked(r) == Ask(r) /\ Carried

LEMMA CallKinds ==
  ASSUME RelayTyped, CallStep
  PROVE  \/ CallQuiet \/ CallStarts \/ ServeRequest
         \/ (\E o : CallEnds(o)) \/ \E r \in Requests : CallAsked(r)
<1>1. LinkInv /\ CallsTypeOK /\ (phase # "turn" => queue # <<>>)
  BY DEF RelayTyped, CallsTypeOK
<1>2. UNCHANGED linkVars => Carried
  BY <1>1, LinkStays DEF Carried
<1>3. CASE Forward
  <2>1. CASE sock /\ phase' = "sent" /\ id' = NextId /\ Send(Frame)
    <3>1. queue # <<>> /\ phase = "turn" /\ UNCHANGED <<queue, answer, served, evicted>>
      BY <1>3 DEF Forward
    <3>2. Frame \in Seq(DownFrames) /\ DOMAIN Frame = {1} /\ down \in Seq(DownFrames)
      BY <1>1, <3>1, FrameTyped DEF LinkInv
    <3>3. OldFrames(upq, upq', "E")
      BY <1>1, <2>1, <3>2, LinkSend
    <3>4. down' = down \/ down' = down \o Frame
      BY <2>1 DEF Send, Down
    <3>5. ASSUME down' = down PROVE AddsFrame
      BY <3>3, <3>5 DEF AddsFrame
    <3>6. ASSUME down' = down \o Frame PROVE AddsFrame
      <4>1. \A i \in DOMAIN (down \o Frame) :
              \/ i \in DOMAIN down /\ (down \o Frame)[i] = down[i]
              \/ i - Len(down) \in DOMAIN Frame /\ (down \o Frame)[i] = Frame[i - Len(down)]
        BY <3>2, ConcatElements
      <4>2. Len(down) \in Nat /\ DOMAIN (down \o Frame) \subseteq Nat
        BY <3>2, ConcatDomain
      <4>3. \A i \in DOMAIN down' : \/ i \in DOMAIN down /\ down'[i] = down[i]
                                    \/ i = Len(down) + 1 /\ down'[i] = Frame[1]
        BY <3>2, <3>6, <4>1, <4>2, OneMore
      <4> QED
        BY <3>3, <4>3 DEF AddsFrame
    <3>7. AddsFrame
      BY <3>4, <3>5, <3>6
    <3> QED
      BY <2>1, <3>1, <3>7 DEF CallStarts
  <2>2. CASE phase' = "socket" /\ UNCHANGED <<id, linkVars>>
    BY <1>2, <1>3, <2>2 DEF Forward, CallQuiet
  <2> QED
    BY <1>3, <2>1, <2>2 DEF Forward
<1>4. CASE WaitEnds
  <2>1. CallEnds("offline")
    BY <1>1, <1>2, <1>4 DEF WaitEnds, CallEnds
  <2> QED
    BY <2>1
<1>5. CASE ReplyEnds
  <2>1. CallEnds("timeout")
    BY <1>1, <1>2, <1>5 DEF ReplyEnds, CallEnds
  <2> QED
    BY <2>1
<1>6. CASE ReplyArrives
  <2> DEFINE h == Head(upq)
  <2>1. Receive /\ h.type = "E" /\ UNCHANGED <<id, served, evicted>>
    BY <1>6 DEF ReplyArrives
  <2>2. h = upq[1] /\ 1 \in DOMAIN upq /\ h \in UpFrames /\ Carried
    BY <1>1, <2>1, LinkReceive DEF Carried
  <2>3. h.request \in Requests
    BY <2>1, <2>2 DEF UpFrames
  <2>4. CASE Matches(h.id)
    <3>1. Done(h.request) /\ phase = "sent" /\ h.id = id
      BY <1>6, <2>4 DEF ReplyArrives, Matches
    <3>2. PICK o : o = h.request
      OBVIOUS
    <3>3. ReplyIs(o)
      BY <2>1, <2>2, <3>1, <3>2 DEF ReplyIs
    <3>4. Done(o)
      BY <3>1, <3>2 DEF Done
    <3>5. CallEnds(o)
      BY <1>1, <2>1, <2>2, <2>3, <3>1, <3>2, <3>3, <3>4 DEF CallEnds
    <3> QED
      BY <3>5
  <2>5. CASE ~Matches(h.id)
    BY <1>6, <2>1, <2>2, <2>5 DEF ReplyArrives, CallQuiet
  <2> QED
    BY <2>4, <2>5
<1>7. ASSUME NEW r \in Requests, Ask(r), UNCHANGED linkVars PROVE CallAsked(r)
  BY <1>2, <1>7 DEF CallAsked
<1> QED
  BY <1>3, <1>4, <1>5, <1>6, <1>7 DEF CallStep, Call

LEMMA AcceptKinds ==
  ASSUME RelayTyped, Connect \/ ConnectFails
  PROVE  CallQuiet \/ CallStarts
<1>1. /\ LinkInv /\ CallsTypeOK /\ CommandsInv /\ (phase # "turn" => queue # <<>>)
      /\ down \in Seq(DownFrames)
  BY DEF RelayTyped, CallsTypeOK, LinkInv
<1>2. PICK f, g :
        /\ down' = f /\ upq' = g /\ CallAccepted /\ ~dev
        /\ f = Waiting \/ f = <<>>
        /\ g = Hello \/ g = <<>>
  BY DEF Connect, ConnectFails, Accept
<1>3. \A i \in DOMAIN g : g[i].type # "E" /\ g[i].type # "R"
  <2>1. DOMAIN <<>> = {}
    OBVIOUS
  <2> QED
    BY <1>1, <1>2, <2>1, HelloTyped
<1>4. OldFrames(upq, upq', "E") /\ OldFrames(upq, upq', "R")
  BY <1>2, <1>3, 0 \in Nat DEF OldFrames
<1>5. CASE phase = "socket"
  <2>1. queue # <<>> /\ f \in {Frame, <<>>}
    BY <1>1, <1>2, <1>5 DEF Waiting
  <2>2. Len(Frame) = 1 /\ DOMAIN Frame = {1} /\ DOMAIN <<>> = {}
    BY <1>1, <2>1, FrameTyped
  <2>3. Len(down) = 0
    BY <1>1, <1>2 DEF LinkInv
  <2>4. AddsFrame
    BY <1>2, <1>4, <2>1, <2>2, <2>3 DEF AddsFrame
  <2> QED
    BY <1>2, <1>5, <2>1, <2>4 DEF CallAccepted, CallStarts
<1>6. CASE phase # "socket"
  <2>1. down' = <<>>
    BY <1>2, <1>6 DEF Waiting
  <2>2. OldFrames(down, down', "R") /\ OldFrames(down, down', "E")
    BY <2>1, EmptyOld
  <2> QED
    BY <1>2, <1>4, <1>6, <2>2 DEF CallAccepted, CallQuiet, Carried, Kept
<1> QED
  BY <1>5, <1>6

LEMMA CallsFailKinds ==
  ASSUME RelayTyped, CallsFail, Carried
  PROVE  CallQuiet \/ CallEnds("gone")
BY DEF CallsFail, CallQuiet, CallEnds, RelayTyped, CallsTypeOK

LEMMA AllCallKinds ==
  ASSUME RelayTyped, Next
  PROVE  \/ CallQuiet \/ CallStarts \/ ServeRequest
         \/ (\E o : CallEnds(o)) \/ \E r \in Requests : CallAsked(r)
<1>1. LinkInv /\ CommandsInv
  BY DEF RelayTyped
<1>2. CASE CallsOnly
  BY <1>2, CallKinds DEF CallsOnly
<1>3. CASE CommandsOnly
  BY <1>1, <1>3, CommandLink DEF CommandsOnly, CallQuiet, Carried, callVars
<1>4. CASE Connect \/ ConnectFails
  BY <1>4, AcceptKinds
<1>5. CASE Unlink
  BY <1>1, <1>5, LinkLoses DEF Unlink, CallQuiet, Carried, callVars
<1>6. CASE SocketLost
  BY <1>1, <1>6, LinkLoses, CallsFailKinds DEF SocketLost, Carried
<1>7. CASE ReplacedSocketLost
  BY <1>1, <1>7, LinkLoses, CallsFailKinds DEF ReplacedSocketLost, Carried
<1>8. CASE Boot
  BY <1>1, <1>8, LinkBoots DEF Boot, CallQuiet, Carried, callVars
<1>9. CASE Evict
  BY <1>1, <1>9, LinkStays DEF Evict, ForgetCalls, CallQuiet, Carried
<1> QED
  BY <1>2, <1>3, <1>4, <1>5, <1>6, <1>7, <1>8, <1>9, Steps DEF LinkOnly

----------------------------------------------------------------------------
\* A call that was not sent yet has no frame and has not run; one that was sent
\* has one frame at most, and none once it ran.

Started(r) ==
  \/ answer[r] \notin {"none", "busy", "offline"}
  \/ phase = "sent" /\ queue # <<>> /\ r = Head(queue)

OnceInv ==
  /\ \A i, j \in DOMAIN queue : queue[i] = queue[j] => i = j
  /\ \A i \in DOMAIN queue : answer[queue[i]] = "none"
  /\ \A r \in Requests : served[r] <= 1 /\ (served[r] = 1 => Started(r))
  /\ \A i \in DOMAIN down : down[i].type = "R" =>
       Started(down[i].request) /\ served[down[i].request] = 0
  /\ \A i, j \in DOMAIN down :
       down[i].type = "R" /\ down[j].type = "R" /\ down[i].request = down[j].request => i = j
  /\ \A i \in DOMAIN upq : upq[i].type = "E" => served[upq[i].request] = 1

\* What of OnceInv is about the frames, for calls that did s and are served so
FramesOnce(d, u, s, n) ==
  /\ \A i \in DOMAIN d : d[i].type = "R" => d[i].request \in s /\ n[d[i].request] = 0
  /\ \A i, j \in DOMAIN d : d[i].type = "R" /\ d[j].type = "R" /\ d[i].request = d[j].request => i = j
  /\ \A i \in DOMAIN u : u[i].type = "E" => n[u[i].request] = 1

StartedSet == {r \in Requests : Started(r)}

QueueOnce ==
  /\ \A i, j \in DOMAIN queue : queue[i] = queue[j] => i = j
  /\ \A i \in DOMAIN queue : answer[queue[i]] = "none"
  /\ \A r \in Requests : served[r] <= 1 /\ (served[r] = 1 => Started(r))

LEMMA RequestOfFrame ==
  ASSUME LinkInv
  PROVE  /\ \A i \in DOMAIN down : down[i].type = "R" => down[i].request \in Requests /\ down[i].id \in 1..IDS
         /\ \A i \in DOMAIN upq : upq[i].type = "E" => upq[i].request \in Requests /\ upq[i].id \in 1..IDS
<1>1. /\ \A i \in DOMAIN down : down[i] \in DownFrames
      /\ \A i \in DOMAIN upq : upq[i] \in UpFrames
  BY DEF LinkInv
<1> QED
  BY <1>1 DEF DownFrames, UpFrames

LEMMA OnceParts == ASSUME LinkInv PROVE OnceInv <=> QueueOnce /\ FramesOnce(down, upq, StartedSet, served)
BY RequestOfFrame DEF OnceInv, QueueOnce, FramesOnce, StartedSet

LEMMA OncePartsNext ==
  ASSUME LinkInv'
  PROVE  OnceInv' <=> QueueOnce' /\ FramesOnce(down', upq', StartedSet', served')
<1>1. (LinkInv => (OnceInv <=> QueueOnce /\ FramesOnce(down, upq, StartedSet, served)))'
  BY OnceParts, PTL
<1> QED
  BY <1>1

LEMMA CarriedOnce ==
  ASSUME LinkInv, LinkInv', FramesOnce(down, upq, StartedSet, served), Carried, served' = served,
         StartedSet \subseteq StartedSet'
  PROVE  FramesOnce(down', upq', StartedSet', served')
<1>1. PICK k \in Nat : \A i \in DOMAIN down' :
        down'[i].type = "R" => i + k \in DOMAIN down /\ down'[i] = down[i + k]
  BY DEF Carried, Kept, OldFrames
<1>2. PICK l \in Nat : \A i \in DOMAIN upq' :
        upq'[i].type = "E" => i + l \in DOMAIN upq /\ upq'[i] = upq[i + l]
  BY DEF Carried, Kept, OldFrames
<1>3. ASSUME NEW i \in DOMAIN down', down'[i].type = "R"
      PROVE  down'[i].request \in StartedSet' /\ served'[down'[i].request] = 0
  BY <1>1, <1>3 DEF FramesOnce
<1>4. ASSUME NEW i \in DOMAIN down', NEW j \in DOMAIN down', down'[i].type = "R", down'[j].type = "R",
             down'[i].request = down'[j].request, i \in Int, j \in Int
      PROVE  i = j
  BY <1>1, <1>4 DEF FramesOnce
<1>5. ASSUME NEW i \in DOMAIN upq', upq'[i].type = "E" PROVE served'[upq'[i].request] = 1
  BY <1>2, <1>5 DEF FramesOnce
<1>6. \A i \in DOMAIN down' : i \in Int
  BY DEF LinkInv
<1> QED
  BY <1>3, <1>4, <1>5, <1>6 DEF FramesOnce

LEMMA QueueHead ==
  ASSUME CallsTypeOK, queue # <<>>
  PROVE  /\ queue \in Seq(Requests) /\ Head(queue) \in Requests
         /\ Head(queue) = queue[1] /\ 1 \in DOMAIN queue
         /\ Tail(queue) \in Seq(Requests)
         /\ \A i \in DOMAIN Tail(queue) : i \in Nat /\ i >= 1 /\ i + 1 \in DOMAIN queue /\ Tail(queue)[i] = queue[i + 1]
         /\ \A i \in DOMAIN queue : i \in Nat /\ i >= 1 /\ (i # 1 => i - 1 \in DOMAIN Tail(queue))
BY DEF CallsTypeOK

\* An answer takes the first of the queue out of it
LEMMA DoneFacts ==
  ASSUME CallsTypeOK, QueueOnce, queue # <<>>, NEW o, o # "none", Done(o)
  PROVE  /\ answer' = [answer EXCEPT ![Head(queue)] = o] /\ answer[Head(queue)] = "none"
         /\ answer'[Head(queue)] = o
         /\ \A r \in Requests : r # Head(queue) => answer'[r] = answer[r]
         /\ \A i, j \in DOMAIN queue' : queue'[i] = queue'[j] => i = j
         /\ \A i \in DOMAIN queue' : queue'[i] # Head(queue) /\ answer'[queue'[i]] = "none"
         /\ \A r \in Requests : Asked(r)' <=> Asked(r)
         /\ phase' = "turn"
<1>1. /\ answer' = [answer EXCEPT ![Head(queue)] = o] /\ queue' = Tail(queue) /\ phase' = "turn"
      /\ answer \in [Requests -> Outcomes] /\ Head(queue) \in Requests
  BY QueueHead DEF Done, CallsTypeOK
<1>2. \A i \in DOMAIN queue' : /\ queue'[i] \in Requests /\ queue'[i] # Head(queue)
                               /\ i + 1 \in DOMAIN queue /\ queue'[i] = queue[i + 1]
  BY <1>1, QueueHead DEF QueueOnce
<1>3. \A i, j \in DOMAIN queue' : queue'[i] = queue'[j] => i = j
  BY <1>1, <1>2, QueueHead DEF QueueOnce
<1>4. answer[Head(queue)] = "none" /\ answer'[Head(queue)] = o
      /\ \A r \in Requests : r # Head(queue) => answer'[r] = answer[r]
  BY <1>1, QueueHead DEF QueueOnce
<1>5. \A i \in DOMAIN queue' : answer'[queue'[i]] = "none"
  BY <1>2, <1>4 DEF QueueOnce
<1>6. ASSUME NEW r \in Requests PROVE Asked(r)' <=> Asked(r)
  <2>2. CASE r = Head(queue)
    <3>1. answer'[r] # "none"
      BY <1>4, <2>2
    <3>2. r = queue[1] /\ 1 \in DOMAIN queue
      BY <2>2, QueueHead
    <3> QED
      BY <3>1, <3>2 DEF Asked
  <2>3. CASE r # Head(queue)
    <3>1. ASSUME NEW i \in DOMAIN queue', queue'[i] = r PROVE \E j \in DOMAIN queue : queue[j] = r
      BY <1>2, <3>1
    <3>2. ASSUME NEW i \in DOMAIN queue, queue[i] = r PROVE \E j \in DOMAIN queue' : queue'[j] = r
      <4>1. i # 1 /\ i \in Nat
        BY <2>3, <3>2, QueueHead
      <4>2. i - 1 \in DOMAIN queue' /\ queue'[i - 1] = queue[(i - 1) + 1]
        BY <1>1, <4>1, QueueHead
      <4>3. (i - 1) + 1 = i
        BY <4>1
      <4> QED
        BY <3>2, <4>2, <4>3
    <3>3. (\E i \in DOMAIN queue' : queue'[i] = r) <=> \E i \in DOMAIN queue : queue[i] = r
      BY <3>1, <3>2
    <3> QED
      BY <1>4, <2>3, <3>3 DEF Asked
  <2> QED
    BY <2>2, <2>3
<1> QED
  BY <1>1, <1>2, <1>3, <1>4, <1>5, <1>6

\* What an answer means for the calls that were sent
LEMMA EndsFacts ==
  ASSUME RelayTyped, OnceInv, NEW o, CallEnds(o)
  PROVE  /\ o # "none" /\ Done(o) /\ queue # <<>> /\ UNCHANGED served
         /\ \A r \in Requests : Started(r)' <=> Started(r)
         /\ o = "offline" => served[Head(queue)] = 0
         /\ o \in {"offline", "timeout", "gone"} \/ (o \in Requests /\ served[o] = 1)
<1>1. /\ queue # <<>> /\ Done(o) /\ UNCHANGED served
      /\ \/ phase = "socket" /\ o = "offline"
         \/ phase = "sent" /\ o \in {"timeout", "gone"}
         \/ phase = "sent" /\ o \in Requests /\ ReplyIs(o)
  BY DEF CallEnds
<1>2. LinkInv /\ CallsTypeOK /\ QueueOnce
  BY OnceParts DEF RelayTyped
<1>3. \A r \in Requests : r \notin {"none", "busy", "offline", "timeout", "gone"}
  BY CallsAssumption
<1>4. o # "none"
  BY <1>1, <1>3
<1>5. /\ answer[Head(queue)] = "none" /\ answer'[Head(queue)] = o /\ phase' = "turn"
      /\ \A r \in Requests : r # Head(queue) => answer'[r] = answer[r]
  BY <1>1, <1>2, <1>4, DoneFacts
<1>6. ASSUME NEW r \in Requests PROVE Started(r)' <=> Started(r)
  <2>1. CASE r # Head(queue)
    BY <1>5, <2>1 DEF Started
  <2>2. CASE r = Head(queue)
    <3>1. Started(r)' <=> o \notin {"none", "busy", "offline"}
      BY <1>5, <2>2 DEF Started
    <3>2. Started(r) <=> phase = "sent"
      BY <1>1, <1>5, <2>2 DEF Started
    <3> QED
      BY <1>1, <1>3, <3>1, <3>2
  <2> QED
    BY <2>1, <2>2
<1>7. o = "offline" => served[Head(queue)] = 0
  <2>1. o = "offline" => phase = "socket"
    BY <1>1, <1>3
  <2>2. phase = "socket" => ~Started(Head(queue))
    BY <1>5 DEF Started
  <2>3. Head(queue) \in Requests /\ served[Head(queue)] \in Nat
    BY <1>1, <1>2, QueueHead DEF CallsTypeOK
  <2> QED
    BY <2>1, <2>2, <2>3, <1>2 DEF QueueOnce
<1>8. ReplyIs(o) => served[o] = 1
  BY DEF ReplyIs, OnceInv
<1> QED
  BY <1>1, <1>4, <1>6, <1>7, <1>8

----------------------------------------------------------------------------
\* Each kind of step keeps OnceInv, and is a step of CallService or none.

CallsImplied == OnceInv' /\ [Calls!Next]_(Calls!vars)

LEMMA NothingSeen ==
  ASSUME UNCHANGED <<queue, answer, served>>
  PROVE  UNCHANGED Calls!vars
<1>1. \A r : Asked(r)' <=> Asked(r)
  BY DEF Asked
<1>2. {r \in Requests : Asked(r)}' = {r \in Requests : Asked(r)}
  BY <1>1
<1> QED
  BY <1>2 DEF Calls!vars

LEMMA OnceQuiet ==
  ASSUME RelayTyped, LinkInv', OnceInv, CallQuiet
  PROVE  CallsImplied
<1>1. /\ UNCHANGED <<queue, answer, served>> /\ Carried
      /\ phase' = phase \/ (phase = "turn" /\ phase' = "socket")
  BY DEF CallQuiet
<1>2. \A r \in Requests : Started(r)' <=> Started(r)
  BY <1>1 DEF Started
<1>3. StartedSet' = StartedSet
  BY <1>2 DEF StartedSet
<1>4. QueueOnce /\ FramesOnce(down, upq, StartedSet, served) /\ LinkInv
  BY OnceParts DEF RelayTyped
<1>5. FramesOnce(down', upq', StartedSet', served')
  BY <1>1, <1>3, <1>4, CarriedOnce
<1>6. QueueOnce'
  BY <1>1, <1>2, <1>4 DEF QueueOnce
<1>7. OnceInv'
  BY <1>5, <1>6, OncePartsNext
<1> QED
  BY <1>1, <1>7, NothingSeen DEF CallsImplied

LEMMA OnceStarts ==
  ASSUME RelayTyped, LinkInv', OnceInv, CallStarts
  PROVE  CallsImplied
<1>1. /\ queue # <<>> /\ phase # "sent" /\ phase' = "sent"
      /\ UNCHANGED <<queue, answer, served, evicted>> /\ AddsFrame
  BY DEF CallStarts
<1>2. QueueOnce /\ FramesOnce(down, upq, StartedSet, served) /\ LinkInv /\ CallsTypeOK
  BY OnceParts DEF RelayTyped
<1> DEFINE h == Head(queue)
<1>3. /\ h \in Requests /\ Frame[1].type = "R" /\ Frame[1].request = h /\ answer[h] = "none"
  BY <1>1, <1>2, QueueHead, FrameTyped DEF QueueOnce
<1>4. ~Started(h) /\ served[h] = 0
  <2>1. ~Started(h)
    BY <1>1, <1>3 DEF Started
  <2>2. served[h] \in Nat
    BY <1>2, <1>3 DEF CallsTypeOK
  <2> QED
    BY <1>2, <1>3, <2>1, <2>2 DEF QueueOnce
<1>5. \A r \in Requests : Started(r)' <=> (Started(r) \/ r = h)
  BY <1>1 DEF Started
<1>6. StartedSet \subseteq StartedSet' /\ h \in StartedSet' /\ h \notin StartedSet
  BY <1>3, <1>4, <1>5 DEF StartedSet
<1> HIDE DEF h
<1>7. \A i \in DOMAIN down' : down'[i].type = "R" =>
        \/ i \in DOMAIN down /\ down'[i] = down[i] /\ down[i].request # h
        \/ i = Len(down) + 1 /\ down'[i].request = h
  BY <1>1, <1>2, <1>3, <1>6 DEF AddsFrame, FramesOnce
<1>8. /\ \A i \in DOMAIN down' : down'[i].type = "R" =>
             down'[i].request \in StartedSet' /\ served'[down'[i].request] = 0
      /\ \A i, j \in DOMAIN down' :
           down'[i].type = "R" /\ down'[j].type = "R" /\ down'[i].request = down'[j].request => i = j
  BY <1>1, <1>2, <1>4, <1>6, <1>7 DEF FramesOnce
<1>9. \A i \in DOMAIN upq' : upq'[i].type = "E" => served'[upq'[i].request] = 1
  BY <1>1, <1>2 DEF AddsFrame, OldFrames, FramesOnce
<1>10. QueueOnce'
  BY <1>1, <1>2, <1>5 DEF QueueOnce
<1>11. OnceInv'
  BY <1>8, <1>9, <1>10, OncePartsNext DEF FramesOnce
<1> QED
  BY <1>1, <1>11, NothingSeen DEF CallsImplied

LEMMA OnceServes ==
  ASSUME RelayTyped, LinkInv', OnceInv, ServeRequest
  PROVE  CallsImplied
<1>1. QueueOnce /\ FramesOnce(down, upq, StartedSet, served) /\ LinkInv /\ CallsTypeOK
  BY OnceParts DEF RelayTyped
<1> DEFINE r == Head(down).request
<1>2. /\ down' = Tail(down) /\ down # <<>> /\ Head(down) = down[1] /\ Head(down).type = "R"
      /\ r \in Requests
      /\ served' = [served EXCEPT ![r] = @ + 1]
      /\ upq' = IF sock THEN Append(upq, Ends(r)) ELSE upq
      /\ Ends(r) \in UpFrames
  BY <1>1, ServeFacts
<1>3. UNCHANGED <<queue, phase, answer>>
  BY DEF ServeRequest
<1>4. /\ down \in Seq(DownFrames) /\ upq \in Seq(UpFrames) /\ 1 \in DOMAIN down
      /\ \A i \in DOMAIN Tail(down) : i \in Nat /\ i >= 1 /\ i + 1 \in DOMAIN down /\ Tail(down)[i] = down[i + 1]
  <2>1. down \in Seq(DownFrames) /\ upq \in Seq(UpFrames)
    BY <1>1 DEF LinkInv
  <2> QED
    BY <1>2, <2>1
<1>5. Started(r) /\ served[r] = 0 /\ served \in [Requests -> Nat]
  BY <1>1, <1>2, <1>4 DEF OnceInv, CallsTypeOK
<1>6. served'[r] = 1 /\ \A q \in Requests : q # r => served'[q] = served[q]
  BY <1>2, <1>5
<1>7. \A q \in Requests : Started(q)' <=> Started(q)
  BY <1>3 DEF Started
<1>8. StartedSet' = StartedSet
  BY <1>7 DEF StartedSet
<1>9. \A i \in DOMAIN down' : down'[i].type = "R" =>
        /\ i + 1 \in DOMAIN down /\ down'[i] = down[i + 1] /\ i \in Nat
        /\ down'[i].request # r /\ down'[i].request \in Requests
  <2>1. ASSUME NEW i \in DOMAIN Tail(down), Tail(down)[i].type = "R"
        PROVE  down[i + 1].request # r
    <3>1. i + 1 \in DOMAIN down /\ down[i + 1].type = "R" /\ i + 1 # 1
      BY <1>4, <2>1
    <3>2. down[1].type = "R" /\ down[1].request = r
      BY <1>2
    <3> QED
      BY <1>1, <1>4, <3>1, <3>2 DEF FramesOnce
  <2> QED
    BY <1>1, <1>2, <1>4, <2>1, RequestOfFrame
<1> HIDE DEF r
<1>10. \A i \in DOMAIN upq' : upq'[i].type = "E" =>
         (i \in DOMAIN upq /\ upq'[i] = upq[i]) \/ upq'[i].request = r
  <2>1. Ends(r).request = r
    BY DEF Ends
  <2> HIDE DEF Ends
  <2>2. \A i \in DOMAIN Append(upq, Ends(r)) :
          (i \in DOMAIN upq /\ Append(upq, Ends(r))[i] = upq[i]) \/ Append(upq, Ends(r))[i] = Ends(r)
    BY <1>2, <1>4
  <2> QED
    BY <1>2, <2>1, <2>2
<1>11. FramesOnce(down', upq', StartedSet', served')
  <2>1. \A i \in DOMAIN down' : down'[i].type = "R" =>
          down'[i].request \in StartedSet' /\ served'[down'[i].request] = 0
    BY <1>1, <1>6, <1>8, <1>9 DEF FramesOnce
  <2>2. \A i, j \in DOMAIN down' :
          down'[i].type = "R" /\ down'[j].type = "R" /\ down'[i].request = down'[j].request => i = j
    BY <1>1, <1>9 DEF FramesOnce
  <2>3. \A i \in DOMAIN upq' : upq'[i].type = "E" => served'[upq'[i].request] = 1
    <3>1. \A i \in DOMAIN upq : upq[i].type = "E" => upq[i].request \in Requests /\ served[upq[i].request] = 1
      BY <1>1, RequestOfFrame DEF FramesOnce
    <3> QED
      BY <1>5, <1>6, <1>10, <3>1
  <2> QED
    BY <2>1, <2>2, <2>3 DEF FramesOnce
<1>12. QueueOnce'
  BY <1>1, <1>3, <1>5, <1>6, <1>7 DEF QueueOnce
<1>13. OnceInv'
  BY <1>11, <1>12, OncePartsNext
<1>14. r \in {q \in Requests : Asked(q)} /\ answer[r] \notin {"busy", "offline"}
  <2>1. queue # <<>> /\ r = Head(queue) => r = queue[1] /\ 1 \in DOMAIN queue /\ answer[r] = "none"
    BY <1>1, QueueHead DEF QueueOnce
  <2> QED
    BY <1>2, <1>5, <2>1 DEF Started, Asked
<1>15. {q \in Requests : Asked(q)}' = {q \in Requests : Asked(q)}
  BY <1>3 DEF Asked
<1>16. served' = [served EXCEPT ![r] = 1]
  BY <1>2, <1>5
<1>17. Calls!Serve(r)
  BY <1>3, <1>5, <1>14, <1>15, <1>16 DEF Calls!Serve, Calls!NotRun
<1>18. Calls!Next
  <2>1. PICK q \in Requests : q = r
    BY <1>2
  <2>2. Calls!Serve(q)
    BY <1>17, <2>1
  <2> QED
    BY <2>2 DEF Calls!Next
<1> QED
  BY <1>13, <1>18 DEF CallsImplied

LEMMA OnceEnds ==
  ASSUME RelayTyped, LinkInv', OnceInv, NEW o, CallEnds(o)
  PROVE  CallsImplied
<1>1. QueueOnce /\ FramesOnce(down, upq, StartedSet, served) /\ LinkInv /\ CallsTypeOK
  BY OnceParts DEF RelayTyped
<1>2. /\ o # "none" /\ Done(o) /\ queue # <<>> /\ served' = served
      /\ \A r \in Requests : Started(r)' <=> Started(r)
      /\ o = "offline" => served[Head(queue)] = 0
      /\ o \in {"offline", "timeout", "gone"} \/ (o \in Requests /\ served[o] = 1)
  BY EndsFacts
<1>3. Carried
  BY DEF CallEnds
<1>4. StartedSet' = StartedSet
  BY <1>2 DEF StartedSet
<1>5. FramesOnce(down', upq', StartedSet', served')
  BY <1>1, <1>2, <1>3, <1>4, CarriedOnce
<1>6. /\ answer' = [answer EXCEPT ![Head(queue)] = o] /\ answer[Head(queue)] = "none"
      /\ \A i, j \in DOMAIN queue' : queue'[i] = queue'[j] => i = j
      /\ \A i \in DOMAIN queue' : answer'[queue'[i]] = "none"
      /\ \A r \in Requests : Asked(r)' <=> Asked(r)
  BY <1>1, <1>2, DoneFacts
<1>7. QueueOnce'
  BY <1>1, <1>2, <1>6 DEF QueueOnce
<1>8. OnceInv'
  BY <1>5, <1>7, OncePartsNext
<1>9. {r \in Requests : Asked(r)}' = {r \in Requests : Asked(r)}
  BY <1>6
<1>10. PICK h \in Requests : h = Head(queue)
  BY <1>1, <1>2, QueueHead
<1>11. h \in {r \in Requests : Asked(r)}
  BY <1>1, <1>2, <1>10, QueueHead DEF Asked
<1>12. Calls!Answer(h)
  BY <1>2, <1>6, <1>9, <1>10, <1>11 DEF Calls!Answer, Calls!Unknown
<1> QED
  BY <1>8, <1>12 DEF CallsImplied, Calls!Next

LEMMA OnceAsked ==
  ASSUME RelayTyped, LinkInv', OnceInv, NEW r \in Requests, CallAsked(r)
  PROVE  CallsImplied
<1>1. QueueOnce /\ FramesOnce(down, upq, StartedSet, served) /\ LinkInv /\ CallsTypeOK
  BY OnceParts DEF RelayTyped
<1>2. /\ Carried /\ ~Asked(r) /\ UNCHANGED <<phase, served>>
      /\ \/ queue' = Append(queue, r) /\ UNCHANGED answer
         \/ answer' = [answer EXCEPT ![r] = "busy"] /\ UNCHANGED queue
  BY DEF CallAsked, Ask
<1>3. /\ answer[r] = "none" /\ \A i \in DOMAIN queue : queue[i] # r
      /\ queue \in Seq(Requests) /\ answer \in [Requests -> Outcomes]
      /\ phase # "turn" => queue # <<>>
  BY <1>1, <1>2 DEF Asked, CallsTypeOK
<1>4. CASE queue' = Append(queue, r) /\ UNCHANGED answer
  <2>1. /\ Len(queue) \in Nat /\ DOMAIN queue = 1..Len(queue) /\ DOMAIN queue' = 1..(Len(queue) + 1)
        /\ queue'[Len(queue) + 1] = r /\ \A i \in 1..Len(queue) : queue'[i] = queue[i]
        /\ queue' # <<>> /\ (queue # <<>> => Head(queue') = Head(queue))
    BY <1>3, <1>4
  <2>2. \A q \in Requests : Started(q)' <=> Started(q)
    BY <1>2, <1>3, <1>4, <2>1 DEF Started
  <2>3. StartedSet' = StartedSet
    BY <2>2 DEF StartedSet
  <2>4. FramesOnce(down', upq', StartedSet', served')
    BY <1>1, <1>2, <2>3, CarriedOnce
  <2>5. QueueOnce'
    <3>1. \A i \in DOMAIN queue' : i \in Nat /\ (i \in DOMAIN queue \/ i = Len(queue) + 1)
      BY <2>1
    <3>2. \A i, j \in DOMAIN queue' : queue'[i] = queue'[j] => i = j
      BY <1>1, <1>3, <2>1, <3>1 DEF QueueOnce
    <3>3. \A i \in DOMAIN queue' : answer'[queue'[i]] = "none"
      BY <1>1, <1>3, <1>4, <2>1, <3>1 DEF QueueOnce
    <3> QED
      BY <1>1, <1>2, <2>2, <3>2, <3>3 DEF QueueOnce
  <2>6. OnceInv'
    BY <2>4, <2>5, OncePartsNext
  <2>7. \A q \in Requests : Asked(q)' <=> (Asked(q) \/ q = r)
    <3> SUFFICES ASSUME NEW q \in Requests PROVE Asked(q)' <=> (Asked(q) \/ q = r)
      OBVIOUS
    <3>1. (\E i \in DOMAIN queue' : queue'[i] = q) <=> ((\E i \in DOMAIN queue : queue[i] = q) \/ q = r)
      BY <2>1
    <3> QED
      BY <1>4, <3>1 DEF Asked
  <2>8. {q \in Requests : Asked(q)}' = {q \in Requests : Asked(q)} \cup {r}
    BY <2>7
  <2>9. Calls!Ask(r)
    BY <1>2, <1>4, <2>8 DEF Calls!Ask
  <2> QED
    BY <2>6, <2>9 DEF CallsImplied, Calls!Next
<1>5. CASE answer' = [answer EXCEPT ![r] = "busy"] /\ UNCHANGED queue
  <2>1. answer'[r] = "busy" /\ \A q \in Requests : q # r => answer'[q] = answer[q]
    BY <1>3, <1>5
  <2>2. ASSUME NEW q \in Requests PROVE Started(q)' <=> Started(q)
    <3>1. queue # <<>> => Head(queue) = queue[1] /\ 1 \in DOMAIN queue
      BY <1>3
    <3>2. q = r => ~Started(q) /\ ~Started(q)'
      BY <1>2, <1>3, <1>5, <2>1, <3>1 DEF Started
    <3>3. q # r => (Started(q)' <=> Started(q))
      BY <1>2, <1>5, <2>1 DEF Started
    <3> QED
      BY <3>2, <3>3
  <2>3. StartedSet' = StartedSet
    BY <2>2 DEF StartedSet
  <2>4. FramesOnce(down', upq', StartedSet', served')
    BY <1>1, <1>2, <2>3, CarriedOnce
  <2>5. QueueOnce'
    <3>1. \A i \in DOMAIN queue : queue[i] \in Requests
      BY <1>3
    <3> QED
      BY <1>1, <1>2, <1>3, <1>5, <2>1, <2>2, <3>1 DEF QueueOnce
  <2>6. OnceInv'
    BY <2>4, <2>5, OncePartsNext
  <2>7. \A q \in Requests : Asked(q)' <=> (Asked(q) \/ q = r)
    BY <1>5, <2>1 DEF Asked
  <2>8. {q \in Requests : Asked(q)}' = {q \in Requests : Asked(q)} \cup {r}
    BY <2>7
  <2>9. Calls!Ask(r)
    BY <1>2, <1>5, <2>8 DEF Calls!Ask
  <2> QED
    BY <2>6, <2>9 DEF CallsImplied, Calls!Next
<1> QED
  BY <1>2, <1>4, <1>5

LEMMA OnceKept == RelayTyped /\ RelayTyped' /\ OnceInv /\ [Next]_vars => CallsImplied
<1> SUFFICES ASSUME RelayTyped, RelayTyped', OnceInv, [Next]_vars PROVE CallsImplied
  OBVIOUS
<1>1. LinkInv'
  BY DEF RelayTyped
<1>2. CASE UNCHANGED vars
  <2>1. UNCHANGED <<queue, answer, served, phase, down, upq>>
    BY <1>2 DEF vars, linkVars, callVars
  <2>2. OnceInv'
    BY <2>1 DEF OnceInv, Started
  <2> QED
    BY <2>1, <2>2, NothingSeen DEF CallsImplied
<1> QED
  BY <1>1, <1>2, AllCallKinds, OnceQuiet, OnceStarts, OnceServes, OnceEnds, OnceAsked

LEMMA OnceInit == Init => OnceInv /\ Calls!Init
<1> SUFFICES ASSUME CallsInit, LinkInit PROVE OnceInv /\ Calls!Init
  BY DEF Init
<1>1. /\ queue = <<>> /\ phase = "turn" /\ answer = [r \in Requests |-> "none"]
      /\ served = [r \in Requests |-> 0] /\ down = <<>> /\ upq = <<>>
  BY DEF CallsInit, LinkInit
<1>2. OnceInv
  BY <1>1 DEF OnceInv, Started
<1>3. {r \in Requests : Asked(r)} = {}
  BY <1>1 DEF Asked
<1> QED
  BY <1>1, <1>2, <1>3 DEF Calls!Init

\* The Worker and the device implement CallService: however the connection
\* breaks, a request runs at most once, and not at all after "busy" or "offline"
\* (worker.mjs:125-203, 278)
THEOREM CallsOnce == Spec => CallsAtMostOnce
<1>1. OnceInv /\ RelayTyped /\ RelayTyped' /\ [Next]_vars => OnceInv' /\ [Calls!Next]_(Calls!vars)
  BY OnceKept DEF CallsImplied
<1> QED
  BY <1>1, OnceInit, RelayAlwaysTyped, PTL DEF Spec, CallsAtMostOnce, Calls!Spec

----------------------------------------------------------------------------
\* While the Worker keeps its memory, and has numbers enough, each call has a
\* number of its own: the answer that has the number of the call that waits is
\* the answer to that call.

FewRequests == IsFiniteSet(Requests) /\ Cardinality(Requests) <= IDS

NumbersOwn ==
  /\ id <= Cardinality(StartedSet)
  /\ \A i \in DOMAIN down : down[i].type = "R" =>
       down[i].id <= id /\ (phase = "sent" /\ down[i].id = id => down[i].request = Head(queue))
  /\ \A i \in DOMAIN upq : upq[i].type = "E" =>
       upq[i].id <= id /\ (phase = "sent" /\ upq[i].id = id => upq[i].request = Head(queue))
  /\ \A r \in Requests : answer[r] \in Requests => answer[r] = r

NumbersInv == evicted \/ NumbersOwn

LEMMA CarriedOwn ==
  ASSUME NumbersOwn, Carried, UNCHANGED id,
         (phase' = phase /\ queue' = queue) \/ phase' # "sent"
  PROVE  /\ \A i \in DOMAIN down' : down'[i].type = "R" =>
              down'[i].id <= id' /\ (phase' = "sent" /\ down'[i].id = id' => down'[i].request = Head(queue'))
         /\ \A i \in DOMAIN upq' : upq'[i].type = "E" =>
              upq'[i].id <= id' /\ (phase' = "sent" /\ upq'[i].id = id' => upq'[i].request = Head(queue'))
<1>1. PICK k \in Nat : \A i \in DOMAIN down' :
        down'[i].type = "R" => i + k \in DOMAIN down /\ down'[i] = down[i + k]
  BY DEF Carried, Kept, OldFrames
<1>2. PICK l \in Nat : \A i \in DOMAIN upq' :
        upq'[i].type = "E" => i + l \in DOMAIN upq /\ upq'[i] = upq[i + l]
  BY DEF Carried, Kept, OldFrames
<1>3. \A i \in DOMAIN down' : down'[i].type = "R" =>
        down'[i].id <= id' /\ (phase' = "sent" /\ down'[i].id = id' => down'[i].request = Head(queue'))
  BY <1>1 DEF NumbersOwn
<1>4. \A i \in DOMAIN upq' : upq'[i].type = "E" =>
        upq'[i].id <= id' /\ (phase' = "sent" /\ upq'[i].id = id' => upq'[i].request = Head(queue'))
  BY <1>2 DEF NumbersOwn
<1> QED
  BY <1>3, <1>4

LEMMA NumbersKept ==
  ASSUME FewRequests, RelayTyped, RelayTyped', OnceInv, NumbersInv, Next
  PROVE  NumbersInv'
<1> SUFFICES ASSUME ~evicted' PROVE NumbersOwn'
  BY DEF NumbersInv
<1>0. /\ LinkInv /\ CallsTypeOK /\ QueueOnce /\ (evicted => evicted')
      /\ id \in 0..IDS /\ IDS \in Nat /\ id \in Nat /\ answer \in [Requests -> Outcomes]
  <2>1. evicted => evicted'
    BY AllCallKinds DEF CallQuiet, CallStarts, CallEnds, CallAsked, Ask, ServeRequest
  <2> QED
    BY <2>1, OnceParts, CallsAssumption DEF RelayTyped, CallsTypeOK
<1>1. NumbersOwn
  BY <1>0 DEF NumbersInv
<1>2. CASE CallQuiet
  <2>1. /\ UNCHANGED <<queue, answer, served, id>> /\ Carried
        /\ phase' = phase \/ (phase = "turn" /\ phase' = "socket")
    BY <1>2 DEF CallQuiet
  <2>2. StartedSet' = StartedSet
    BY <2>1 DEF StartedSet, Started
  <2> QED
    BY <1>1, <2>1, <2>2, CarriedOwn DEF NumbersOwn
<1>3. CASE CallStarts
  <2> DEFINE h == Head(queue)
  <2>1. /\ queue # <<>> /\ phase # "sent" /\ phase' = "sent" /\ id' = NextId
        /\ UNCHANGED <<queue, answer>> /\ AddsFrame
    BY <1>3 DEF CallStarts
  <2>2. h \in Requests /\ answer[h] = "none" /\ Frame[1].request = h /\ Frame[1].id = NextId
    BY <1>0, <2>1, QueueHead, FrameTyped DEF QueueOnce
  <2>3. ~Started(h) /\ \A r \in Requests : Started(r)' <=> (Started(r) \/ r = h)
    BY <2>1, <2>2 DEF Started
  <2>4. StartedSet' = StartedSet \cup {h} /\ h \notin StartedSet /\ StartedSet \subseteq Requests
    BY <2>2, <2>3 DEF StartedSet
  <2>5. /\ IsFiniteSet(StartedSet) /\ IsFiniteSet(StartedSet')
        /\ Cardinality(StartedSet') = Cardinality(StartedSet) + 1
        /\ Cardinality(StartedSet') <= Cardinality(Requests)
        /\ Cardinality(StartedSet) \in Nat /\ Cardinality(Requests) \in Nat
    <3>1. IsFiniteSet(StartedSet)
      BY <2>4, FS_Subset DEF FewRequests
    <3>2. StartedSet' \subseteq Requests
      BY <2>2, <2>4
    <3> QED
      BY <2>4, <3>1, <3>2, FS_Subset, FS_AddElement, FS_CardinalityType DEF FewRequests
  <2>6. id < IDS /\ id' = id + 1
    BY <1>0, <1>1, <2>1, <2>5, NextIdFits DEF NumbersOwn, FewRequests
  <2>7. id' <= Cardinality(StartedSet')
    BY <1>0, <1>1, <2>5, <2>6 DEF NumbersOwn
  <2>8. \A i \in DOMAIN down : down[i].type = "R" => down[i].id < id'
    BY <1>0, <1>1, <2>6, RequestOfFrame DEF NumbersOwn
  <2>9. \A i \in DOMAIN upq : upq[i].type = "E" => upq[i].id < id'
    BY <1>0, <1>1, <2>6, RequestOfFrame DEF NumbersOwn
  <2>10. /\ \A i \in DOMAIN down : down[i].type = "R" => down[i].id \in Nat
         /\ \A i \in DOMAIN upq : upq[i].type = "E" => upq[i].id \in Nat
    BY <1>0, RequestOfFrame
  <2> HIDE DEF h
  <2>11. \A i \in DOMAIN down' : down'[i].type = "R" =>
           down'[i].id <= id' /\ (down'[i].id = id' => down'[i].request = h)
    BY <1>0, <2>1, <2>2, <2>6, <2>8, <2>10 DEF AddsFrame
  <2>12. PICK l \in Nat : \A i \in DOMAIN upq' :
           upq'[i].type = "E" => i + l \in DOMAIN upq /\ upq'[i] = upq[i + l]
    BY <2>1 DEF AddsFrame, OldFrames
  <2>13. \A i \in DOMAIN upq' : upq'[i].type = "E" => upq'[i].id <= id' /\ upq'[i].id # id'
    BY <1>0, <2>6, <2>9, <2>10, <2>12
  <2>14. Head(queue') = h
    BY <2>1 DEF h
  <2> QED
    BY <1>1, <2>1, <2>7, <2>11, <2>13, <2>14 DEF NumbersOwn
<1>4. CASE ServeRequest
  <2> DEFINE f == Head(down)
  <2>1. /\ down # <<>> /\ f = down[1] /\ f.type = "R"
        /\ upq' = IF sock THEN Append(upq, Ends(f.request)) ELSE upq
        /\ Ends(f.request) \in UpFrames
        /\ OldFrames(down, down', "R")
        /\ UNCHANGED <<queue, phase, id, answer>>
    BY <1>0, <1>4, ServeFacts
  <2>2. 1 \in DOMAIN down /\ upq \in Seq(UpFrames)
    BY <1>0, <2>1 DEF LinkInv
  <2>3. f.id <= id /\ (phase = "sent" /\ f.id = id => f.request = Head(queue))
    BY <1>1, <2>1, <2>2 DEF NumbersOwn
  <2>4. \A i \in DOMAIN upq' : upq'[i].type = "E" =>
          (i \in DOMAIN upq /\ upq'[i] = upq[i]) \/ (upq'[i].id = f.id /\ upq'[i].request = f.request)
    <3>1. Ends(f.request).request = f.request /\ Ends(f.request).id = f.id
      BY DEF Ends
    <3> HIDE DEF Ends, f
    <3>2. \A i \in DOMAIN Append(upq, Ends(f.request)) :
            \/ i \in DOMAIN upq /\ Append(upq, Ends(f.request))[i] = upq[i]
            \/ Append(upq, Ends(f.request))[i] = Ends(f.request)
      BY <2>1, <2>2
    <3> QED
      BY <2>1, <3>1, <3>2
  <2>5. PICK k \in Nat : \A i \in DOMAIN down' :
          down'[i].type = "R" => i + k \in DOMAIN down /\ down'[i] = down[i + k]
    BY <2>1 DEF OldFrames
  <2> HIDE DEF f
  <2>6. \A i \in DOMAIN down' : down'[i].type = "R" =>
          down'[i].id <= id' /\ (phase' = "sent" /\ down'[i].id = id' => down'[i].request = Head(queue'))
    BY <1>1, <2>1, <2>5 DEF NumbersOwn
  <2>7. \A i \in DOMAIN upq' : upq'[i].type = "E" =>
          upq'[i].id <= id' /\ (phase' = "sent" /\ upq'[i].id = id' => upq'[i].request = Head(queue'))
    BY <1>1, <2>1, <2>3, <2>4 DEF NumbersOwn
  <2>8. StartedSet' = StartedSet
    BY <2>1 DEF StartedSet, Started
  <2> QED
    BY <1>1, <2>1, <2>6, <2>7, <2>8 DEF NumbersOwn
<1>5. ASSUME NEW o, CallEnds(o) PROVE NumbersOwn'
  <2>1. /\ o # "none" /\ Done(o) /\ queue # <<>> /\ UNCHANGED id /\ Carried
        /\ \A r \in Requests : Started(r)' <=> Started(r)
    BY <1>5, EndsFacts DEF CallEnds
  <2>2. /\ answer'[Head(queue)] = o /\ phase' = "turn"
        /\ \A r \in Requests : r # Head(queue) => answer'[r] = answer[r]
    BY <1>0, <2>1, DoneFacts
  <2>3. StartedSet' = StartedSet
    BY <2>1 DEF StartedSet
  <2>4. o \in Requests => o = Head(queue)
    <3>1. \A r \in Requests : r \notin {"none", "busy", "offline", "timeout", "gone"}
      BY CallsAssumption
    <3>2. o \in Requests => phase = "sent" /\ ReplyIs(o)
      BY <1>5, <3>1 DEF CallEnds
    <3> QED
      BY <1>1, <3>2 DEF ReplyIs, NumbersOwn
  <2>5. \A r \in Requests : answer'[r] \in Requests => answer'[r] = r
    BY <1>1, <2>2, <2>4 DEF NumbersOwn
  <2> QED
    BY <1>1, <2>1, <2>2, <2>3, <2>5, CarriedOwn DEF NumbersOwn
<1>6. ASSUME NEW r \in Requests, CallAsked(r) PROVE NumbersOwn'
  <2>1. /\ Carried /\ ~Asked(r) /\ UNCHANGED <<phase, id>>
        /\ \/ queue' = Append(queue, r) /\ UNCHANGED answer
           \/ answer' = [answer EXCEPT ![r] = "busy"] /\ UNCHANGED queue
    BY <1>6 DEF CallAsked, Ask
  <2>2. /\ queue \in Seq(Requests) /\ (phase # "turn" => queue # <<>>)
        /\ queue # <<>> => Head(queue) = queue[1] /\ 1 \in DOMAIN queue
    BY <1>0 DEF CallsTypeOK
  <2>3. phase = "sent" => queue' # <<>> /\ Head(queue') = Head(queue)
    BY <2>1, <2>2
  <2>4. answer[r] = "none" /\ (queue # <<>> => Head(queue) # r)
    BY <2>1, <2>2 DEF Asked
  <2>5. \A q \in Requests : answer'[q] = answer[q] \/ (q = r /\ answer'[q] = "busy")
    BY <1>0, <2>1
  <2>6. \A q \in Requests : Started(q)' <=> Started(q)
    BY <2>1, <2>2, <2>3, <2>4, <2>5 DEF Started
  <2>7. StartedSet' = StartedSet
    BY <2>6 DEF StartedSet
  <2>8. \A q \in Requests : answer'[q] \in Requests => answer'[q] = q
    <3>1. "busy" \notin Requests
      BY CallsAssumption
    <3> QED
      BY <1>1, <2>5, <3>1 DEF NumbersOwn
  <2>9. PICK k \in Nat : \A i \in DOMAIN down' :
          down'[i].type = "R" => i + k \in DOMAIN down /\ down'[i] = down[i + k]
    BY <2>1 DEF Carried, Kept, OldFrames
  <2>10. PICK l \in Nat : \A i \in DOMAIN upq' :
          upq'[i].type = "E" => i + l \in DOMAIN upq /\ upq'[i] = upq[i + l]
    BY <2>1 DEF Carried, Kept, OldFrames
  <2>11. \A i \in DOMAIN down' : down'[i].type = "R" =>
          down'[i].id <= id' /\ (phase' = "sent" /\ down'[i].id = id' => down'[i].request = Head(queue'))
    BY <1>1, <2>1, <2>3, <2>9 DEF NumbersOwn
  <2>12. \A i \in DOMAIN upq' : upq'[i].type = "E" =>
          upq'[i].id <= id' /\ (phase' = "sent" /\ upq'[i].id = id' => upq'[i].request = Head(queue'))
    BY <1>1, <2>1, <2>3, <2>10 DEF NumbersOwn
  <2> QED
    BY <1>1, <2>1, <2>7, <2>8, <2>11, <2>12 DEF NumbersOwn
<1> QED
  BY <1>2, <1>3, <1>4, <1>5, <1>6, AllCallKinds

LEMMA NumbersInit == Init => NumbersInv
<1> SUFFICES ASSUME CallsInit, LinkInit PROVE NumbersOwn
  BY DEF Init, NumbersInv
<1>1. /\ queue = <<>> /\ phase = "turn" /\ id = 0 /\ answer = [r \in Requests |-> "none"]
      /\ down = <<>> /\ upq = <<>>
  BY DEF CallsInit, LinkInit
<1>2. StartedSet = {}
  BY <1>1 DEF StartedSet, Started
<1>3. "none" \notin Requests
  BY CallsAssumption
<1> QED
  BY <1>1, <1>2, <1>3, FS_EmptySet DEF NumbersOwn

\* With no more requests than there are numbers, no caller gets another's
\* answer, unless the Worker's memory was dropped (worker.mjs:115-117, 175)
THEOREM AnswersOwn == FewRequests => (Spec => []AnswerIsOwn)
<1> SUFFICES ASSUME FewRequests PROVE Spec => []AnswerIsOwn
  OBVIOUS
<1>1. OnceInv /\ RelayTyped /\ RelayTyped' /\ NumbersInv /\ [Next]_vars => OnceInv' /\ NumbersInv'
  <2> SUFFICES ASSUME OnceInv, RelayTyped, RelayTyped', NumbersInv, [Next]_vars PROVE OnceInv' /\ NumbersInv'
    OBVIOUS
  <2>1. OnceInv'
    BY OnceKept DEF CallsImplied
  <2>2. CASE UNCHANGED vars
    <3>1. UNCHANGED <<queue, answer, served, phase, id, evicted, down, upq>>
      BY <2>2 DEF vars, linkVars, callVars
    <3> QED
      BY <2>1, <3>1 DEF NumbersInv, NumbersOwn, StartedSet, Started
  <2> QED
    BY <2>1, <2>2, NumbersKept
<1>2. NumbersInv => AnswerIsOwn
  BY DEF NumbersInv, NumbersOwn, AnswerIsOwn
<1> QED
  BY <1>1, <1>2, OnceInit, NumbersInit, RelayAlwaysTyped, PTL DEF Spec

=============================================================================
