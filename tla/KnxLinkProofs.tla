--------------------------- MODULE KnxLinkProofs ---------------------------
(***************************************************************************)
(* The connection to the bus reads every telegram as what it is, and hands  *)
(* them to the listener in their order, for any number of telegrams, reads  *)
(* inside each other, interruptions and failures.                           *)
(***************************************************************************)
EXTENDS KnxLink, SequenceTheorems, TLAPS

Parts == [telegram : Nat \ {0}, part : {"head", "body"}, kind : {"good", "bad", "unknown"}]

\* What the telegrams on their way are about; most steps leave it alone.
stream == <<inside, wire, unsent, telegrams, delivered, skipped>>

StreamTypes ==
    /\ telegrams \in Nat
    /\ wire \in Seq(Parts)
    /\ inside \in Parts \cup {None}
    /\ unsent \in Parts \cup {None}
    /\ delivered \in Seq(Nat)
    /\ skipped \subseteq Nat

\* Heads and bodies take turns, from the head that was read, if any, to the
\* body that the daemon has still to send.
Framed ==
    /\ \A i, j \in 1..Len(wire) : j = i + 1 => wire[j].part # wire[i].part
    /\ wire # <<>> => wire[1].part = (IF inside = None THEN "head" ELSE "body")
    /\ wire # <<>> => (wire[Len(wire)].part = "head" <=> unsent # None)
    /\ wire = <<>> => (inside # None <=> unsent # None)
    /\ unsent # None => unsent.part = "body"

\* A head and the body behind it belong to the same telegram.
Paired ==
    /\ \A i, j \in 1..Len(wire) :
          j = i + 1 /\ wire[i].part = "head" => wire[j].telegram = wire[i].telegram
    /\ inside # None =>
          inside.telegram = IF wire = <<>> THEN unsent.telegram ELSE wire[1].telegram
    /\ unsent # None /\ wire # <<>> => unsent.telegram = wire[Len(wire)].telegram

\* The telegrams on the wire are in the order of the bus.
Ordered ==
    /\ \A i, j \in 1..Len(wire) :
          i < j => /\ wire[i].telegram <= wire[j].telegram
                   /\ wire[i].part = "body" => wire[i].telegram < wire[j].telegram
    /\ \A i \in 1..Len(wire) : wire[i].telegram <= telegrams
    /\ inside # None => inside.telegram <= telegrams
    /\ unsent # None =>
          /\ unsent.telegram = telegrams
          /\ \A i \in 1..Len(wire) : wire[i].part = "body" => wire[i].telegram < telegrams

Heard == {delivered[i] : i \in 1..Len(delivered)}

\* The telegrams that are not read completely.
OnTheWay == Unread \ {0}

\* Each telegram is on its way, was handed over or thrown away, and those on
\* their way are behind all others.
Accounted ==
    /\ \A n \in 1..telegrams : n \in Heard \/ n \in skipped \/ n \in OnTheWay
    /\ \A n \in Heard \cup skipped : n \in 1..telegrams /\ \A m \in OnTheWay : n < m
    /\ \A n \in Heard : n \notin skipped
    /\ \A i, j \in 1..Len(delivered) : i < j => delivered[i] < delivered[j]

StreamInv == StreamTypes /\ Framed /\ Paired /\ Ordered /\ Accounted

\* Only a head in two pieces leaves a wrong size behind, and only a read with a
\* wrong size takes for a telegram what is none.
OnlyByPieces == splits \in Nat /\ (half \/ ~framed \/ misread => splits > 0)

\* A head, or a body, is passed, whether it is read as what it is or not.
HeadPassed == wire # <<>> /\ Head(wire).part = "head" /\ PassHead
BodyPassed(n) == wire # <<>> /\ Head(wire).part = "body" /\ PassBody(n)
-----------------------------------------------------------------------------
\* The parts on the wire.
LEMMA Wire ==
    ASSUME NEW w \in Seq(Parts)
    PROVE  /\ Len(w) \in Nat
           /\ w = <<>> <=> Len(w) = 0
           /\ \A i \in 1..Len(w) : /\ w[i] \in Parts
                                   /\ w[i].telegram \in Nat \ {0}
                                   /\ w[i].part \in {"head", "body"}
<1>1. Len(w) \in Nat /\ \A i \in 1..Len(w) : w[i] \in Parts
  BY LenProperties, ElementOfSeq
<1>2. w = <<>> <=> Len(w) = 0
  BY EmptySeq
<1> QED BY <1>1, <1>2 DEF Parts

\* What is on its way is on the wire, read in part or sent in part, before and
\* after a step.
LEMMA OnTheWayNowAndNext ==
    /\ StreamTypes => \A m : m \in OnTheWay
         <=> \/ \E k \in 1..Len(wire) : wire[k].telegram = m
             \/ inside # None /\ inside.telegram = m
             \/ unsent # None /\ unsent.telegram = m
    /\ StreamTypes' => \A m : m \in OnTheWay'
         <=> \/ \E k \in 1..Len(wire') : wire'[k].telegram = m
             \/ inside' # None /\ inside'.telegram = m
             \/ unsent' # None /\ unsent'.telegram = m
<1>1. \A x \in Parts \cup {None} : (x # None => x.telegram # 0) /\ None.telegram = 0
  BY DEF Parts, None, Part
<1>2. \A w \in Seq(Parts) : \A k \in 1..Len(w) : w[k].telegram # 0
  BY Wire
<1>3. ASSUME StreamTypes, NEW m
      PROVE  m \in OnTheWay
               <=> \/ \E k \in 1..Len(wire) : wire[k].telegram = m
                   \/ inside # None /\ inside.telegram = m
                   \/ unsent # None /\ unsent.telegram = m
  <2>1. wire \in Seq(Parts) /\ inside \in Parts \cup {None} /\ unsent \in Parts \cup {None}
    BY <1>3 DEF StreamTypes
  <2>2. /\ \A k \in 1..Len(wire) : wire[k].telegram # 0
        /\ (inside # None) <=> inside.telegram # 0
        /\ (unsent # None) <=> unsent.telegram # 0
    BY <1>1, <1>2, <2>1
  <2>3. m \in OnTheWay <=> /\ \/ \E k \in 1..Len(wire) : wire[k].telegram = m
                              \/ inside.telegram = m
                              \/ unsent.telegram = m
                           /\ m # 0
    BY Zenon DEF OnTheWay, Unread
  <2> QED BY <2>2, <2>3, Zenon
<1>4. ASSUME StreamTypes', NEW m
      PROVE  m \in OnTheWay'
               <=> \/ \E k \in 1..Len(wire') : wire'[k].telegram = m
                   \/ inside' # None /\ inside'.telegram = m
                   \/ unsent' # None /\ unsent'.telegram = m
  <2>0. None' = None
    BY DEF None, Part
  <2>1. wire' \in Seq(Parts) /\ inside' \in Parts \cup {None} /\ unsent' \in Parts \cup {None}
    BY <1>4, <2>0 DEF StreamTypes
  <2>2. /\ \A k \in 1..Len(wire') : wire'[k].telegram # 0
        /\ (inside' # None) <=> inside'.telegram # 0
        /\ (unsent' # None) <=> unsent'.telegram # 0
    BY <1>1, <1>2, <2>1
  <2>3. m \in OnTheWay' <=> /\ \/ \E k \in 1..Len(wire') : wire'[k].telegram = m
                               \/ inside'.telegram = m
                               \/ unsent'.telegram = m
                            /\ m # 0
    BY Zenon DEF OnTheWay, Unread
  <2> QED BY <2>2, <2>3, Zenon
<1> QED BY <1>3, <1>4, Zenon

\* At the start nothing is on its way.
LEMMA Initially == Init => StreamInv
<1> SUFFICES ASSUME Init
             PROVE  StreamInv
  OBVIOUS
<1>1. /\ inside = None /\ wire = <<>> /\ unsent = None
      /\ telegrams = 0 /\ delivered = <<>> /\ skipped = {}
  BY DEF Init
<1>2. Len(wire) = 0 /\ Len(delivered) = 0
  BY <1>1
<1>3. StreamTypes
  BY <1>1 DEF StreamTypes
<1>4. Framed /\ Paired /\ Ordered
  BY <1>1, <1>2 DEF Framed, Paired, Ordered
<1>5. Accounted
  BY <1>1, <1>2 DEF Accounted, Heard
<1> QED BY <1>3, <1>4, <1>5 DEF StreamInv

-----------------------------------------------------------------------------
\* The bus sends a telegram, of which the head arrives first.
LEMMA HeadSent ==
    ASSUME StreamInv, NEW kind \in {"good", "bad", "unknown"}, SendHead(kind)
    PROVE  StreamInv'
<1>0. StreamTypes /\ Framed /\ Paired /\ Ordered /\ Accounted
  BY DEF StreamInv
<1>1. PICK h \in Parts, b \in Parts :
        /\ h.part = "head" /\ b.part = "body"
        /\ h.telegram = telegrams + 1 /\ b.telegram = telegrams + 1
        /\ b # None
        /\ wire' = Append(wire, h) /\ unsent' = b
        /\ telegrams' = telegrams + 1
        /\ unsent = None
        /\ UNCHANGED <<inside, delivered, skipped>>
  <2> DEFINE h == Part(telegrams + 1, "head", kind)
             b == Part(telegrams + 1, "body", kind)
  <2>1. h \in Parts /\ b \in Parts
    BY <1>0 DEF StreamTypes, Parts, Part
  <2>2. h.part = "head" /\ b.part = "body" /\ h.telegram = telegrams + 1 /\ b.telegram = telegrams + 1
    BY DEF Part
  <2>3. b # None
    BY <2>2 DEF None, Part
  <2>4. /\ wire' = Append(wire, h) /\ unsent' = b
        /\ telegrams' = telegrams + 1
        /\ unsent = None
        /\ UNCHANGED <<inside, delivered, skipped>>
    BY DEF SendHead
  <2> QED BY <2>1, <2>2, <2>3, <2>4
<1> DEFINE n == Len(wire)
<1>2. /\ wire \in Seq(Parts) /\ n \in Nat /\ (wire = <<>> <=> n = 0)
      /\ \A i \in 1..n : wire[i].telegram \in Nat \ {0} /\ wire[i].part \in {"head", "body"}
      /\ telegrams \in Nat
  BY <1>0, Wire DEF StreamTypes
<1>3. /\ wire' \in Seq(Parts) /\ wire' # <<>> /\ Len(wire') = n + 1
      /\ \A i \in 1..n : wire'[i] = wire[i]
      /\ wire'[n + 1] = h
  BY <1>1, <1>2, AppendProperties
<1>4. StreamTypes'
  BY <1>0, <1>1, <1>2, <1>3 DEF StreamTypes
<1>5. n # 0 => wire[n].part = "body"
  BY <1>0, <1>1, <1>2 DEF Framed
<1>6. n = 0 => inside = None
  BY <1>0, <1>1, <1>2 DEF Framed
<1> HIDE DEF n
<1>7. Framed'
  <2>1. \A i, j \in 1..n + 1 : j = i + 1 => wire'[j].part # wire'[i].part
    <3> SUFFICES ASSUME NEW i \in 1..n + 1, NEW j \in 1..n + 1, j = i + 1
                 PROVE  wire'[j].part # wire'[i].part
      OBVIOUS
    <3>1. CASE j \in 1..n
      BY <1>0, <1>2, <1>3, <3>1 DEF Framed, n
    <3>2. CASE j = n + 1
      <4>1. i = n /\ n # 0
        BY <1>2, <3>2
      <4> QED BY <1>1, <1>2, <1>3, <1>5, <3>2, <4>1
    <3> QED BY <1>2, <3>1, <3>2
  <2>2. wire'[1].part = (IF inside = None THEN "head" ELSE "body")
    <3>1. CASE n = 0
      BY <1>1, <1>2, <1>3, <1>6, <3>1
    <3>2. CASE n # 0
      BY <1>0, <1>2, <1>3, <3>2 DEF Framed
    <3> QED BY <3>1, <3>2
  <2> QED BY <1>1, <1>3, <2>1, <2>2 DEF Framed
<1>8. Paired'
  <2>1. \A i, j \in 1..n + 1 : j = i + 1 /\ wire'[i].part = "head" => wire'[j].telegram = wire'[i].telegram
    <3> SUFFICES ASSUME NEW i \in 1..n + 1, NEW j \in 1..n + 1, j = i + 1, wire'[i].part = "head"
                 PROVE  wire'[j].telegram = wire'[i].telegram
      OBVIOUS
    <3>1. CASE j \in 1..n
      BY <1>0, <1>2, <1>3, <3>1 DEF Paired, n
    <3>2. CASE j = n + 1
      <4>1. i = n /\ n # 0
        BY <1>2, <3>2
      <4> QED BY <1>2, <1>3, <1>5, <3>2, <4>1
    <3> QED BY <1>2, <3>1, <3>2
  <2>2. inside # None => inside.telegram = wire'[1].telegram
    BY <1>0, <1>2, <1>3, <1>6 DEF Paired
  <2> QED BY <1>1, <1>3, <2>1, <2>2 DEF Paired
<1>9. Ordered'
  <2>1. \A i \in 1..n + 1 : /\ wire'[i].telegram <= telegrams + 1
                            /\ i \in 1..n => wire'[i].telegram <= telegrams
    BY <1>0, <1>1, <1>2, <1>3 DEF Ordered, n
  <2>2. \A i, j \in 1..n + 1 :
          i < j => /\ wire'[i].telegram <= wire'[j].telegram
                   /\ wire'[i].part = "body" => wire'[i].telegram < wire'[j].telegram
    <3> SUFFICES ASSUME NEW i \in 1..n + 1, NEW j \in 1..n + 1, i < j
                 PROVE  /\ wire'[i].telegram <= wire'[j].telegram
                        /\ wire'[i].part = "body" => wire'[i].telegram < wire'[j].telegram
      OBVIOUS
    <3>1. CASE j \in 1..n
      BY <1>0, <1>2, <1>3, <3>1 DEF Ordered, n
    <3>2. CASE j = n + 1
      <4>1. i \in 1..n /\ wire'[i].telegram <= telegrams /\ wire'[i].telegram \in Nat
        BY <1>2, <1>3, <2>1, <3>2
      <4>2. wire'[j].telegram = telegrams + 1
        BY <1>1, <1>3, <3>2
      <4> QED BY <1>2, <4>1, <4>2
    <3> QED BY <1>2, <3>1, <3>2
  <2>3. inside # None => inside.telegram <= telegrams + 1
    BY <1>0, <1>2 DEF Ordered, StreamTypes, Parts
  <2>4. \A i \in 1..n + 1 : wire'[i].part = "body" => wire'[i].telegram < telegrams + 1
    BY <1>1, <1>2, <1>3, <2>1
  <2> QED BY <1>1, <1>3, <2>1, <2>2, <2>3, <2>4 DEF Ordered
<1>10. Accounted'
  <2>1. \A m : m \in OnTheWay' <=> m \in OnTheWay \/ m = telegrams + 1
    <3> TAKE m
    <3>1. m \in OnTheWay <=> \/ \E k \in 1..n : wire[k].telegram = m
                             \/ inside # None /\ inside.telegram = m
                             \/ unsent # None /\ unsent.telegram = m
      BY <1>0, OnTheWayNowAndNext, Zenon DEF n
    <3>2. m \in OnTheWay' <=> \/ \E k \in 1..n + 1 : wire'[k].telegram = m
                              \/ inside' # None /\ inside'.telegram = m
                              \/ unsent' # None /\ unsent'.telegram = m
      <4>1. Len(wire') = n + 1
        BY <1>3
      <4> QED BY <4>1, <1>4, OnTheWayNowAndNext, Zenon
    <3>3. (\E k \in 1..n + 1 : wire'[k].telegram = m)
            <=> (\E k \in 1..n : wire[k].telegram = m) \/ m = telegrams + 1
      BY <1>1, <1>2, <1>3
    <3> QED BY <1>1, <3>1, <3>2, <3>3, Zenon
  <2>2. Heard' = Heard /\ skipped' = skipped /\ delivered' = delivered
    BY <1>1 DEF Heard
  <2>3. \A d \in 1..telegrams + 1 : d \in 1..telegrams \/ d = telegrams + 1
    BY <1>2
  <2>4. \A d \in Heard \cup skipped : d \in 1..telegrams + 1 /\ d < telegrams + 1
    BY <1>0, <1>2 DEF Accounted
  <2>5. \A d \in 1..telegrams' : d \in Heard' \/ d \in skipped' \/ d \in OnTheWay'
    BY <1>0, <1>1, <2>1, <2>2, <2>3 DEF Accounted
  <2>6. \A d \in Heard' \cup skipped' : d \in 1..telegrams' /\ \A m \in OnTheWay' : d < m
    BY <1>0, <1>1, <2>1, <2>2, <2>4 DEF Accounted
  <2> QED BY <1>0, <2>2, <2>5, <2>6 DEF Accounted
<1> QED BY <1>4, <1>7, <1>8, <1>9, <1>10 DEF StreamInv
\* The rest of the telegram arrives.
LEMMA BodySent ==
    ASSUME StreamInv, SendBody
    PROVE  StreamInv'
<1>0. StreamTypes /\ Framed /\ Paired /\ Ordered /\ Accounted
  BY DEF StreamInv
<1>1. /\ unsent # None /\ wire' = Append(wire, unsent) /\ unsent' = None
      /\ UNCHANGED <<inside, telegrams, delivered, skipped>>
  BY DEF SendBody, bus
<1>2. unsent \in Parts /\ unsent.telegram = telegrams /\ unsent.telegram \in Nat
  BY <1>0, <1>1 DEF StreamTypes, Ordered, Parts
<1>a. None' = None
  BY DEF None, Part
<1> DEFINE n == Len(wire)
<1>3. /\ wire \in Seq(Parts) /\ n \in Nat /\ (wire = <<>> <=> n = 0)
      /\ \A i \in 1..n : wire[i].telegram \in Nat \ {0} /\ wire[i].part \in {"head", "body"}
      /\ telegrams \in Nat
  BY <1>0, Wire DEF StreamTypes
<1>4. /\ wire' \in Seq(Parts) /\ wire' # <<>> /\ Len(wire') = n + 1
      /\ \A i \in 1..n : wire'[i] = wire[i]
      /\ wire'[n + 1] = unsent
  BY <1>1, <1>2, <1>3, AppendProperties
<1>5. StreamTypes'
  BY <1>0, <1>1, <1>4, <1>a DEF StreamTypes
<1>6. n # 0 => wire[n].part = "head" /\ wire[n].telegram = telegrams
  BY <1>0, <1>1, <1>2, <1>3 DEF Framed, Paired
<1>7. n = 0 => inside # None /\ inside.telegram = telegrams
  BY <1>0, <1>1, <1>2, <1>3 DEF Framed, Paired
<1>8. unsent.part = "body"
  BY <1>0, <1>1 DEF Framed
<1> HIDE DEF n
<1>9. Framed'
  <2>1. \A i, j \in 1..n + 1 : j = i + 1 => wire'[j].part # wire'[i].part
    <3> SUFFICES ASSUME NEW i \in 1..n + 1, NEW j \in 1..n + 1, j = i + 1
                 PROVE  wire'[j].part # wire'[i].part
      OBVIOUS
    <3>1. CASE j \in 1..n
      BY <1>0, <1>3, <1>4, <3>1 DEF Framed, n
    <3>2. CASE j = n + 1
      <4>1. i = n /\ n # 0 /\ i \in 1..n
        BY <1>3, <3>2
      <4> QED BY <1>4, <1>6, <1>8, <3>2, <4>1
    <3> QED BY <1>3, <3>1, <3>2
  <2>2. wire'[1].part = (IF inside = None THEN "head" ELSE "body")
    <3>1. CASE n = 0
      BY <1>4, <1>7, <1>8, <3>1
    <3>2. CASE n # 0
      BY <1>0, <1>3, <1>4, <3>2 DEF Framed
    <3> QED BY <3>1, <3>2
  <2> QED BY <1>1, <1>4, <1>8, <1>a, <2>1, <2>2 DEF Framed
<1>10. Paired'
  <2>1. \A i, j \in 1..n + 1 : j = i + 1 /\ wire'[i].part = "head" => wire'[j].telegram = wire'[i].telegram
    <3> SUFFICES ASSUME NEW i \in 1..n + 1, NEW j \in 1..n + 1, j = i + 1, wire'[i].part = "head"
                 PROVE  wire'[j].telegram = wire'[i].telegram
      OBVIOUS
    <3>1. CASE j \in 1..n
      BY <1>0, <1>3, <1>4, <3>1 DEF Paired, n
    <3>2. CASE j = n + 1
      <4>1. i = n /\ n # 0 /\ i \in 1..n
        BY <1>3, <3>2
      <4> QED BY <1>2, <1>4, <1>6, <3>2, <4>1
    <3> QED BY <1>3, <3>1, <3>2
  <2>2. inside # None => inside.telegram = wire'[1].telegram
    <3>1. CASE n = 0
      BY <1>2, <1>4, <1>7, <3>1
    <3>2. CASE n # 0
      BY <1>0, <1>3, <1>4, <3>2 DEF Paired
    <3> QED BY <3>1, <3>2
  <2> QED BY <1>1, <1>4, <1>a, <2>1, <2>2 DEF Paired
<1>11. Ordered'
  <2>1. \A i \in 1..n + 1 : wire'[i].telegram <= telegrams /\ wire'[i].telegram \in Nat
    BY <1>0, <1>2, <1>3, <1>4 DEF Ordered, n
  <2>2. \A i, j \in 1..n + 1 :
          i < j => /\ wire'[i].telegram <= wire'[j].telegram
                   /\ wire'[i].part = "body" => wire'[i].telegram < wire'[j].telegram
    <3> SUFFICES ASSUME NEW i \in 1..n + 1, NEW j \in 1..n + 1, i < j
                 PROVE  /\ wire'[i].telegram <= wire'[j].telegram
                        /\ wire'[i].part = "body" => wire'[i].telegram < wire'[j].telegram
      OBVIOUS
    <3>1. CASE j \in 1..n
      BY <1>0, <1>3, <1>4, <3>1 DEF Ordered, n
    <3>2. CASE j = n + 1
      <4>1. i \in 1..n
        BY <1>3, <3>2
      <4>2. wire'[j].telegram = telegrams /\ wire'[i] = wire[i]
        BY <1>2, <1>4, <3>2, <4>1
      <4>3. wire[i].part = "body" => wire[i].telegram < telegrams
        BY <1>0, <1>1, <4>1 DEF Ordered, n
      <4> QED BY <2>1, <4>2, <4>3
    <3> QED BY <1>3, <3>1, <3>2
  <2> QED BY <1>0, <1>1, <1>4, <1>a, <2>1, <2>2 DEF Ordered
<1>12. Accounted'
  <2>1. \A m : m \in OnTheWay' <=> m \in OnTheWay
    <3> TAKE m
    <3>1. m \in OnTheWay <=> \/ \E k \in 1..n : wire[k].telegram = m
                             \/ inside # None /\ inside.telegram = m
                             \/ unsent # None /\ unsent.telegram = m
      BY <1>0, OnTheWayNowAndNext, Zenon DEF n
    <3>2. m \in OnTheWay' <=> \/ \E k \in 1..n + 1 : wire'[k].telegram = m
                              \/ inside' # None /\ inside'.telegram = m
                              \/ unsent' # None /\ unsent'.telegram = m
      <4>1. Len(wire') = n + 1
        BY <1>4
      <4> QED BY <4>1, <1>5, OnTheWayNowAndNext, Zenon
    <3>3. (\E k \in 1..n + 1 : wire'[k].telegram = m)
            <=> (\E k \in 1..n : wire[k].telegram = m) \/ unsent.telegram = m
      BY <1>3, <1>4
    <3> QED BY <1>1, <3>1, <3>2, <3>3, Zenon
  <2>2. Heard' = Heard /\ skipped' = skipped /\ delivered' = delivered /\ telegrams' = telegrams
    BY <1>1 DEF Heard
  <2> QED BY <1>0, <2>1, <2>2 DEF Accounted
<1> QED BY <1>5, <1>9, <1>10, <1>11, <1>12 DEF StreamInv
-----------------------------------------------------------------------------
\* The wire behind its first part.
LEMMA Shifted ==
    ASSUME StreamTypes, wire # <<>>, wire' = Tail(wire)
    PROVE  /\ wire' \in Seq(Parts)
           /\ Len(wire) \in Nat \ {0}
           /\ Len(wire') = Len(wire) - 1
           /\ wire' = <<>> <=> Len(wire) = 1
           /\ \A i \in 1..Len(wire) - 1 : wire'[i] = wire[i + 1]
           /\ Head(wire) = wire[1]
<1>1. wire \in Seq(Parts)
  BY DEF StreamTypes
<1>2. /\ wire' \in Seq(Parts) /\ Len(wire') = Len(wire) - 1
      /\ \A i \in 1..Len(wire') : wire'[i] = wire[i + 1]
  BY <1>1, HeadTailProperties
<1>3. Len(wire) \in Nat \ {0}
  BY <1>1, Wire
<1>4. wire' = <<>> <=> Len(wire') = 0
  BY <1>2, EmptySeq
<1> QED BY <1>1, <1>2, <1>3, <1>4

\* A telegram of which a part is read leaves the others as they were: what is
\* said of two neighbours, and of any two parts, holds of what is left.
LEMMA RestOrdered ==
    ASSUME StreamTypes, Framed, Paired, Ordered, wire # <<>>, wire' = Tail(wire),
           unsent' = unsent, telegrams' = telegrams
    PROVE  /\ \A i, j \in 1..Len(wire') : j = i + 1 => wire'[j].part # wire'[i].part
           /\ wire' # <<>> => (wire'[Len(wire')].part = "head" <=> unsent # None)
           /\ \A i, j \in 1..Len(wire') :
                 j = i + 1 /\ wire'[i].part = "head" => wire'[j].telegram = wire'[i].telegram
           /\ unsent # None /\ wire' # <<>> => unsent.telegram = wire'[Len(wire')].telegram
           /\ \A i, j \in 1..Len(wire') :
                 i < j => /\ wire'[i].telegram <= wire'[j].telegram
                          /\ wire'[i].part = "body" => wire'[i].telegram < wire'[j].telegram
           /\ \A i \in 1..Len(wire') : wire'[i].telegram <= telegrams
           /\ unsent # None =>
                 \A i \in 1..Len(wire') : wire'[i].part = "body" => wire'[i].telegram < telegrams
<1> DEFINE n == Len(wire)
<1>1. /\ n \in Nat \ {0} /\ Len(wire') = n - 1
      /\ wire' = <<>> <=> n = 1
      /\ \A i \in 1..n - 1 : wire'[i] = wire[i + 1]
  BY Shifted
<1>2. \A i \in 1..n - 1 : i + 1 \in 1..n
  BY <1>1
<1>3. /\ \A i, j \in 1..n - 1 : j = i + 1 => j + 1 = (i + 1) + 1
      /\ \A i, j \in 1..n - 1 : i < j => i + 1 < j + 1
  BY <1>1
<1>4. n # 1 => n - 1 \in 1..n - 1 /\ wire'[n - 1] = wire[n]
  BY <1>1
<1>5. wire # <<>> => (wire[n].part = "head" <=> unsent # None)
  BY DEF Framed
<1>6. \A i, j \in 1..n : j = i + 1 => /\ wire[j].part # wire[i].part
                                      /\ wire[i].part = "head" => wire[j].telegram = wire[i].telegram
  BY DEF Framed, Paired
<1>7. /\ \A i, j \in 1..n :
            i < j => /\ wire[i].telegram <= wire[j].telegram
                     /\ wire[i].part = "body" => wire[i].telegram < wire[j].telegram
      /\ \A i \in 1..n : wire[i].telegram <= telegrams
      /\ unsent # None => \A i \in 1..n : wire[i].part = "body" => wire[i].telegram < telegrams
  BY DEF Ordered
<1>8. unsent # None => unsent.telegram = wire[n].telegram
  BY DEF Paired
<1> HIDE DEF n
<1>9. \A i, j \in 1..n - 1 :
         /\ j = i + 1 => wire'[j].part # wire'[i].part
         /\ j = i + 1 /\ wire'[i].part = "head" => wire'[j].telegram = wire'[i].telegram
  BY <1>1, <1>2, <1>3, <1>6
<1>10. \A i, j \in 1..n - 1 :
         i < j => /\ wire'[i].telegram <= wire'[j].telegram
                  /\ wire'[i].part = "body" => wire'[i].telegram < wire'[j].telegram
  BY <1>1, <1>2, <1>3, <1>7
<1>11. /\ \A i \in 1..n - 1 : wire'[i].telegram <= telegrams
       /\ unsent # None => \A i \in 1..n - 1 : wire'[i].part = "body" => wire'[i].telegram < telegrams
  BY <1>1, <1>2, <1>7
<1>12. wire' # <<>> => (wire'[Len(wire')].part = "head" <=> unsent # None)
  BY <1>1, <1>4, <1>5
<1>13. unsent # None /\ wire' # <<>> => unsent.telegram = wire'[Len(wire')].telegram
  BY <1>1, <1>4, <1>8
<1>14. Len(wire') = n - 1
  BY <1>1
<1>15. \A i, j \in 1..Len(wire') : j = i + 1 => wire'[j].part # wire'[i].part
  BY <1>9, <1>14
<1>16. \A i, j \in 1..Len(wire') :
          j = i + 1 /\ wire'[i].part = "head" => wire'[j].telegram = wire'[i].telegram
  BY <1>9, <1>14
<1>17. \A i, j \in 1..Len(wire') :
          i < j => /\ wire'[i].telegram <= wire'[j].telegram
                   /\ wire'[i].part = "body" => wire'[i].telegram < wire'[j].telegram
  BY <1>10, <1>14
<1>18. /\ \A i \in 1..Len(wire') : wire'[i].telegram <= telegrams
       /\ unsent # None =>
             \A i \in 1..Len(wire') : wire'[i].part = "body" => wire'[i].telegram < telegrams
  BY <1>11, <1>14
<1> QED BY <1>12, <1>13, <1>15, <1>16, <1>17, <1>18

\* The head of a telegram is passed.
LEMMA HeadTaken ==
    ASSUME StreamInv, HeadPassed
    PROVE  StreamInv'
<1>0. StreamTypes /\ Framed /\ Paired /\ Ordered /\ Accounted
  BY DEF StreamInv
<1>b. wire # <<>> /\ Head(wire).part = "head" /\ Head(wire) = wire[1]
  BY <1>0 DEF HeadPassed, StreamTypes
<1>1. /\ wire # <<>> /\ Head(wire).part = "head" /\ inside = None
      /\ inside' = Head(wire) /\ wire' = Tail(wire)
      /\ UNCHANGED <<unsent, telegrams, delivered, skipped>>
  BY <1>0, <1>b DEF HeadPassed, PassHead, bus, Framed
<1>a. None' = None
  BY DEF None, Part
<1> DEFINE n == Len(wire)
<1>2. /\ wire' \in Seq(Parts)
      /\ n \in Nat \ {0} /\ Len(wire') = n - 1
      /\ wire' = <<>> <=> n = 1
      /\ \A i \in 1..n - 1 : wire'[i] = wire[i + 1]
      /\ Head(wire) = wire[1]
  BY <1>0, <1>1, Shifted
<1>3. /\ wire[1] \in Parts /\ wire[1] # None
      /\ \A i \in 1..n : wire[i].telegram \in Nat \ {0} /\ wire[i].part \in {"head", "body"}
      /\ telegrams \in Nat
  BY <1>0, <1>2, Wire DEF StreamTypes, None, Part
<1>4. StreamTypes'
  BY <1>0, <1>1, <1>2, <1>3, <1>a DEF StreamTypes
<1>5. n = 1 => unsent # None /\ unsent.telegram = wire[1].telegram
  BY <1>0, <1>1, <1>2 DEF Framed, Paired
<1>6. n # 1 => wire'[1] = wire[2] /\ wire[2].part # "head" /\ wire[2].telegram = wire[1].telegram
               /\ wire[2].part \in {"head", "body"}
  <2>1. n # 1 => 1 \in 1..n /\ 2 \in 1..n /\ 1 \in 1..n - 1
    BY <1>2
  <2> QED BY <1>0, <1>1, <1>2, <1>3, <2>1 DEF Framed, Paired
<1>7. Framed'
  BY <1>0, <1>1, <1>2, <1>3, <1>5, <1>6, <1>a, RestOrdered DEF Framed
<1>8. Paired'
  BY <1>0, <1>1, <1>2, <1>3, <1>5, <1>6, <1>a, RestOrdered DEF Paired
<1>9. Ordered'
  <2>1. wire[1].telegram <= telegrams
    BY <1>0, <1>2 DEF Ordered
  <2> QED BY <1>0, <1>1, <1>2, <1>a, <2>1, RestOrdered DEF Ordered
<1>10. Accounted'
  <2>1. \A m : m \in OnTheWay' <=> m \in OnTheWay
    <3> TAKE m
    <3>1. m \in OnTheWay <=> \/ \E k \in 1..n : wire[k].telegram = m
                             \/ inside # None /\ inside.telegram = m
                             \/ unsent # None /\ unsent.telegram = m
      BY <1>0, OnTheWayNowAndNext, Zenon
    <3>2. m \in OnTheWay' <=> \/ \E k \in 1..n - 1 : wire'[k].telegram = m
                              \/ inside' # None /\ inside'.telegram = m
                              \/ unsent' # None /\ unsent'.telegram = m
      <4>1. Len(wire') = n - 1
        BY <1>2
      <4> QED BY <4>1, <1>4, OnTheWayNowAndNext, Zenon
    <3>3. (\E k \in 1..n : wire[k].telegram = m)
            <=> (\E k \in 1..n - 1 : wire'[k].telegram = m) \/ wire[1].telegram = m
      <4>1. \A k \in 1..n - 1 : k + 1 \in 1..n /\ wire'[k] = wire[k + 1]
        BY <1>2
      <4>2. \A k \in 1..n : k = 1 \/ (k - 1 \in 1..n - 1 /\ wire'[k - 1] = wire[k])
        BY <1>2
      <4>3. 1 \in 1..n
        BY <1>2
      <4> QED BY <4>1, <4>2, <4>3, Zenon
    <3>4. inside' = wire[1]
      BY <1>1, <1>2
    <3> QED BY <1>1, <1>3, <3>1, <3>2, <3>3, <3>4, Zenon
  <2>2. Heard' = Heard /\ skipped' = skipped /\ delivered' = delivered /\ telegrams' = telegrams
    BY <1>1 DEF Heard
  <2> QED BY <1>0, <2>1, <2>2 DEF Accounted
<1> QED BY <1>4, <1>7, <1>8, <1>9, <1>10 DEF StreamInv
\* The body of a telegram is passed, which is then handed over or thrown away: it
\* is the first of those on their way.
LEMMA BodyTaken ==
    ASSUME StreamInv, NEW n \in Nat, BodyPassed(n),
           \/ skipped' = skipped \cup {n} /\ delivered' = delivered
           \/ skipped' = skipped /\ delivered' = Append(delivered, n)
    PROVE  StreamInv'
<1>0. StreamTypes /\ Framed /\ Paired /\ Ordered /\ Accounted
  BY DEF StreamInv
<1>c. wire # <<>> /\ Head(wire).part = "body" /\ Head(wire) = wire[1]
  BY <1>0 DEF BodyPassed, StreamTypes
<1>1. /\ wire # <<>> /\ Head(wire).part = "body" /\ inside # None
      /\ inside' = None /\ wire' = Tail(wire) /\ n = Head(wire).telegram
      /\ UNCHANGED <<unsent, telegrams>>
  BY <1>0, <1>c DEF BodyPassed, PassBody, Framed
<1>a. None' = None
  BY DEF None, Part
<1> DEFINE l == Len(wire)
<1>2. /\ wire' \in Seq(Parts)
      /\ l \in Nat \ {0} /\ Len(wire') = l - 1
      /\ wire' = <<>> <=> l = 1
      /\ \A i \in 1..l - 1 : wire'[i] = wire[i + 1]
      /\ Head(wire) = wire[1]
  BY <1>0, <1>1, Shifted
<1>3. /\ \A i \in 1..l : wire[i].telegram \in Nat \ {0} /\ wire[i].part \in {"head", "body"}
      /\ telegrams \in Nat
  BY <1>0, Wire DEF StreamTypes
<1>b. inside.telegram = n /\ wire[1].telegram = n /\ wire[1].part = "body" /\ 1 \in 1..l
  BY <1>0, <1>1, <1>2 DEF Paired
<1>4. StreamTypes'
  <2>1. delivered' \in Seq(Nat)
    BY <1>0, AppendProperties DEF StreamTypes
  <2>2. skipped' \subseteq Nat
    BY <1>0 DEF StreamTypes
  <2> QED BY <1>0, <1>1, <1>2, <1>a, <2>1, <2>2 DEF StreamTypes
<1>5. l = 1 => unsent = None
  BY <1>0, <1>1, <1>2 DEF Framed
<1>6. l # 1 => wire'[1] = wire[2] /\ wire[2].part = "head" /\ 2 \in 1..l
  <2>1. l # 1 => 1 \in 1..l /\ 2 \in 1..l /\ 1 \in 1..l - 1
    BY <1>2
  <2> QED BY <1>0, <1>1, <1>2, <1>3, <2>1 DEF Framed
<1>7. Framed'
  BY <1>0, <1>1, <1>2, <1>3, <1>5, <1>6, <1>a, RestOrdered DEF Framed
<1>8. Paired'
  BY <1>0, <1>1, <1>2, <1>3, <1>5, <1>6, <1>a, RestOrdered DEF Paired
<1>9. Ordered'
  BY <1>0, <1>1, <1>2, <1>a, RestOrdered DEF Ordered
<1>10. \A m : m \in OnTheWay <=> m \in OnTheWay' \/ m = n
  <2> TAKE m
  <2>1. m \in OnTheWay <=> \/ \E k \in 1..l : wire[k].telegram = m
                           \/ inside # None /\ inside.telegram = m
                           \/ unsent # None /\ unsent.telegram = m
    BY <1>0, OnTheWayNowAndNext, Zenon
  <2>2. m \in OnTheWay' <=> \/ \E k \in 1..l - 1 : wire'[k].telegram = m
                            \/ inside' # None /\ inside'.telegram = m
                            \/ unsent' # None /\ unsent'.telegram = m
    <3>1. Len(wire') = l - 1
      BY <1>2
    <3> QED BY <3>1, <1>4, OnTheWayNowAndNext, Zenon
  <2>3. (\E k \in 1..l : wire[k].telegram = m)
          <=> (\E k \in 1..l - 1 : wire'[k].telegram = m) \/ wire[1].telegram = m
    <3>1. \A k \in 1..l - 1 : k + 1 \in 1..l /\ wire'[k] = wire[k + 1]
      BY <1>2
    <3>2. \A k \in 1..l : k = 1 \/ (k - 1 \in 1..l - 1 /\ wire'[k - 1] = wire[k])
      BY <1>2
    <3> QED BY <1>b, <3>1, <3>2, Zenon
  <2> QED BY <1>1, <1>b, <2>1, <2>2, <2>3, Zenon
<1>11. \A m \in OnTheWay' : n < m
  <2> SUFFICES ASSUME NEW m \in OnTheWay'
               PROVE  n < m
    OBVIOUS
  <2>1. \/ \E k \in 1..Len(wire') : wire'[k].telegram = m
        \/ unsent' # None /\ unsent'.telegram = m
    BY <1>1, <1>4, OnTheWayNowAndNext, Zenon
  <2>2. CASE \E k \in 1..Len(wire') : wire'[k].telegram = m
    <3>1. PICK k \in 1..l - 1 : wire'[k].telegram = m
      BY <1>2, <2>2
    <3>2. k + 1 \in 1..l /\ 1 < k + 1 /\ wire[k + 1].telegram = m
      BY <1>2, <3>1
    <3> QED BY <1>0, <1>b, <3>2 DEF Ordered
  <2>3. CASE unsent' # None /\ unsent'.telegram = m
    BY <1>0, <1>1, <1>b, <2>3 DEF Ordered
  <2> QED BY <2>1, <2>2, <2>3
<1>12. n \in 1..telegrams /\ \A d \in Heard \cup skipped : d < n
  <2>1. n <= telegrams /\ n \in Nat \ {0}
    BY <1>0, <1>3, <1>b DEF Ordered
  <2>2. n \in OnTheWay
    BY <1>10
  <2> QED BY <1>0, <1>3, <2>1, <2>2 DEF Accounted
<1>13. Accounted'
  <2>0. n \notin Heard /\ n \notin skipped
    BY <1>12
  <2>1. CASE skipped' = skipped \cup {n} /\ delivered' = delivered
    <3>1. Heard' = Heard
      BY <2>1 DEF Heard
    <3>2. \A d \in 1..telegrams' : d \in Heard' \/ d \in skipped' \/ d \in OnTheWay'
      BY <1>0, <1>1, <1>10, <2>1, <3>1 DEF Accounted
    <3>3. \A d \in Heard' \cup skipped' : d \in 1..telegrams' /\ \A m \in OnTheWay' : d < m
      BY <1>0, <1>1, <1>10, <1>11, <1>12, <2>1, <3>1 DEF Accounted
    <3> QED BY <1>0, <2>0, <2>1, <3>1, <3>2, <3>3 DEF Accounted
  <2>2. CASE skipped' = skipped /\ delivered' = Append(delivered, n)
    <3>0. Len(delivered) \in Nat /\ delivered \in Seq(Nat) /\ \A i \in 1..Len(delivered) : delivered[i] \in Nat
      BY <1>0, LenProperties, ElementOfSeq DEF StreamTypes
    <3>1. /\ Len(delivered') = Len(delivered) + 1
          /\ \A i \in 1..Len(delivered) : delivered'[i] = delivered[i]
          /\ delivered'[Len(delivered) + 1] = n
      BY <2>2, <3>0, AppendProperties
    <3>2. \A d : d \in Heard' <=> d \in Heard \/ d = n
      <4>1. \A d : d \in Heard' <=> \E i \in 1..Len(delivered) + 1 : delivered'[i] = d
        BY <3>1 DEF Heard
      <4>2. \A d : d \in Heard <=> \E i \in 1..Len(delivered) : delivered[i] = d
        BY DEF Heard
      <4>3. \A d : (\E i \in 1..Len(delivered) + 1 : delivered'[i] = d)
                     <=> (\E i \in 1..Len(delivered) : delivered[i] = d) \/ d = n
        BY <3>0, <3>1
      <4> QED BY <4>1, <4>2, <4>3, Zenon
    <3>3. \A d \in 1..telegrams' : d \in Heard' \/ d \in skipped' \/ d \in OnTheWay'
      BY <1>0, <1>1, <1>10, <2>2, <3>2 DEF Accounted
    <3>4. \A d \in Heard' \cup skipped' : d \in 1..telegrams' /\ \A m \in OnTheWay' : d < m
      BY <1>0, <1>1, <1>10, <1>11, <1>12, <2>2, <3>2 DEF Accounted
    <3>5. \A i, j \in 1..Len(delivered') : i < j => delivered'[i] < delivered'[j]
      <4> SUFFICES ASSUME NEW i \in 1..Len(delivered) + 1, NEW j \in 1..Len(delivered) + 1, i < j
                   PROVE  delivered'[i] < delivered'[j]
        BY <3>1
      <4>1. i \in 1..Len(delivered) /\ delivered'[i] = delivered[i]
        BY <3>0, <3>1
      <4>2. CASE j \in 1..Len(delivered)
        BY <1>0, <3>1, <4>1, <4>2 DEF Accounted
      <4>3. CASE j = Len(delivered) + 1
        <5>1. delivered[i] \in Heard
          BY <4>1 DEF Heard
        <5>2. delivered[i] < n
          BY <1>12, <5>1
        <5>3. delivered'[j] = n
          BY <3>1, <4>3
        <5> QED BY <4>1, <5>2, <5>3, Zenon
      <4>4. j \in 1..Len(delivered) \/ j = Len(delivered) + 1
        <5>1. Len(delivered) \in Nat
          BY <3>0
        <5> QED BY <5>1
      <4> QED BY <4>2, <4>3, <4>4
    <3>6. \A d \in Heard' : d \notin skipped'
      BY <1>0, <2>0, <2>2, <3>2 DEF Accounted
    <3> QED BY <3>3, <3>4, <3>5, <3>6 DEF Accounted
  <2> QED BY <2>1, <2>2
<1> QED BY <1>4, <1>7, <1>8, <1>9, <1>13 DEF StreamInv

\* The connection is closed, and what is on its way thrown away.
LEMMA Closed ==
    ASSUME StreamInv, NEW next, Close(next)
    PROVE  StreamInv'
<1>0. StreamTypes /\ Framed /\ Paired /\ Ordered /\ Accounted
  BY DEF StreamInv
<1>1. /\ inside' = None /\ wire' = <<>> /\ unsent' = None
      /\ skipped' = skipped \cup OnTheWay
      /\ UNCHANGED <<telegrams, delivered>>
  BY DEF Close, OnTheWay
<1>a. None' = None
  BY DEF None, Part
<1>2. Len(wire') = 0
  BY <1>1
<1>3. \A m \in OnTheWay : m \in 1..telegrams
  <2> SUFFICES ASSUME NEW m \in OnTheWay
               PROVE  m \in 1..telegrams
    OBVIOUS
  <2>1. telegrams \in Nat /\ \A i \in 1..Len(wire) : wire[i].telegram \in Nat \ {0}
    BY <1>0, Wire DEF StreamTypes
  <2>2. CASE \E i \in 1..Len(wire) : wire[i].telegram = m
    BY <1>0, <2>1, <2>2 DEF Ordered
  <2>3. CASE inside # None /\ inside.telegram = m
    BY <1>0, <2>1, <2>3 DEF Ordered, StreamTypes, Parts
  <2>4. CASE unsent # None /\ unsent.telegram = m
    BY <1>0, <2>1, <2>4 DEF Ordered, StreamTypes, Parts
  <2> QED BY <1>0, <2>2, <2>3, <2>4, OnTheWayNowAndNext, Zenon
<1>4. StreamTypes'
  <2>0. \A m \in OnTheWay : m \in Nat
    BY <1>3
  <2>1. skipped' \subseteq Nat
    BY <1>0, <1>1, <2>0 DEF StreamTypes
  <2> QED BY <1>0, <1>1, <1>a, <2>1 DEF StreamTypes
<1>5. Framed' /\ Paired' /\ Ordered'
  BY <1>1, <1>2, <1>a DEF Framed, Paired, Ordered
<1>6. Accounted'
  <2>1. \A m : m \notin OnTheWay'
    <3>1. \A k \in 1..Len(wire') : FALSE
      BY <1>2
    <3> QED BY <1>1, <1>4, <3>1, OnTheWayNowAndNext, Zenon
  <2>2. Heard' = Heard
    BY <1>1 DEF Heard
  <2>3. \A d \in Heard : d \in Nat
    BY <1>0, ElementOfSeq DEF StreamTypes, Heard
  <2>4. \A d \in Heard : d \notin OnTheWay
    BY <1>0, <2>3 DEF Accounted
  <2> QED BY <1>0, <1>1, <1>3, <2>1, <2>2, <2>4 DEF Accounted
<1> QED BY <1>4, <1>5, <1>6 DEF StreamInv

-----------------------------------------------------------------------------
\* What a step may be for the telegrams on their way.
LEMMA StreamSteps ==
    ASSUME [Next]_vars
    PROVE  \/ UNCHANGED stream
           \/ \E kind \in {"good", "bad", "unknown"} : SendHead(kind)
           \/ SendBody \/ HeadPassed
           \/ \E n \in 1..MaxTelegrams :
                 /\ BodyPassed(n)
                 /\ \/ skipped' = skipped \cup {n} /\ delivered' = delivered
                    \/ skipped' = skipped /\ delivered' = Append(delivered, n)
           \/ \E next : Close(next)
<1>1. CASE \E given \in BOOLEAN : ImportUrl(given)
  BY <1>1 DEF ImportUrl, link, bus, stream
<1>2. CASE StopConnection \/ Joined
  BY <1>2 DEF StopConnection, Joined, link, bus, stream
<1>3. CASE HangUp \/ ConnectFails
  BY <1>3 DEF HangUp, ConnectFails, link, bus, stream
<1>4. CASE Daemon
  BY <1>4 DEF Daemon, OpenGroupSocket, OpenFails, link, bus, stream
<1>5. CASE Begin \/ Connect \/ Pause
  BY <1>5 DEF Begin, Connect, Pause, link, bus, stream
<1>6. CASE \E n \in 1..MaxTelegrams :
              TakeTooLate(n) \/ TakeBad(n) \/ TakeGood(n) \/ GarbledBody(n)
  <2>1. PICK n \in 1..MaxTelegrams :
              TakeTooLate(n) \/ TakeBad(n) \/ TakeGood(n) \/ GarbledBody(n)
    BY <1>6
  <2>2. \/ skipped' = skipped \cup {n} /\ delivered' = delivered
        \/ skipped' = skipped /\ delivered' = Append(delivered, n)
    BY <2>1 DEF TakeTooLate, TakeBad, TakeGood, GarbledBody, HandOver
  <2>3. BodyPassed(n)
    BY <2>1 DEF TakeTooLate, TakeBad, TakeGood, GarbledBody, Take, Arrived, BodyPassed
  <2> QED BY <2>2, <2>3
<1>7. CASE Interrupted \/ EndOfFile \/ EndDispatch
  BY <1>7 DEF Interrupted, EndOfFile, EndDispatch, bus, stream
<1>8. CASE CheckAgain \/ ReadAgain \/ CloseRead \/ OpenRead
  BY <1>8 DEF CheckAgain, ReadAgain, CloseRead, OpenRead, link, bus, stream
<1>9. CASE LeaveLoop \/ Crash
  BY <1>9 DEF LeaveLoop, Crash
<1>10. CASE \E i \in 1..MaxReads : Expire(i)
  BY <1>10 DEF Expire, link, bus, stream
<1>11. CASE TakeHead \/ TakeRest \/ GarbledHead
  BY <1>11 DEF TakeHead, TakeRest, GarbledHead, Arrived, HeadPassed
<1>12. CASE TakeHalf \/ GarbledPiece
  BY <1>12 DEF TakeHalf, GarbledPiece, bus, stream
<1>13. CASE UNCHANGED vars
  BY <1>13 DEF vars, link, bus, stream
<1> QED BY <1>1, <1>2, <1>3, <1>4, <1>5, <1>6, <1>7, <1>8, <1>9, <1>10, <1>11, <1>12, <1>13, Zenon
        DEF Next, Thread

\* No step but the first byte of a head that comes alone begins to read with a
\* wrong size.
LEMMA PieceSteps == OnlyByPieces /\ [Next]_vars => OnlyByPieces'
<1> SUFFICES ASSUME OnlyByPieces, [Next]_vars
             PROVE  OnlyByPieces'
  OBVIOUS
<1> USE DEF OnlyByPieces, pieces
<1>1. CASE \E given \in BOOLEAN : ImportUrl(given)
  BY <1>1 DEF ImportUrl
<1>2. CASE StopConnection \/ Joined \/ HangUp \/ ConnectFails
  BY <1>2 DEF StopConnection, Joined, HangUp, ConnectFails
<1>3. CASE \E kind \in {"good", "bad", "unknown"} : SendHead(kind)
  BY <1>3 DEF SendHead
<1>4. CASE Daemon
  BY <1>4 DEF Daemon, OpenGroupSocket, OpenFails, SendBody, Close
<1>5. CASE Begin \/ Connect \/ Pause
  BY <1>5 DEF Begin, Connect, Pause
<1>6. CASE TakeHead \/ TakeRest
  BY <1>6 DEF TakeHead, TakeRest, PassHead
<1>7. CASE \E n \in 1..MaxTelegrams : TakeTooLate(n) \/ TakeBad(n) \/ TakeGood(n)
  BY <1>7 DEF TakeTooLate, TakeBad, TakeGood, Take, PassBody
<1>8. CASE GarbledHead \/ GarbledPiece \/ \E n \in 1..MaxTelegrams : GarbledBody(n)
  <2>1. splits' = splits /\ ~framed
    BY <1>8 DEF GarbledHead, GarbledPiece, GarbledBody, Misframed, PassHead, PassBody
  <2> QED BY <2>1
<1>9. CASE Interrupted \/ EndOfFile \/ EndDispatch
  BY <1>9 DEF Interrupted, EndOfFile, EndDispatch
<1>10. CASE CheckAgain \/ ReadAgain \/ CloseRead \/ OpenRead
  BY <1>10 DEF CheckAgain, ReadAgain, CloseRead, OpenRead
<1>11. CASE LeaveLoop \/ Crash
  BY <1>11 DEF LeaveLoop, Crash, Close
<1>12. CASE \E i \in 1..MaxReads : Expire(i)
  BY <1>12 DEF Expire
<1>13. CASE TakeHalf
  BY <1>13 DEF TakeHalf
<1>14. CASE UNCHANGED vars
  BY <1>14 DEF vars
<1> QED BY <1>1, <1>2, <1>3, <1>4, <1>5, <1>6, <1>7, <1>8, <1>9, <1>10, <1>11, <1>12, <1>13,
           <1>14, Zenon DEF Next, Thread

\* Every step keeps the invariant.
LEMMA Inductive == StreamInv /\ [Next]_vars => StreamInv'
<1> SUFFICES ASSUME StreamInv, [Next]_vars
             PROVE  StreamInv'
  OBVIOUS
<1>1. CASE UNCHANGED stream
  <2>1. /\ inside' = inside /\ wire' = wire /\ unsent' = unsent
        /\ telegrams' = telegrams /\ delivered' = delivered /\ skipped' = skipped
    BY <1>1 DEF stream
  <2>2. None' = None
    BY DEF None, Part
  <2>3. Heard' = Heard /\ OnTheWay' = OnTheWay
    BY <2>1, Zenon DEF Heard, OnTheWay, Unread
  <2>4. StreamTypes' = StreamTypes /\ Framed' = Framed
    BY <2>1, <2>2, Zenon DEF StreamTypes, Framed
  <2>5. Paired' = Paired
    BY <2>1, <2>2, Zenon DEF Paired
  <2>7. Ordered' = Ordered
    BY <2>1, <2>2, Zenon DEF Ordered
  <2>6. Accounted' = Accounted
    BY <2>1, <2>3, Zenon DEF Accounted
  <2> QED BY <2>4, <2>5, <2>6, <2>7, Zenon DEF StreamInv
<1>2. ASSUME NEW n \in 1..MaxTelegrams, BodyPassed(n),
             \/ skipped' = skipped \cup {n} /\ delivered' = delivered
             \/ skipped' = skipped /\ delivered' = Append(delivered, n)
      PROVE  StreamInv'
  <2>1. n \in Nat
    BY KnxLinkConstants
  <2> QED BY <1>2, <2>1, BodyTaken
<1>3. CASE \E kind \in {"good", "bad", "unknown"} : SendHead(kind)
  BY <1>3, HeadSent
<1>4. CASE \E next : Close(next)
  BY <1>4, Closed
<1>5. CASE SendBody \/ HeadPassed
  BY <1>5, BodySent, HeadTaken
<1> QED BY <1>1, <1>2, <1>3, <1>4, <1>5, StreamSteps, Zenon

\* Whatever interrupts a read, on whichever level, a head is taken for a head
\* and a body for a body, and the listener gets the telegrams in the order of
\* the bus, all but those thrown away; only after a head that came in two pieces
\* is anything read as what it is not (CheckRequest, KnxConnection::checkInput).
THEOREM TelegramsInOrderEver == Spec => []TelegramsInOrder
<1>1. ASSUME StreamInv, OnlyByPieces
      PROVE  TelegramsInOrder
  <2>0. StreamTypes /\ Framed /\ Accounted
    BY <1>1 DEF StreamInv
  <2>1. NeverMisframed
    <3>1. wire # <<>> => Head(wire) = wire[1]
      BY <2>0 DEF StreamTypes
    <3> QED BY <2>0, <3>1 DEF Framed, NeverMisframed
  <2>2. ASSUME NEW n \in 1..MaxTelegrams, delivered # <<>>, n <= Last(delivered)
        PROVE  Contains(delivered, n) <=> n \notin skipped
    <3>1. Len(delivered) \in Nat \ {0} /\ telegrams \in Nat /\ n \in Nat \ {0}
      BY <2>0, <2>2, EmptySeq, KnxLinkConstants DEF StreamTypes
    <3>2. Last(delivered) \in Heard
      BY <3>1 DEF Last, Heard
    <3>3. Last(delivered) \in 1..telegrams /\ \A m \in OnTheWay : Last(delivered) < m
      BY <2>0, <3>2 DEF Accounted
    <3>4. n \in 1..telegrams
      BY <2>2, <3>1, <3>3
    <3>5. n \notin OnTheWay
      BY <2>2, <3>1, <3>3
    <3>6. Contains(delivered, n) <=> n \in Heard
      BY DEF Contains, Heard
    <3> QED BY <2>0, <3>4, <3>5, <3>6 DEF Accounted
  <2>3. ~framed \/ misread => splits > 0
    BY <1>1 DEF OnlyByPieces
  <2> QED BY <2>0, <2>1, <2>2, <2>3 DEF Accounted, NoneOvertaken, TelegramsInOrder
<1>2. Init => OnlyByPieces
  BY DEF Init, OnlyByPieces
<1> QED BY Initially, Inductive, PieceSteps, <1>1, <1>2, PTL DEF Spec
=============================================================================
