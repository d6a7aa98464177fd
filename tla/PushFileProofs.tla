--------------------------- MODULE PushFileProofs ---------------------------
(***************************************************************************)
(* Proofs about PushFile: the types of its variables, that a reply which   *)
(* an empty buffer can hold reaches a patient phone whole, that the phone  *)
(* tells lines from bytes, and that it takes each file's bytes in order,   *)
(* for every length of files, chunks, replies in flight and send buffer.   *)
(***************************************************************************)
EXTENDS PushFile, SequenceTheorems, TLAPS

-----------------------------------------------------------------------------
(* What the daemon writes. *)

Lengths == 0 .. MaxSize
Units == ({"start", "end"} \X Lengths) \union ({"byte"} \X Nat \X Nat)

LEMMA LineIsUnits ==
  ASSUME NEW announced \in Lengths
  PROVE  /\ Line(announced) \in Seq(Units) /\ Len(Line(announced)) = 2
         /\ Line(announced)[1] = <<"start", announced>>
         /\ Line(announced)[2] = <<"end", announced>>
  BY DEF Line, Units

LEMMA UnitKinds ==
  ASSUME NEW unit \in Units
  PROVE  /\ unit[1] \in {"start", "end", "byte"}
         /\ unit[1] # "byte" => unit[2] \in Lengths
  BY DEF Units

Bytes(version, first, n) == [i \in 1 .. n |-> Byte(version, first + i - 1)]

LEMMA BytesAreUnits ==
  ASSUME NEW version \in Nat, NEW first \in Nat \ {0}, NEW n \in Nat
  PROVE  /\ Bytes(version, first, n) \in Seq(Units) /\ Len(Bytes(version, first, n)) = n
         /\ \A i \in 1 .. n : Bytes(version, first, n)[i][1] = "byte"
<1>1. \A i \in 1 .. n : Byte(version, first + i - 1) \in Units
  BY DEF Byte, Units
<1>2. Bytes(version, first, n) \in [1 .. n -> Units]
  BY <1>1 DEF Bytes
<1>3. Bytes(version, first, n) \in Seq(Units)
  BY <1>2
<1>4. Len(Bytes(version, first, n)) = n
  BY <1>2
<1>5. \A i \in 1 .. n : Bytes(version, first, n)[i][1] = "byte"
  BY DEF Bytes, Byte
<1> QED BY <1>3, <1>4, <1>5

-----------------------------------------------------------------------------
(* The phone that takes the units of a sequence for what they are: what it *)
(* waits for, before and after.                                            *)

ALine == <<"line", 0>>
Rest  == <<"rest", 0>>
Missing(n) == IF n = 0 THEN ALine ELSE <<"file", n>>
Waits == ({"line", "rest"} \X {0}) \union ({"file"} \X (Lengths \ {0}))

Fits(waits, unit) ==
  \/ waits = ALine /\ unit[1] = "start"
  \/ waits = Rest /\ unit[1] = "end"
  \/ waits[1] = "file" /\ unit[1] = "byte"

Taking(waits, unit) ==
  IF waits = ALine THEN Rest
  ELSE IF waits = Rest THEN Missing(unit[2])
  ELSE Missing(waits[2] - 1)

Leads(from, units, to) ==
  \E w \in [0 .. Len(units) -> Waits] :
    /\ w[0] = from /\ w[Len(units)] = to
    /\ \A i \in 1 .. Len(units) :
         Fits(w[i - 1], units[i]) /\ w[i] = Taking(w[i - 1], units[i])

LEMMA LeadsNowhere ==
  ASSUME NEW from \in Waits, NEW s, Len(s) = 0 PROVE Leads(from, s, from)
<1> DEFINE w == [i \in 0 .. 0 |-> from]
<1>1. w \in [0 .. 0 -> Waits] /\ w[0] = from
  OBVIOUS
<1>2. \A i \in 1 .. 0 : FALSE
  OBVIOUS
<1> HIDE DEF w
<1> QED BY <1>1, <1>2 DEF Leads

LEMMA LeadsOne ==
  ASSUME NEW from \in Waits, NEW s, Len(s) = 1, Fits(from, s[1]), NEW to \in Waits,
         to = Taking(from, s[1])
  PROVE  Leads(from, s, to)
<1> DEFINE w == [i \in 0 .. 1 |-> IF i = 0 THEN from ELSE to]
<1>1. w \in [0 .. 1 -> Waits] /\ w[0] = from /\ w[1] = to
  OBVIOUS
<1>2. \A i \in 1 .. 1 : i = 1 /\ i - 1 = 0
  OBVIOUS
<1> HIDE DEF w
<1> QED BY <1>1, <1>2 DEF Leads

LEMMA LeadsTwo ==
  ASSUME NEW from \in Waits, NEW s, Len(s) = 2, NEW via \in Waits, NEW to \in Waits,
         Fits(from, s[1]), via = Taking(from, s[1]), Fits(via, s[2]), to = Taking(via, s[2])
  PROVE  Leads(from, s, to)
<1> DEFINE w == [i \in 0 .. 2 |-> IF i = 0 THEN from ELSE IF i = 1 THEN via ELSE to]
<1>1. w \in [0 .. 2 -> Waits] /\ w[0] = from /\ w[1] = via /\ w[2] = to
  OBVIOUS
<1>2. \A i \in 1 .. 2 : (i = 1 /\ i - 1 = 0) \/ (i = 2 /\ i - 1 = 1)
  OBVIOUS
<1> HIDE DEF w
<1> QED BY <1>1, <1>2 DEF Leads

LEMMA LeadsSomewhere ==
  ASSUME NEW s \in Seq(Units), NEW from, NEW to, Leads(from, s, to) PROVE to \in Waits
  BY LenProperties DEF Leads

LEMMA LeadsOn ==
  ASSUME NEW r \in Seq(Units), NEW s \in Seq(Units), NEW from, NEW via, NEW to,
         Leads(from, r, via), Leads(via, s, to)
  PROVE  Leads(from, r \o s, to)
<1>1. PICK u \in [0 .. Len(r) -> Waits] :
        /\ u[0] = from /\ u[Len(r)] = via
        /\ \A i \in 1 .. Len(r) : Fits(u[i - 1], r[i]) /\ u[i] = Taking(u[i - 1], r[i])
  BY DEF Leads
<1>2. PICK v \in [0 .. Len(s) -> Waits] :
        /\ v[0] = via /\ v[Len(s)] = to
        /\ \A i \in 1 .. Len(s) : Fits(v[i - 1], s[i]) /\ v[i] = Taking(v[i - 1], s[i])
  BY DEF Leads
<1>3. /\ Len(r) \in Nat /\ Len(s) \in Nat /\ Len(r \o s) = Len(r) + Len(s)
      /\ \A i \in 1 .. Len(r) + Len(s) :
           (r \o s)[i] = IF i <= Len(r) THEN r[i] ELSE s[i - Len(r)]
  BY ConcatProperties, LenProperties
<1> DEFINE w == [i \in 0 .. Len(r \o s) |-> IF i <= Len(r) THEN u[i] ELSE v[i - Len(r)]]
<1>4. w \in [0 .. Len(r \o s) -> Waits]
  <2> SUFFICES ASSUME NEW i \in 0 .. Len(r) + Len(s)
               PROVE  (IF i <= Len(r) THEN u[i] ELSE v[i - Len(r)]) \in Waits
    BY <1>3
  <2>1. i <= Len(r) => i \in 0 .. Len(r)
    BY <1>3
  <2>2. ~(i <= Len(r)) => i - Len(r) \in 0 .. Len(s)
    BY <1>3
  <2> QED BY <2>1, <2>2
<1>5. w[0] = from /\ w[Len(r \o s)] = to
  <2>1. w[0] = from
    BY <1>1, <1>3
  <2>2. CASE Len(s) = 0
    BY <1>1, <1>2, <1>3, <2>1, <2>2
  <2>3. CASE Len(s) # 0
    <3>1. ~(Len(r \o s) <= Len(r)) /\ Len(r \o s) - Len(r) = Len(s) /\ Len(r \o s) \in 0 .. Len(r \o s)
      BY <1>3, <2>3
    <3>2. w[Len(r \o s)] = v[Len(s)]
      BY <3>1
    <3> QED BY <1>2, <2>1, <3>2
  <2> QED BY <2>2, <2>3
<1>6. ASSUME NEW i \in 1 .. Len(r \o s)
      PROVE  Fits(w[i - 1], (r \o s)[i]) /\ w[i] = Taking(w[i - 1], (r \o s)[i])
  <2>1. CASE i <= Len(r)
    <3>1. w[i] = u[i] /\ w[i - 1] = u[i - 1] /\ (r \o s)[i] = r[i] /\ i \in 1 .. Len(r)
      BY <1>3, <2>1
    <3> QED BY <3>1, <1>1
  <2>2. CASE i > Len(r)
    <3>1. /\ w[i] = v[i - Len(r)] /\ (r \o s)[i] = s[i - Len(r)]
          /\ i - Len(r) \in 1 .. Len(s)
      BY <1>3, <2>2
    <3>2. w[i - 1] = v[(i - Len(r)) - 1]
      <4>1. CASE i - 1 = Len(r)
        BY <1>1, <1>2, <1>3, <4>1
      <4>2. CASE i - 1 > Len(r)
        <5>1. /\ (i - Len(r)) - 1 = (i - 1) - Len(r) /\ ~(i - 1 <= Len(r))
              /\ i - 1 \in 0 .. Len(r \o s)
          BY <1>3, <4>2
        <5> QED BY <5>1
      <4>3. i - 1 = Len(r) \/ i - 1 > Len(r)
        <5>1. i \in Int /\ Len(r) \in Int /\ Len(r) < i
          BY <2>2, <1>3
        <5> QED BY <5>1
      <4> HIDE DEF w
      <4> QED BY <4>1, <4>2, <4>3
    <3> QED BY <3>1, <3>2, <1>2
  <2> QED BY <2>1, <2>2, <1>3
<1> HIDE DEF w
<1> QED BY <1>4, <1>5, <1>6 DEF Leads

LEMMA LeadsFirst ==
  ASSUME NEW s \in Seq(Units), s # << >>, NEW from, NEW to, Leads(from, s, to)
  PROVE  /\ from \in Waits /\ Fits(from, Head(s))
         /\ Leads(Taking(from, Head(s)), Tail(s), to)
<1>1. PICK w \in [0 .. Len(s) -> Waits] :
        /\ w[0] = from /\ w[Len(s)] = to
        /\ \A i \in 1 .. Len(s) : Fits(w[i - 1], s[i]) /\ w[i] = Taking(w[i - 1], s[i])
  BY DEF Leads
<1>2. /\ Len(s) \in Nat \ {0} /\ Len(Tail(s)) = Len(s) - 1 /\ Head(s) = s[1]
      /\ \A i \in 1 .. Len(Tail(s)) : Tail(s)[i] = s[i + 1]
  BY HeadTailProperties, LenProperties, EmptySeq
<1>3. w[0] \in Waits /\ Fits(w[0], s[1]) /\ w[1] = Taking(w[0], s[1])
  BY <1>1, <1>2, 1 \in 1 .. Len(s), 1 - 1 = 0
<1> DEFINE v == [i \in 0 .. Len(Tail(s)) |-> w[i + 1]]
<1>4. /\ v \in [0 .. Len(Tail(s)) -> Waits]
      /\ v[0] = Taking(from, Head(s)) /\ v[Len(Tail(s))] = to
  BY <1>1, <1>2, <1>3
<1>5. ASSUME NEW i \in 1 .. Len(Tail(s))
      PROVE  Fits(v[i - 1], Tail(s)[i]) /\ v[i] = Taking(v[i - 1], Tail(s)[i])
  <2>1. i + 1 \in 1 .. Len(s) /\ (i + 1) - 1 = i /\ Tail(s)[i] = s[i + 1]
    BY <1>2
  <2>2. v[i - 1] = w[i] /\ v[i] = w[i + 1]
    BY <1>2
  <2> QED BY <2>1, <2>2, <1>1
<1> HIDE DEF v
<1> QED BY <1>1, <1>2, <1>3, <1>4, <1>5 DEF Leads

LEMMA BytesLead ==
  ASSUME NEW version \in Nat, NEW first \in Nat \ {0}, NEW n \in Nat, NEW left \in Lengths, n <= left,
         MaxSize \in Nat
  PROVE  Leads(Missing(left), Bytes(version, first, n), Missing(left - n))
<1> DEFINE bytes == Bytes(version, first, n)
           w == [i \in 0 .. n |-> Missing(left - i)]
<1>1. Len(bytes) = n /\ \A i \in 1 .. n : bytes[i][1] = "byte"
  BY BytesAreUnits
<1>2. w \in [0 .. Len(bytes) -> Waits] /\ w[0] = Missing(left) /\ w[Len(bytes)] = Missing(left - n)
  BY <1>1 DEF Missing, Waits, Lengths, ALine
<1>3. ASSUME NEW i \in 1 .. n
      PROVE  Fits(w[i - 1], bytes[i]) /\ w[i] = Taking(w[i - 1], bytes[i])
  <2>1. w[i - 1] = <<"file", left - (i - 1)>>
    BY DEF Missing, Lengths
  <2>2. w[i] = Missing((left - (i - 1)) - 1)
    BY DEF Lengths
  <2> HIDE DEF w
  <2> QED BY <1>1, <2>1, <2>2 DEF Fits, Taking, ALine, Rest
<1> HIDE DEF w, bytes
<1> QED BY <1>1, <1>2, <1>3 DEF Leads, bytes

-----------------------------------------------------------------------------
(* Types.                                                                  *)

Streams == buffer \in Seq(Units) /\ reply \in Seq(Units)

(* What a reply announces, and what is left of it.                         *)
Announced == IF after = "read" THEN fileSize ELSE NoFile
Answering ==
  pc = "reply" =>
    /\ after \in {"idle", "read"}
    /\ reply = Line(Announced) \/ reply = <<<<"end", Announced>>>>
    /\ after = "read" => opened \in Versions /\ sent = 0 /\ fileSize # 0

Pushing ==
  /\ pc = "open" => sent = 0 /\ fileSize # 0
  /\ pc \in {"read", "send"} => opened \in Versions
  /\ pc = "send" => written < chunk /\ sent + chunk <= fileSize
  /\ file = Absent \/ file \in Versions

Waiting == phone = "file" <=> missing # 0

Types == TypeOK /\ Streams /\ Answering /\ Pushing /\ Waiting

LEMMA TypesInit == Init => Types
<1> SUFFICES ASSUME Init PROVE Types
  OBVIOUS
<1>1. Streams /\ asked \in Seq({"push", "list"}) /\ Len(reply) <= 2 /\ Len(buffer) <= Capacity
  BY EmptySeq, PushAssumption DEF Init, Streams
<1>2. size \in [Versions -> 0 .. MaxSize]
  BY PushAssumption DEF Init
<1>3. Answering /\ Pushing /\ Waiting
  BY DEF Init, Answering, Pushing, Waiting
<1>4. /\ tls \in BOOLEAN /\ patient \in BOOLEAN /\ connected \in BOOLEAN
      /\ transfer \in BOOLEAN /\ overlay \in BOOLEAN /\ long \in BOOLEAN
      /\ torn \in BOOLEAN /\ short \in BOOLEAN /\ confused \in BOOLEAN
  BY Zenon DEF Init
<1>5. /\ file = Absent /\ newest = 0 /\ pc = "idle" /\ after = "idle" /\ fileSize = 0
      /\ opened = Absent /\ sent = 0 /\ chunk = 0 /\ written = 0 /\ requests = 0
      /\ phone = "line" /\ missing = 0
  BY DEF Init
<1> QED BY <1>1, <1>2, <1>3, <1>4, <1>5, PushAssumption DEF Types, TypeOK, Versions, Absent, Stops

LEMMA AtMostIsLeast ==
  ASSUME NEW a \in Nat, NEW b \in Nat
  PROVE  /\ AtMost(a, b) \in Nat /\ AtMost(a, b) <= a /\ AtMost(a, b) <= b
         /\ a > 0 /\ b > 0 => AtMost(a, b) > 0
  BY DEF AtMost

LEMMA Single ==
  ASSUME NEW S, NEW s \in Seq(S), Len(s) = 1
  PROVE  s = <<s[1]>>
<1>1. s \in [1 .. 1 -> S]
  BY LenProperties
<1> QED BY <1>1

LEMMA Lengthens ==
  ASSUME NEW S, NEW s \in Seq(S), NEW t \in Seq(S)
  PROVE  s \o t \in Seq(S) /\ Len(s \o t) = Len(s) + Len(t)
BY ConcatProperties

(* The units that fit, and those left.                                     *)
LEMMA Split ==
  ASSUME Types, pc = "reply", NEW n, n = Fitting
  PROVE  /\ n \in 0 .. 2 /\ n <= Room /\ n <= Len(reply) /\ Len(reply) \in 1 .. 2
         /\ SubSeq(reply, 1, n) \in Seq(Units) /\ Len(SubSeq(reply, 1, n)) = n
         /\ \A i \in 1 .. n : SubSeq(reply, 1, n)[i] = reply[i]
         /\ LET rest == SubSeq(reply, n + 1, Len(reply)) IN
              \/ n = 0 /\ rest = reply
              \/ n = Len(reply) /\ rest = << >>
              \/ n = 1 /\ Len(reply) = 2 /\ rest = <<reply[2]>>
<1>1. /\ Len(reply) \in 1 .. 2 /\ Room \in Nat
      /\ reply \in Seq(Units) /\ Announced \in Lengths
  BY PushAssumption DEF Types, TypeOK, Streams, Answering, Line, Room, Announced, Lengths, NoFile
<1>2. n \in Nat /\ n \in 0 .. 2 /\ n <= Room /\ n <= Len(reply)
  <2>1. n \in Nat /\ n <= Room /\ n <= Len(reply)
    <3>1. 1 \in Nat /\ Len(reply) \in Nat /\ 1 <= Len(reply)
      BY <1>1
    <3>2. CASE long
      <4>1. n = AtMost(Room, 1)
        BY <3>2 DEF Fitting
      <4>2. n \in Nat /\ n <= Room /\ n <= 1
        BY <1>1, <3>1, <4>1, AtMostIsLeast
      <4> QED BY <3>1, <4>2
    <3>3. CASE ~long
      <4>1. n = AtMost(Room, Len(reply))
        BY <3>3 DEF Fitting
      <4> QED BY <1>1, <3>1, <4>1, AtMostIsLeast
    <3> QED BY <3>2, <3>3
  <2>2. \A k \in Nat, m \in 1 .. 2 : k <= m => k \in 0 .. 2
    OBVIOUS
  <2>3. n \in 0 .. 2
    BY <1>1, <2>1, <2>2
  <2> QED BY <2>1, <2>3
<1>3. \A i \in 1 .. n : reply[i] \in Units
  BY <1>1, <1>2
<1>4. /\ SubSeq(reply, 1, n) \in Seq(Units) /\ Len(SubSeq(reply, 1, n)) = n
      /\ \A i \in 1 .. n : SubSeq(reply, 1, n)[i] = reply[i]
  BY <1>2, <1>3
<1>5. CASE n = 0
  BY <1>1, <1>2, <1>4, <1>5
<1>6. CASE n # 0 /\ n = Len(reply)
  BY <1>1, <1>2, <1>4, <1>6
<1>7. CASE n = 1 /\ Len(reply) = 2
  <2>1. /\ SubSeq(reply, 2, 2) \in Seq(Units) /\ Len(SubSeq(reply, 2, 2)) = 1
        /\ SubSeq(reply, 2, 2)[1] = reply[2]
    BY <1>1, <1>7
  <2>2. SubSeq(reply, 2, 2) = <<reply[2]>>
    BY <2>1, Single
  <2> QED BY <1>1, <1>2, <1>4, <1>7, <2>2
<1>8. \A k \in Nat, m \in 1 .. 2 : k <= m => k = 0 \/ k = m \/ (k = 1 /\ m = 2)
  OBVIOUS
<1>9. n = 0 \/ n = Len(reply) \/ (n = 1 /\ Len(reply) = 2)
  BY <1>1, <1>2, <1>8
<1> QED BY <1>1, <1>2, <1>4, <1>5, <1>6, <1>7, <1>9

LEMMA FolderKeepsTypes == Types /\ (RemoveFile \/ CopyFile \/ Truncate) => Types'
<1> SUFFICES ASSUME Types, RemoveFile \/ CopyFile \/ Truncate PROVE Types'
  OBVIOUS
<1> USE PushAssumption DEF Types, TypeOK, Streams, Answering, Pushing, Waiting, localVars, replyVars,
        phoneVars, guiVars, history, Announced, NoFile
<1>1. CASE RemoveFile
  BY <1>1 DEF RemoveFile
<1>2. CASE CopyFile
  BY <1>2 DEF CopyFile, Versions, Absent
<1>3. CASE Truncate
  BY <1>3, SMTT(30) DEF Truncate, Versions, Absent
<1> QED BY <1>1, <1>2, <1>3

LEMMA PhoneKeepsTypes ==
  Types /\ (Takes \/ Leaves \/ GuiPolls \/ \E request \in {"push", "list"} : Asks(request)) => Types'
<1> SUFFICES ASSUME Types, Takes \/ Leaves \/ GuiPolls \/ \E request \in {"push", "list"} : Asks(request)
             PROVE  Types'
  OBVIOUS
<1> USE PushAssumption DEF Types, TypeOK, Streams, Answering, Pushing, Waiting, fileVars, localVars,
        replyVars, phoneVars, guiVars, history, Announced, NoFile
<1>1. CASE Takes
  <2>1. Head(buffer) \in Units /\ Tail(buffer) \in Seq(Units) /\ Len(Tail(buffer)) = Len(buffer) - 1
    BY <1>1, HeadTailProperties DEF Takes
  <2>2. Head(buffer)[1] # "byte" => Head(buffer)[2] \in Lengths
    BY <2>1, UnitKinds
  <2>3. phone' \in {"line", "rest", "file"} /\ missing' \in 0 .. MaxSize /\ Waiting'
    BY <1>1, <2>2, SMTT(30) DEF Takes, Lengths
  <2>4. confused' \in BOOLEAN
    BY <1>1 DEF Takes
  <2> QED BY <1>1, <2>1, <2>3, <2>4 DEF Takes
<1>2. CASE Leaves
  <2>1. buffer' \in Seq(Units) /\ asked' \in Seq({"push", "list"}) /\ Len(buffer') = 0
    BY <1>2, EmptySeq DEF Leaves
  <2>2. connected' \in BOOLEAN
    BY <1>2 DEF Leaves
  <2>3. UNCHANGED <<fileVars, pc, localVars, replyVars, tls, patient, requests, phone, missing, confused, guiVars, history>>
    BY <1>2 DEF Leaves
  <2>4. Answering' /\ Pushing' /\ Waiting'
    BY <2>3
  <2> QED BY <2>1, <2>2, <2>3, <2>4
<1>3. CASE GuiPolls
  BY <1>3 DEF GuiPolls
<1>4. CASE \E request \in {"push", "list"} : Asks(request)
  BY <1>4 DEF Asks
<1> QED BY <1>1, <1>2, <1>3, <1>4

LEMMA ReplyKeepsTypes == Types /\ SendResponse => Types'
<1> SUFFICES ASSUME Types, SendResponse PROVE Types'
  OBVIOUS
<1> USE DEF Types, TypeOK, Streams, Answering, Pushing, Waiting, fileVars, localVars, phoneVars,
        guiVars, history, Announced, NoFile, Goes
<1>1. CASE ~connected
  <2>1. long' \in BOOLEAN
    BY <1>1, Zenon DEF SendResponse
  <2> QED BY <1>1, <2>1 DEF SendResponse, Stops
<1>2. CASE connected
  <2> DEFINE n == Fitting
             rest == SubSeq(reply, n + 1, Len(reply))
  <2>1. /\ n \in 0 .. 2 /\ n <= Room /\ n <= Len(reply) /\ Len(reply) \in 1 .. 2
        /\ SubSeq(reply, 1, n) \in Seq(Units) /\ Len(SubSeq(reply, 1, n)) = n
        /\ \/ n = 0 /\ rest = reply
           \/ n = Len(reply) /\ rest = << >>
           \/ n = 1 /\ Len(reply) = 2 /\ rest = <<reply[2]>>
    BY Split DEF SendResponse
  <2>2. /\ buffer' = buffer \o SubSeq(reply, 1, n)
        /\ \/ pc' = after /\ reply' = << >> /\ torn' = (torn \/ rest # << >>)
           \/ reply' = rest /\ rest # << >> /\ UNCHANGED <<pc, torn>>
        /\ long' \in BOOLEAN
    BY <1>2 DEF SendResponse, GivesUp
  <2>3. buffer' \in Seq(Units) /\ Len(buffer') <= Capacity
    <3>1. buffer \in Seq(Units) /\ SubSeq(reply, 1, n) \in Seq(Units)
      BY <2>1
    <3>2. buffer' \in Seq(Units) /\ Len(buffer') = Len(buffer) + n
      BY <2>1, <2>2, <3>1, ConcatProperties, SMTT(30)
    <3>3. /\ n <= Capacity - Len(buffer) /\ Capacity \in Nat /\ Len(buffer) \in Nat /\ n \in Nat
      BY <2>1, <3>1, PushAssumption DEF Room
    <3> HIDE DEF n
    <3>4. Len(buffer) + n <= Capacity
      BY <3>3
    <3> QED BY <3>2, <3>4
  <2>4. reply' \in Seq(Units) /\ Len(reply') <= 2
    <3>1. reply \in Seq(Units) /\ Len(reply) <= 2 /\ << >> \in Seq(Units) /\ Len(<< >>) <= 2
      BY EmptySeq
    <3>2. CASE rest = <<reply[2]>> /\ Len(reply) = 2
      <4>1. reply[2] \in Units
        BY <3>1, <3>2, 2 \in 1 .. Len(reply), ElementOfSeq
      <4>2. <<reply[2]>> \in Seq(Units) /\ Len(<<reply[2]>>) <= 2
        BY <4>1
      <4> HIDE DEF rest
      <4> QED BY <2>2, <3>1, <3>2, <4>2, Zenon
    <3>3. rest = reply \/ rest = << >> \/ (rest = <<reply[2]>> /\ Len(reply) = 2)
      BY <2>1
    <3> HIDE DEF rest
    <3> QED BY <2>2, <3>1, <3>2, <3>3
  <2>5. torn' \in BOOLEAN
    BY <2>2
  <2>6. Answering'
    <3>1. Announced' = Announced /\ pc = "reply"
      BY DEF SendResponse
    <3>2. CASE pc' = after
      BY <3>1, <3>2
    <3>3. CASE reply' = rest /\ rest # << >> /\ UNCHANGED pc
      <4>1. Len(Line(Announced)) = 2 /\ Line(Announced)[2] = <<"end", Announced>>
        BY DEF Line
      <4>2. CASE n = 1 /\ Len(reply) = 2 /\ rest = <<reply[2]>>
        <5>1. reply = Line(Announced)
          <6>1. Len(<<<<"end", Announced>>>>) # 2
            OBVIOUS
          <6>2. reply = Line(Announced) \/ reply = <<<<"end", Announced>>>>
            BY <3>1
          <6> QED BY <4>2, <6>1, <6>2
        <5>2. reply' = <<<<"end", Announced>>>>
          BY <3>3, <4>1, <4>2, <5>1
        <5> QED BY <3>1, <5>2 DEF SendResponse
      <4>3. CASE n = 0 /\ rest = reply
        BY <3>1, <3>3, <4>3 DEF SendResponse
      <4> HIDE DEF rest
      <4> QED BY <2>1, <3>3, <4>2, <4>3
    <3> HIDE DEF rest
    <3> QED BY <2>2, <3>2, <3>3
  <2>7. UNCHANGED <<fileVars, localVars, after, tls, phoneVars, guiVars, short>>
    BY DEF SendResponse
  <2> HIDE DEF n, rest
  <2>8. pc' \in Stops /\ Pushing'
    BY <2>2, <2>7 DEF SendResponse, Stops
  <2> QED BY <2>2, <2>3, <2>4, <2>5, <2>6, <2>7, <2>8
<1> QED BY <1>1, <1>2

LEMMA LineFits ==
  ASSUME NEW announced \in Lengths, NEW stop, Replies(announced, stop)
  PROVE  /\ pc' = "reply" /\ after' = stop
         /\ reply' = Line(announced) /\ reply' \in Seq(Units) /\ Len(reply') <= 2
         /\ long' \in BOOLEAN
<1>1. Line(announced) \in Seq(Units) /\ Len(Line(announced)) = 2
  BY LineIsUnits
<1>2. reply' = Line(announced) /\ pc' = "reply" /\ after' = stop
  BY DEF Replies, Goes
<1>3. Len(reply') <= 2
  BY <1>1, <1>2
<1>4. long' \in BOOLEAN
  BY Zenon DEF Replies
<1> QED BY <1>1, <1>2, <1>3, <1>4

LEMMA ListFits ==
  ASSUME NoFile \in Lengths, Lists
  PROVE  /\ pc' = "reply" /\ after' = "idle"
         /\ reply' = Line(NoFile) /\ reply' \in Seq(Units) /\ Len(reply') <= 2
         /\ long' \in BOOLEAN
<1>1. Line(NoFile) \in Seq(Units) /\ Len(Line(NoFile)) = 2
  BY LineIsUnits
<1>2. reply' = Line(NoFile) /\ pc' = "reply" /\ after' = "idle"
  BY DEF Lists, Goes
<1>3. long' \in BOOLEAN
  BY Zenon DEF Lists
<1>4. reply' \in Seq(Units) /\ Len(reply') = 2
  BY <1>1, <1>2, Zenon
<1>5. Len(reply') <= 2
  BY <1>4
<1> QED BY <1>2, <1>3, <1>4, <1>5, Zenon

LEMMA LookKeepsTypes == Types /\ (Begin \/ Scan \/ ListSize \/ Exists \/ Size \/ Open) => Types'
<1> SUFFICES ASSUME Types, Begin \/ Scan \/ ListSize \/ Exists \/ Size \/ Open PROVE Types'
  OBVIOUS
<1>1. NoFile \in Lengths /\ fileSize \in Lengths /\ (file # Absent => size[file] \in Lengths)
  BY PushAssumption DEF NoFile, Lengths, Types, TypeOK, Versions, Absent
<1> USE DEF Types, TypeOK, Streams, Answering, Pushing, Waiting, fileVars, localVars,
        replyVars, phoneVars, guiVars, history, Announced, Stops
<1>2. CASE Begin
  <2>1. asked' \in Seq({"push", "list"})
    BY <1>2, HeadTailProperties DEF Begin
  <2> QED BY <1>2, <2>1 DEF Begin, Goes
<1>3. ASSUME Replies(NoFile, "idle") \/ Lists,
             UNCHANGED <<fileVars, opened, fileSize, buffer, tls, phoneVars, guiVars, history>>,
             UNCHANGED <<sent, chunk, written>> \/ (sent' = 0 /\ chunk' = 0 /\ written' = 0)
      PROVE  Types'
  <2>1. /\ pc' = "reply" /\ after' = "idle"
        /\ reply' = Line(NoFile) /\ reply' \in Seq(Units) /\ Len(reply') <= 2
        /\ long' \in BOOLEAN
    BY <1>1, <1>3, LineFits, ListFits
  <2>2. sent' \in 0 .. fileSize' /\ chunk' \in 0 .. CHUNK /\ written' \in 0 .. chunk'
    BY <1>3, PushAssumption, SMTT(30)
  <2>3. Answering' /\ Pushing' /\ Waiting'
    BY <2>1, <1>3
  <2> QED BY <1>3, <2>1, <2>2, <2>3
<1>4. CASE Scan
  <2>1. CASE file = Absent
    <3>1. Lists
      BY <1>4, <2>1 DEF Scan
    <3>2. UNCHANGED <<fileVars, opened, fileSize, buffer, tls, phoneVars, guiVars, history>>
      BY <1>4, <2>1 DEF Scan
    <3>3. UNCHANGED <<sent, chunk, written>>
      BY <1>4 DEF Scan
    <3> HIDE DEF Types, TypeOK, Streams, Answering, Pushing, Waiting, fileVars, localVars,
             replyVars, phoneVars, guiVars, history, Announced, Stops
    <3> QED BY <1>3, <3>1, <3>2, <3>3
  <2>2. CASE ~(file = Absent)
    BY <1>4, <2>2 DEF Scan, Goes
  <2> QED BY <2>1, <2>2
<1>5. CASE ListSize
  <2>1. CASE file # Absent
    <3>1. Lists
      BY <1>5, <2>1 DEF ListSize
    <3>2. UNCHANGED <<fileVars, opened, fileSize, buffer, tls, phoneVars, guiVars, history>>
      BY <1>5, <2>1 DEF ListSize
    <3>3. UNCHANGED <<sent, chunk, written>>
      BY <1>5 DEF ListSize
    <3> HIDE DEF Types, TypeOK, Streams, Answering, Pushing, Waiting, fileVars, localVars,
             replyVars, phoneVars, guiVars, history, Announced, Stops
    <3> QED BY <1>3, <3>1, <3>2, <3>3
  <2>2. CASE ~(file # Absent)
    BY <1>5, <2>2 DEF ListSize, Goes
  <2> QED BY <2>1, <2>2
<1>6. CASE Exists
  <2>1. CASE file = Absent
    <3>1. Replies(NoFile, "idle")
      BY <1>6, <2>1 DEF Exists
    <3>2. UNCHANGED <<fileVars, opened, fileSize, buffer, tls, phoneVars, guiVars, history>>
      BY <1>6, <2>1 DEF Exists
    <3>3. UNCHANGED <<sent, chunk, written>>
      BY <1>6 DEF Exists
    <3> HIDE DEF Types, TypeOK, Streams, Answering, Pushing, Waiting, fileVars, localVars,
             replyVars, phoneVars, guiVars, history, Announced, Stops
    <3> QED BY <1>3, <3>1, <3>2, <3>3
  <2>2. CASE ~(file = Absent)
    BY <1>6, <2>2 DEF Exists, Goes
  <2> QED BY <2>1, <2>2
<1>7. CASE Size
  <2>1. CASE file = Absent
    BY <1>7, <2>1, PushAssumption DEF Size, Goes
  <2>2. CASE file # Absent /\ size[file] = 0
    BY <1>3, <1>7, <2>2 DEF Size
  <2>3. CASE file # Absent /\ size[file] # 0
    BY <1>1, <1>7, <2>3, PushAssumption DEF Size, Goes, Lengths
  <2> QED BY <2>1, <2>2, <2>3
<1>8. CASE Open
  <2>1. CASE file = Absent
    <3>1. Replies(NoFile, "idle")
      BY <1>8, <2>1 DEF Open
    <3>2. UNCHANGED <<fileVars, opened, fileSize, buffer, tls, phoneVars, guiVars, history>>
      BY <1>8, <2>1 DEF Open
    <3>3. UNCHANGED <<sent, chunk, written>>
      BY <1>8 DEF Open
    <3> HIDE DEF Types, TypeOK, Streams, Answering, Pushing, Waiting, fileVars, localVars,
             replyVars, phoneVars, guiVars, history, Announced, Stops
    <3> QED BY <1>3, <3>1, <3>2, <3>3
  <2>2. CASE file # Absent
    <3>1. Replies(fileSize, "read") /\ opened' = file /\ file \in Versions
      BY <1>8, <2>2 DEF Open
    <3>2. /\ pc' = "reply" /\ after' = "read"
          /\ reply' = Line(fileSize) /\ reply' \in Seq(Units) /\ Len(reply') <= 2
          /\ long' \in BOOLEAN
      BY <1>1, <3>1, LineFits
    <3>3. UNCHANGED <<fileVars, fileSize, sent, chunk, written, buffer, tls, phoneVars, guiVars, history>>
      BY <1>8 DEF Open
    <3>4. Answering' /\ Pushing' /\ Waiting'
      BY <1>8, <3>1, <3>2, <3>3 DEF Open
    <3> QED BY <3>1, <3>2, <3>3, <3>4
  <2> QED BY <2>1, <2>2
<1> QED BY <1>2, <1>4, <1>5, <1>6, <1>7, <1>8

LEMMA CopyKeepsTypes == Types /\ (Read \/ Send \/ SendFails \/ Finish) => Types'
<1> SUFFICES ASSUME Types, Read \/ Send \/ SendFails \/ Finish PROVE Types'
  OBVIOUS
<1> USE DEF Types, TypeOK, Streams, Answering, Pushing, Waiting, fileVars, localVars,
        replyVars, phoneVars, guiVars, history, Announced, Stops, Goes
<1>1. CASE Read
  <2>1. Available \in Nat
    BY <1>1, SMTT(30) DEF Read, Available, Versions
  <2>2. /\ AtMost(Wanted, Available) \in 0 .. CHUNK
        /\ sent + AtMost(Wanted, Available) <= fileSize
    BY <2>1, PushAssumption DEF Wanted, AtMost
  <2>3. short' \in BOOLEAN
    BY <1>1 DEF Read
  <2>4. \/ /\ AtMost(Wanted, Available) > 0 /\ pc' = "send" /\ written' = 0
           /\ chunk' = AtMost(Wanted, Available)
        \/ pc' = "finish" /\ UNCHANGED <<chunk, written>>
    BY <1>1 DEF Read
  <2>5. UNCHANGED <<fileVars, fileSize, opened, sent, replyVars, buffer, tls, phoneVars, guiVars, torn>>
        /\ pc = "read"
    BY <1>1 DEF Read
  <2>6. chunk' \in 0 .. CHUNK /\ written' \in 0 .. chunk' /\ Answering' /\ Pushing' /\ Waiting'
    BY <2>2, <2>4, <2>5, SMTT(30)
  <2>7. pc' \in Stops /\ Streams' /\ connected' \in BOOLEAN /\ confused' \in BOOLEAN
        /\ transfer' \in BOOLEAN /\ overlay' \in BOOLEAN /\ torn' \in BOOLEAN
        /\ tls' \in BOOLEAN /\ patient' \in BOOLEAN
    BY <2>4, <2>5
  <2>8. sent' \in 0 .. fileSize' /\ fileSize' \in 0 .. MaxSize /\ opened' \in Versions \union {Absent}
    BY <2>5
  <2> QED BY <2>3, <2>5, <2>6, <2>7, <2>8
<1>2. CASE Send
  <2> DEFINE n == AtMost(Room, chunk - written)
  <2>1. Room \in Nat \ {0} /\ chunk - written \in Nat \ {0}
    BY <1>2, PushAssumption DEF Send, Room
  <2>2. n \in Nat \ {0} /\ n <= Room /\ n <= chunk - written
    <3>1. Room \in Nat /\ chunk - written \in Nat /\ Room > 0 /\ chunk - written > 0
      BY <2>1
    <3> HIDE DEF n
    <3>2. AtMost(Room, chunk - written) \in Nat /\ AtMost(Room, chunk - written) > 0
      BY <3>1, AtMostIsLeast
    <3>3. AtMost(Room, chunk - written) <= Room /\ AtMost(Room, chunk - written) <= chunk - written
      BY <3>1, AtMostIsLeast
    <3> QED BY <3>2, <3>3 DEF n
  <2>3. buffer' = buffer \o Bytes(opened, NextByte, n)
    BY <1>2 DEF Send, Bytes
  <2>4. opened \in Nat /\ NextByte \in Nat \ {0}
    BY <1>2 DEF Send, Versions, NextByte
  <2>5. buffer' \in Seq(Units) /\ Len(buffer') = Len(buffer) + n
    <3>1. /\ Bytes(opened, NextByte, n) \in Seq(Units)
          /\ Len(Bytes(opened, NextByte, n)) = n
      BY <2>2, <2>4, BytesAreUnits
    <3> HIDE DEF n
    <3>2. buffer \in Seq(Units) /\ buffer' = buffer \o Bytes(opened, NextByte, n)
      BY <2>3
    <3> QED BY <3>1, <3>2, Lengthens, Zenon
  <2>6. \/ written + n < chunk /\ written' = written + n /\ UNCHANGED <<pc, sent, chunk, transfer>>
        \/ sent' = sent + chunk /\ chunk' = 0 /\ written' = 0 /\ pc' = "read" /\ transfer' \in BOOLEAN
    BY <1>2 DEF Send
  <2>7. UNCHANGED <<fileVars, fileSize, opened, replyVars, tls, phoneVars, overlay, history>> /\ pc = "send"
    BY <1>2 DEF Send
  <2> HIDE DEF n
  <2>8. Len(buffer') <= Capacity
    BY <2>2, <2>5, PushAssumption DEF Room
  <2>9. sent' \in 0 .. fileSize' /\ chunk' \in 0 .. CHUNK /\ written' \in 0 .. chunk'
    BY <2>2, <2>6, <2>7, PushAssumption, SMTT(30)
  <2>10. Answering' /\ Pushing' /\ Waiting'
    BY <2>6, <2>7
  <2>11. pc' \in Stops /\ Streams' /\ connected' \in BOOLEAN /\ confused' \in BOOLEAN
         /\ transfer' \in BOOLEAN /\ overlay' \in BOOLEAN /\ torn' \in BOOLEAN
         /\ short' \in BOOLEAN /\ tls' \in BOOLEAN /\ patient' \in BOOLEAN
    BY <2>5, <2>6, <2>7
  <2> QED BY <2>7, <2>8, <2>9, <2>10, <2>11
<1>3. CASE SendFails
  BY <1>3 DEF SendFails
<1>4. CASE Finish
  <2>1. transfer' \in BOOLEAN
    BY <1>4, Zenon DEF Finish, PublishEnd
  <2> QED BY <1>4, <2>1 DEF Finish
<1> QED BY <1>1, <1>2, <1>3, <1>4

(* Every variable of PushFile keeps its type and the send buffer its       *)
(* limit, for any capacity, chunk and file.                                *)
LEMMA NextKeepsTypes == Types /\ [Next]_vars => Types'
<1>1. Types /\ UNCHANGED vars => Types'
  BY DEF Types, TypeOK, Streams, Answering, Pushing, Waiting, Announced, vars, fileVars,
         localVars, replyVars, phoneVars, guiVars, history
<1> QED BY <1>1, FolderKeepsTypes, PhoneKeepsTypes, ReplyKeepsTypes, LookKeepsTypes, CopyKeepsTypes
        DEF Next, SessionStep

LEMMA TypesAlways == Spec => []Types
  BY TypesInit, NextKeepsTypes, PTL DEF Spec

(* Every variable of PushFile keeps its type and the send buffer its       *)
(* limit, for any capacity, chunk and file.                                *)
THEOREM TypeCorrect == Spec => []TypeOK
<1>1. Types => TypeOK
  BY DEF Types
<1> QED BY <1>1, TypesAlways, PTL

-----------------------------------------------------------------------------
(* Replies without TLS.                                                    *)

(* A patient phone has its request served with an empty buffer.            *)
Served ==
  patient =>
    /\ asked # << >> => pc = "idle" /\ buffer = << >> /\ Len(asked) = 1
    /\ ~tls /\ pc \in {"exists", "size", "open", "scan", "listSize", "reply"} => buffer = << >>

LEMMA NextKeepsServed == Types /\ Served /\ [Next]_vars => Served'
<1> SUFFICES ASSUME Types, Served, [Next]_vars PROVE Served'
  OBVIOUS
<1> USE DEF Served, fileVars, localVars, replyVars, phoneVars, guiVars, history, Goes
<1>1. asked \in Seq({"push", "list"}) /\ buffer \in Seq(Units)
  BY DEF Types, TypeOK, Streams
<1>2. CASE RemoveFile \/ CopyFile \/ Truncate \/ GuiPolls \/ UNCHANGED vars
  BY <1>2 DEF RemoveFile, CopyFile, Truncate, GuiPolls, vars
<1>3. CASE Takes \/ Leaves
  BY <1>3 DEF Takes, Leaves
<1>4. ASSUME NEW request \in {"push", "list"}, Asks(request) PROVE Served'
  <2>1. patient => Len(asked') = 1 /\ pc' = "idle" /\ buffer' = << >>
    BY <1>1, <1>4 DEF Asks
  <2>2. ~patient => ~patient'
    BY <1>4 DEF Asks
  <2> QED BY <2>1, <2>2
<1>5. CASE Begin
  <2>1. patient => asked' = << >>
    BY <1>1, <1>5 DEF Begin
  <2> QED BY <1>5, <2>1 DEF Begin
<1>6. CASE Scan \/ ListSize \/ Exists \/ Size \/ Open
  BY <1>6 DEF Scan, ListSize, Exists, Size, Open, Replies, Lists
<1>7. CASE Read \/ Send \/ SendFails \/ Finish
  BY <1>7 DEF Read, Send, SendFails, Finish
<1>8. CASE SendResponse
  <2>1. pc = "reply" /\ pc' \in {"reply", after} /\ UNCHANGED <<asked, patient, tls>>
        /\ after \in {"idle", "read"}
    BY <1>8 DEF SendResponse, Types, Answering
  <2>2. pc' = "reply" => UNCHANGED buffer \/ tls
    BY <1>8, <2>1 DEF SendResponse, GivesUp
  <2>3. patient => asked = << >>
    BY <2>1
  <2> QED BY <2>1, <2>2, <2>3
<1> QED BY <1>2, <1>3, <1>4, <1>5, <1>6, <1>7, <1>8 DEF Next, SessionStep

(* Over TLS the loop has come to the end of the reply; without it the      *)
(* buffer was empty and held the reply at once.                            *)
LEMMA NextLeavesWhole == Types /\ Served /\ [Next]_vars => LeavesWhole
<1> SUFFICES ASSUME Types, Served, [Next]_vars,
                    pc = "reply", pc' # "reply", connected, tls \/ (patient /\ ~long)
             PROVE  buffer' = buffer \o reply
  BY DEF LeavesWhole
<1>1. SendResponse
  BY DEF Next, SessionStep, RemoveFile, CopyFile, Truncate, Asks, Takes, Leaves, GuiPolls, Begin,
         Scan, ListSize, Exists, Size, Open, Read, Send, SendFails, Finish, vars
<1> DEFINE n == Fitting
           rest == SubSeq(reply, n + 1, Len(reply))
<1>2. buffer' = buffer \o SubSeq(reply, 1, n) /\ (rest = << >> \/ ~tls)
  BY <1>1 DEF SendResponse, GivesUp
<1>3. /\ n <= Len(reply) /\ Len(reply) \in 1 .. 2
      /\ \/ n = 0 /\ rest = reply
         \/ n = Len(reply) /\ rest = << >>
         \/ n = 1 /\ Len(reply) = 2 /\ rest = <<reply[2]>>
  BY Split
<1>4. n = Len(reply)
  <2>1. CASE tls
    <3> HIDE DEF n, rest
    <3>1. rest = << >>
      BY <1>2, <2>1
    <3>2. reply # << >> /\ <<reply[2]>> # << >>
      BY <1>3
    <3> QED BY <1>3, <3>1, <3>2
  <2>2. CASE ~tls
    <3>1. patient /\ ~long /\ buffer = << >>
      BY <2>2 DEF Served
    <3>2. Room = Capacity /\ Capacity \in Nat /\ Capacity >= 2
      BY <3>1, PushAssumption DEF Room
    <3>3. \A c \in Nat, m \in 1 .. 2 : c >= 2 => AtMost(c, m) = m
      BY DEF AtMost
    <3> QED BY <1>3, <3>1, <3>2, <3>3 DEF Fitting
  <2> QED BY <2>1, <2>2
<1>5. SubSeq(reply, 1, Len(reply)) = reply
  BY <1>3 DEF Types, Streams
<1> QED BY <1>2, <1>4, <1>5

(* When sendResponse returns over TLS the whole reply has been sent, and   *)
(* also without it if the phone waits for each answer and the reply is not *)
(* a listing longer than the send buffer.  That the buffer can hold any    *)
(* other reply is assumed: a header is as long as a file's name and size.  *)
THEOREM RepliesWhole == Spec => RepliesReachWhole
<1>1. Init => Served
  BY DEF Init, Served
<1>2. Types /\ Served /\ [Next]_vars => Served'
  BY NextKeepsServed
<1>3. Types /\ Served /\ [Next]_vars => [LeavesWhole]_vars
  BY NextLeavesWhole
<1> QED BY <1>1, <1>2, <1>3, TypesAlways, PTL DEF Spec, RepliesReachWhole

-----------------------------------------------------------------------------
(* Lines and bytes.                                                        *)

(* What the phone will wait for when it has taken all that was sent.       *)
Standing ==
  IF pc = "reply" /\ Len(reply) = 1 THEN Rest
  ELSE IF pc = "read" THEN Missing(fileSize - sent)
  ELSE IF pc = "send" THEN Missing((fileSize - sent) - written)
  ELSE ALine

Understood ==
  ~torn /\ ~short =>
    /\ ~confused
    /\ pc = "fail" => ~connected
    /\ connected => Leads(<<phone, missing>>, buffer, Standing)

(* Steps that neither write nor take, and leave what is to be sent alone.  *)
LEMMA StandsStill ==
  ASSUME Types, Understood, UNCHANGED <<torn, short, confused, connected, phone, missing, buffer>>,
         Standing' = Standing, pc' # "fail"
  PROVE  Understood'
  BY DEF Understood, Leads

LEMMA OthersKeepUnderstood ==
  Types /\ Understood
    /\ (RemoveFile \/ CopyFile \/ Truncate \/ GuiPolls \/ Leaves \/ UNCHANGED vars
          \/ \E request \in {"push", "list"} : Asks(request))
  => Understood'
<1> SUFFICES ASSUME Types, Understood,
                    RemoveFile \/ CopyFile \/ Truncate \/ GuiPolls \/ Leaves \/ UNCHANGED vars
                      \/ \E request \in {"push", "list"} : Asks(request)
             PROVE  Understood'
  OBVIOUS
<1> USE DEF fileVars, localVars, replyVars, phoneVars, guiVars, history
<1>1. CASE Leaves
  BY <1>1 DEF Leaves, Understood
<1>2. CASE RemoveFile \/ CopyFile \/ Truncate \/ GuiPolls \/ UNCHANGED vars
             \/ \E request \in {"push", "list"} : Asks(request)
  <2>1. UNCHANGED <<torn, short, confused, connected, phone, missing, buffer, pc, reply, fileSize,
                    sent, written>>
    BY <1>2 DEF RemoveFile, CopyFile, Truncate, GuiPolls, Asks, vars
  <2>2. Standing' = Standing
    BY <2>1 DEF Standing
  <2> QED BY <2>1, <2>2 DEF Understood, Leads
<1> QED BY <1>1, <1>2

LEMMA TakesKeepsUnderstood == Types /\ Understood /\ Takes => Understood'
<1> SUFFICES ASSUME Types, Understood, Takes PROVE Understood'
  OBVIOUS
<1>1. UNCHANGED <<torn, short, connected, pc, reply, fileSize, sent, written>> /\ connected
      /\ buffer # << >> /\ buffer' = Tail(buffer) /\ buffer \in Seq(Units)
  BY DEF Takes, fileVars, localVars, replyVars, guiVars, history, Types, Streams
<1>2. Standing' = Standing
  BY <1>1 DEF Standing
<1>3. CASE ~torn /\ ~short
  <2> DEFINE unit == Head(buffer)
             waits == <<phone, missing>>
  <2>1. waits \in Waits /\ Fits(waits, unit) /\ Leads(Taking(waits, unit), buffer', Standing)
    BY <1>1, <1>3, LeadsFirst DEF Understood
  <2>2. confused' = FALSE /\ Taking(waits, unit) = <<phone', missing'>>
    <3>1. CASE phone = "line"
      BY <2>1, <3>1, <1>3 DEF Takes, Understood, Fits, Taking, ALine, Rest, Waits
    <3>2. CASE phone = "rest"
      BY <2>1, <3>2, <1>3 DEF Takes, Understood, Fits, Taking, ALine, Rest, Waits, Missing, NoFile
    <3>3. CASE phone = "file"
      <4>1. unit[1] = "byte" /\ missing \in Nat \ {0}
        BY <2>1, <3>3 DEF Fits, ALine, Rest, Waits, Lengths
      <4>2. confused' = FALSE
        BY <3>3, <4>1, <1>3 DEF Takes, Understood
      <4>3. Taking(waits, unit) = Missing(missing - 1)
        BY <3>3 DEF Taking, ALine, Rest
      <4>4. missing' = missing - 1 /\ phone' = IF missing = 1 THEN "line" ELSE "file"
        BY <3>3 DEF Takes
      <4> HIDE DEF waits, unit
      <4>5. Missing(missing - 1) = <<phone', missing'>>
        BY <4>1, <4>4 DEF Missing, ALine
      <4> QED BY <4>2, <4>3, <4>5
    <3> QED BY <3>1, <3>2, <3>3 DEF Types, TypeOK
  <2>3. Leads(<<phone, missing>>', buffer', Standing')
    BY <1>2, <2>1, <2>2
  <2> HIDE DEF unit, waits
  <2> QED BY <1>1, <1>3, <2>2, <2>3 DEF Understood
<1>4. CASE torn \/ short
  BY <1>1, <1>4 DEF Understood
<1> QED BY <1>3, <1>4

LEMMA LooksKeepUnderstood ==
  Types /\ Understood
    /\ (Begin \/ Scan \/ ListSize \/ Exists \/ Size \/ Open \/ SendFails \/ Finish)
  => Understood'
<1> SUFFICES ASSUME Types, Understood,
                    Begin \/ Scan \/ ListSize \/ Exists \/ Size \/ Open \/ SendFails \/ Finish
             PROVE  Understood'
  OBVIOUS
<1> USE DEF fileVars, localVars, replyVars, phoneVars, guiVars, history, Goes
<1>1. NoFile \in Lengths /\ fileSize \in Lengths
  BY PushAssumption DEF NoFile, Lengths, Types, TypeOK
<1>2. CASE Begin \/ Scan \/ ListSize \/ Exists \/ Size \/ Open
  <2>1. /\ UNCHANGED <<torn, short, confused, connected, phone, missing, buffer>>
        /\ pc \in {"idle", "scan", "listSize", "exists", "size", "open"}
    BY <1>2 DEF Begin, Scan, ListSize, Exists, Size, Open
  <2>2. \/ pc' \in {"exists", "scan", "listSize", "dead", "size", "open"}
        \/ Replies(NoFile, "idle") \/ Replies(fileSize, "read") \/ Lists
    BY <1>2 DEF Begin, Scan, ListSize, Exists, Size, Open
  <2>3. \/ pc' \in {"exists", "scan", "listSize", "dead", "size", "open"}
        \/ pc' = "reply" /\ Len(reply') = 2
    BY <1>1, <2>2, LineIsUnits DEF Replies, Lists
  <2>4. Standing = ALine /\ Standing' = ALine
    BY <2>1, <2>3 DEF Standing
  <2> QED BY <2>1, <2>3, <2>4, StandsStill
<1>3. CASE SendFails
  BY <1>3 DEF SendFails, Understood
<1>4. CASE Finish
  <2>1. /\ UNCHANGED <<torn, short, confused, connected, phone, missing, buffer>>
        /\ pc \in {"finish", "fail"} /\ pc' = "idle"
    BY <1>4 DEF Finish
  <2>2. Standing = ALine /\ Standing' = ALine
    BY <2>1 DEF Standing
  <2> QED BY <2>1, <2>2, StandsStill
<1> QED BY <1>2, <1>3, <1>4

LEMMA ReadKeepsUnderstood == Types /\ Understood /\ Read => Understood'
<1> SUFFICES ASSUME Types, Understood, Read PROVE Understood'
  OBVIOUS
<1>1. /\ UNCHANGED <<torn, confused, connected, phone, missing, buffer, fileSize, sent>>
      /\ pc = "read" /\ sent \in 0 .. fileSize /\ fileSize \in Nat
  BY DEF Read, Types, TypeOK, fileVars, localVars, replyVars, phoneVars, guiVars, history
<1>2. \/ pc' = "send" /\ written' = 0 /\ UNCHANGED short
      \/ pc' = "finish" /\ short' = (short \/ More)
  BY DEF Read, Goes
<1>3. CASE pc' = "send" /\ written' = 0 /\ UNCHANGED short
  <2>1. Standing' = Standing
    BY <1>1, <1>3 DEF Standing, Missing
  <2> QED BY <1>1, <1>3, <2>1, StandsStill
<1>4. CASE pc' = "finish" /\ short' = (short \/ More)
  <2>1. CASE short'
    BY <2>1 DEF Understood
  <2>2. CASE ~short'
    <3>1. ~short /\ ~More /\ UNCHANGED short
      BY <1>4, <2>2 DEF Types, TypeOK
    <3>2. fileSize - sent = 0
      BY <1>1, <3>1 DEF More
    <3>3. Standing' = Standing
      BY <1>1, <1>4, <3>2 DEF Standing, Missing
    <3> QED BY <1>1, <1>4, <3>1, <3>3, StandsStill
  <2> QED BY <2>1, <2>2
<1> QED BY <1>2, <1>3, <1>4

LEMMA SendKeepsUnderstood == Types /\ Understood /\ Send => Understood'
<1> SUFFICES ASSUME Types, Understood, Send PROVE Understood'
  OBVIOUS
<1> DEFINE n == AtMost(Room, chunk - written)
           left == (fileSize - sent) - written
<1>1. /\ UNCHANGED <<torn, short, confused, connected, phone, missing, fileSize, opened>>
      /\ pc = "send" /\ connected
  BY DEF Send, phoneVars, history
<1>2. /\ sent \in Nat /\ fileSize \in Nat /\ chunk \in Nat /\ written \in Nat
      /\ written < chunk /\ sent + chunk <= fileSize /\ fileSize <= MaxSize /\ MaxSize \in Nat
  BY <1>1, PushAssumption DEF Types, TypeOK, Pushing
<1>3. Room \in Nat /\ chunk - written \in Nat
  BY <1>2, PushAssumption DEF Room, Types, TypeOK, Streams, Send
<1>4. n \in Nat /\ n <= chunk - written
  BY <1>3, AtMostIsLeast
<1>5. \/ written + n < chunk /\ written' = written + n /\ UNCHANGED <<pc, sent, chunk>>
      \/ written + n >= chunk /\ sent' = sent + chunk /\ written' = 0 /\ pc' = "read"
  <2>1. IF written + n < chunk
        THEN written' = written + n /\ UNCHANGED <<pc, sent, chunk>>
        ELSE sent' = sent + chunk /\ written' = 0 /\ pc' = "read"
    BY DEF Send, Goes
  <2> HIDE DEF n
  <2> QED BY <1>2, <1>4, <2>1
<1>6. opened \in Nat /\ NextByte \in Nat \ {0} /\ buffer \in Seq(Units)
  BY <1>1, <1>2 DEF Types, Pushing, Streams, Versions, NextByte
<1>7. buffer' = buffer \o Bytes(opened, NextByte, n)
  BY DEF Send, Bytes
<1> HIDE DEF n
<1>8. left \in Lengths /\ n <= left
  BY <1>2, <1>4 DEF Lengths
<1>9. Standing = Missing(left) /\ Standing' = Missing(left - n)
  <2>1. Standing = Missing(left)
    BY <1>1 DEF Standing
  <2>2. CASE written + n < chunk /\ written' = written + n /\ UNCHANGED <<pc, sent, chunk>>
    <3>1. (fileSize - sent) - written' = left - n
      BY <1>2, <1>4, <2>2
    <3> QED BY <1>1, <2>1, <2>2, <3>1 DEF Standing
  <2>3. CASE written + n >= chunk /\ sent' = sent + chunk /\ written' = 0 /\ pc' = "read"
    <3>1. fileSize - sent' = left - n
      BY <1>2, <1>4, <2>3
    <3> QED BY <1>1, <2>1, <2>3, <3>1 DEF Standing
  <2> QED BY <1>5, <2>2, <2>3
<1> HIDE DEF left
<1>10. Leads(Missing(left), Bytes(opened, NextByte, n), Missing(left - n))
  BY <1>2, <1>4, <1>6, <1>8, BytesLead
<1>11. Bytes(opened, NextByte, n) \in Seq(Units)
  BY <1>4, <1>6, BytesAreUnits
<1>12. ASSUME ~torn, ~short PROVE Leads(<<phone, missing>>, buffer', Standing')
  <2>1. Leads(<<phone, missing>>, buffer, Missing(left))
    BY <1>1, <1>9, <1>12 DEF Understood
  <2>2. Leads(<<phone, missing>>, buffer \o Bytes(opened, NextByte, n), Missing(left - n))
    BY <1>6, <1>10, <1>11, <2>1, LeadsOn
  <2> QED BY <1>7, <1>9, <2>2
<1>13. pc' # "fail"
  BY <1>1, <1>5
<1> QED BY <1>1, <1>12, <1>13 DEF Understood

LEMMA ReplyKeepsUnderstood == Types /\ Understood /\ SendResponse => Understood'
<1> SUFFICES ASSUME Types, Understood, SendResponse PROVE Understood'
  OBVIOUS
<1>1. /\ UNCHANGED <<short, confused, connected, phone, missing, fileSize, sent, written, after>>
      /\ pc = "reply"
  BY DEF SendResponse, phoneVars, localVars
<1>2. /\ after \in {"idle", "read"} /\ Announced \in Lengths
      /\ reply = Line(Announced) \/ reply = <<<<"end", Announced>>>>
      /\ reply \in Seq(Units) /\ buffer \in Seq(Units)
      /\ after = "read" => fileSize - sent = Announced
      /\ after = "idle" => Announced = 0
  BY <1>1, PushAssumption DEF Types, TypeOK, Answering, Streams, Announced, NoFile, Lengths
<1>3. CASE ~connected
  BY <1>1, <1>2, <1>3 DEF SendResponse, Understood, Goes
<1>4. CASE connected /\ ~torn' /\ ~short
  <2> DEFINE n == Fitting
             rest == SubSeq(reply, n + 1, Len(reply))
             first == SubSeq(reply, 1, n)
  <2>1. /\ first \in Seq(Units) /\ Len(first) = n /\ \A i \in 1 .. n : first[i] = reply[i]
        /\ Len(reply) \in 1 .. 2
        /\ \/ n = 0 /\ rest = reply
           \/ n = Len(reply) /\ rest = << >>
           \/ n = 1 /\ Len(reply) = 2 /\ rest = <<reply[2]>>
    BY <1>1, Split
  <2>2. /\ buffer' = buffer \o first
        /\ ~torn
        /\ \/ pc' = after /\ rest = << >>
           \/ reply' = rest /\ rest # << >> /\ UNCHANGED pc
    BY <1>4 DEF SendResponse, GivesUp, Goes, Types, TypeOK
  <2> HIDE DEF n, rest, first
  <2>3. Leads(<<phone, missing>>, buffer, Standing)
    BY <1>4, <2>2 DEF Understood
  <2>4. Standing \in Waits
    BY <1>2, <2>3, LeadsSomewhere
  <2>5. ALine \in Waits /\ Rest \in Waits /\ Missing(Announced) \in Waits
    BY <1>2 DEF ALine, Rest, Waits, Missing
  <2>6. ASSUME pc' = after PROVE Standing' = Missing(Announced)
    BY <1>1, <1>2, <2>6 DEF Standing, Missing
  <2>7. Leads(Standing, first, Standing')
    <3>1. CASE n = 0 /\ rest = reply
      <4>1. Standing' = Standing
        <5>1. reply' = reply /\ UNCHANGED pc
          <6>1. Len(<< >>) = 0 /\ ~(0 \in 1 .. 2)
            OBVIOUS
          <6>2. rest # << >>
            BY <2>1, <3>1, <6>1
          <6> QED BY <2>2, <3>1, <6>2
        <5> QED BY <1>1, <5>1 DEF Standing
      <4> QED BY <2>1, <2>4, <3>1, <4>1, LeadsNowhere
    <3>2. CASE n = 1 /\ Len(reply) = 2 /\ rest = <<reply[2]>>
      <4>1. reply = Line(Announced) /\ Line(Announced)[1] = <<"start", Announced>>
        BY <1>2, <3>2, Len(<<<<"end", Announced>>>>) # 2 DEF Line
      <4>2. Standing = ALine /\ Standing' = Rest
        <5>1. Len(<<reply[2]>>) = 1 /\ <<reply[2]>> # << >>
          OBVIOUS
        <5>2. reply' = rest /\ UNCHANGED pc
          BY <2>2, <3>2, <5>1
        <5> QED BY <1>1, <3>2, <5>1, <5>2 DEF Standing
      <4>3. Fits(ALine, first[1]) /\ Taking(ALine, first[1]) = Rest
        BY <2>1, <3>2, <4>1, 1 \in 1 .. n DEF Fits, Taking
      <4> QED BY <2>1, <2>5, <3>2, <4>2, <4>3, LeadsOne
    <3>3. CASE n = Len(reply) /\ rest = << >>
      <4>1. Standing' = Missing(Announced)
        BY <2>2, <2>6, <3>3
      <4>2. CASE Len(reply) = 1
        <5>1. reply = <<<<"end", Announced>>>>
          BY <1>2, <4>2, LineIsUnits
        <5>2. first[1] = <<"end", Announced>>
          BY <2>1, <3>3, <4>2, <5>1, 1 \in 1 .. n
        <5>3. Standing = Rest /\ Fits(Rest, first[1]) /\ Taking(Rest, first[1]) = Missing(Announced)
          BY <1>1, <4>2, <5>2 DEF Standing, Fits, Taking, Rest, ALine
        <5> QED BY <2>1, <2>5, <3>3, <4>1, <4>2, <5>3, LeadsOne
      <4>3. CASE Len(reply) = 2
        <5>1. reply = Line(Announced)
          BY <1>2, <4>3, Len(<<<<"end", Announced>>>>) # 2
        <5>2. first[1] = <<"start", Announced>> /\ first[2] = <<"end", Announced>>
          BY <1>2, <2>1, <3>3, <4>3, <5>1, LineIsUnits, 1 \in 1 .. n, 2 \in 1 .. n
        <5>3. Standing = ALine
          BY <1>1, <4>3 DEF Standing
        <5>4. /\ Fits(ALine, first[1]) /\ Taking(ALine, first[1]) = Rest
              /\ Fits(Rest, first[2]) /\ Taking(Rest, first[2]) = Missing(Announced)
          BY <5>2 DEF Fits, Taking, Rest, ALine
        <5> QED BY <2>1, <2>5, <3>3, <4>1, <4>3, <5>3, <5>4, LeadsTwo
      <4> QED BY <2>1, <4>2, <4>3
    <3> QED BY <2>1, <3>1, <3>2, <3>3
  <2>8. Leads(<<phone, missing>>, buffer', Standing')
    BY <1>2, <2>1, <2>2, <2>3, <2>7, LeadsOn
  <2>9. pc' # "fail"
    BY <1>1, <1>2, <2>2
  <2> QED BY <1>1, <1>4, <2>2, <2>8, <2>9 DEF Understood
<1>5. CASE torn' \/ short
  BY <1>1, <1>5 DEF Understood
<1> QED BY <1>3, <1>4, <1>5

(* Whatever becomes of the file, however the send buffer is filled and     *)
(* drained, the phone takes no line for bytes of a file and no byte for a  *)
(* line, unless a reply was torn or a file ended early.                    *)
THEOREM InStep == Spec => []PhoneStaysInStep
<1>1. Init => Understood
  <2> SUFFICES ASSUME Init PROVE Understood
    OBVIOUS
  <2>1. Standing = ALine /\ <<phone, missing>> = ALine /\ Len(buffer) = 0 /\ ~confused
    BY DEF Init, Standing, ALine
  <2>2. ALine \in Waits
    BY DEF ALine, Waits
  <2> QED BY <2>1, <2>2, LeadsNowhere DEF Init, Understood
<1>2. Types /\ Understood /\ [Next]_vars => Understood'
  BY OthersKeepUnderstood, TakesKeepsUnderstood, LooksKeepUnderstood, ReadKeepsUnderstood,
     SendKeepsUnderstood, ReplyKeepsUnderstood
     DEF Next, SessionStep
<1>3. Types /\ Understood => PhoneStaysInStep
  BY DEF Understood, PhoneStaysInStep, Types, TypeOK
<1> QED BY <1>1, <1>2, <1>3, TypesAlways, PTL DEF Spec
-----------------------------------------------------------------------------
(* The bytes of a file.                                                    *)

(* The tape: what the phone has of the file it waits for, from the line    *)
(* that announced it, and what is still to reach it.                       *)
Before == IF phone = "file" THEN <<<<"end", Len(taken) + missing>>>> \o taken ELSE << >>
Tape == Before \o buffer

(* The version the session reads, the length it announced, and how much of *)
(* it is on the tape.                                                      *)
Nowhere == <<Absent, 0, 0>>
At ==
  IF pc = "read" THEN <<opened, fileSize, sent>>
  ELSE IF pc = "send" THEN <<opened, fileSize, sent + written>>
  ELSE Nowhere

(* Every file announced is on the tape with all its bytes, or the session  *)
(* is still writing them.                                                  *)
RunsOf(tape, at) ==
  \A i \in 1 .. Len(tape), length \in Lengths \ {0} :
    tape[i] = <<"end", length>> =>
      \E version \in Versions :
        /\ \A j \in 1 .. length : i + j <= Len(tape) => tape[i + j] = Byte(version, j)
        /\ i + length > Len(tape) => at = <<version, length, Len(tape) - i>>

(* A byte follows the one before it, and a first byte a line.              *)
Follows(unit, before) ==
  IF unit[3] = 1 THEN before[1] = "end" ELSE before = Byte(unit[2], unit[3] - 1)

Continues(tape, at) ==
  at[1] # Absent /\ Len(tape) # 0 =>
    IF at[3] = 0 THEN tape[Len(tape)][1] = "end" ELSE tape[Len(tape)] = Byte(at[1], at[3])

ChainOf(tape, at) ==
  /\ \A i \in 2 .. Len(tape) : tape[i][1] = "byte" => Follows(tape[i], tape[i - 1])
  /\ Continues(tape, at)

(* Without a file cut short the first holds, without a torn line the       *)
(* second; the phone takes the bytes in order by either.                   *)
TapeTypes ==
  /\ taken \in Seq(Units)
  /\ phone = "file" => Len(taken) + missing \in Lengths
Taped ==
  /\ ~confused /\ connected /\ ~short => RunsOf(Tape, At)
  /\ ~confused /\ connected /\ ~torn => ChainOf(Tape, At)

LEMMA Joined ==
  ASSUME NEW r \in Seq(Units), NEW s \in Seq(Units)
  PROVE  /\ r \o s \in Seq(Units) /\ Len(r) \in Nat /\ Len(s) \in Nat
         /\ Len(r \o s) = Len(r) + Len(s)
         /\ \A i \in 1 .. Len(r) : (r \o s)[i] = r[i]
         /\ \A i \in 1 .. Len(s) : (r \o s)[Len(r) + i] = s[i]
<1>1. /\ Len(r) \in Nat /\ Len(s) \in Nat /\ r \o s \in Seq(Units)
      /\ Len(r \o s) = Len(r) + Len(s)
      /\ \A i \in 1 .. Len(r) + Len(s) :
           (r \o s)[i] = IF i <= Len(r) THEN r[i] ELSE s[i - Len(r)]
  BY ConcatProperties, LenProperties
<1>2. ASSUME NEW i \in 1 .. Len(r) PROVE i \in 1 .. Len(r) + Len(s) /\ i <= Len(r)
  BY <1>1
<1>3. ASSUME NEW i \in 1 .. Len(s)
      PROVE  /\ Len(r) + i \in 1 .. Len(r) + Len(s) /\ ~(Len(r) + i <= Len(r))
             /\ (Len(r) + i) - Len(r) = i
  BY <1>1
<1> QED BY <1>1, <1>2, <1>3

LEMMA OfTape ==
  ASSUME Types, TapeTypes
  PROVE  /\ Tape \in Seq(Units) /\ Before \in Seq(Units)
         /\ Len(buffer) \in Nat /\ Len(taken) \in Nat
         /\ phone # "file" => Tape = buffer
         /\ phone = "file" =>
              /\ Len(Tape) = (1 + Len(taken)) + Len(buffer)
              /\ Tape[1] = <<"end", Len(taken) + missing>>
              /\ \A i \in 1 .. Len(taken) : Tape[1 + i] = taken[i]
              /\ \A i \in 1 .. Len(buffer) : Tape[(1 + Len(taken)) + i] = buffer[i]
<1> DEFINE announced == <<<<"end", Len(taken) + missing>>>>
           before == announced \o taken   \* what Before is then
<1>1. buffer \in Seq(Units) /\ taken \in Seq(Units) /\ Len(buffer) \in Nat /\ Len(taken) \in Nat
  BY LenProperties DEF Types, Streams, TapeTypes
<1>2. CASE phone # "file"
  <2>1. Tape = buffer
    BY <1>1, <1>2, ConcatEmptySeq DEF Tape, Before
  <2>2. Before \in Seq(Units)
    BY <1>2, EmptySeq DEF Before
  <2> QED BY <1>1, <1>2, <2>1, <2>2
<1>3. CASE phone = "file"
  <2>1. announced \in Seq(Units) /\ Len(announced) = 1 /\ announced[1] = <<"end", Len(taken) + missing>>
    BY <1>3 DEF TapeTypes, Units
  <2>2. Before = before /\ Tape = before \o buffer
    BY <1>3 DEF Tape, Before
  <2> HIDE DEF announced
  <2>3. /\ before \in Seq(Units) /\ Len(before) = 1 + Len(taken)
        /\ before[1] = announced[1]
        /\ \A i \in 1 .. Len(taken) : before[1 + i] = taken[i]
    <3>1. /\ announced \o taken \in Seq(Units) /\ Len(announced \o taken) = Len(announced) + Len(taken)
          /\ \A i \in 1 .. Len(announced) : (announced \o taken)[i] = announced[i]
          /\ \A i \in 1 .. Len(taken) : (announced \o taken)[Len(announced) + i] = taken[i]
      BY <1>1, <2>1, Joined
    <3> QED BY <2>1, <3>1, 1 \in 1 .. 1
  <2> HIDE DEF before
  <2>4. /\ before \o buffer \in Seq(Units)
        /\ Len(before \o buffer) = (1 + Len(taken)) + Len(buffer)
        /\ \A i \in 1 .. 1 + Len(taken) : (before \o buffer)[i] = before[i]
        /\ \A i \in 1 .. Len(buffer) : (before \o buffer)[(1 + Len(taken)) + i] = buffer[i]
    <3>1. /\ before \o buffer \in Seq(Units) /\ Len(before \o buffer) = Len(before) + Len(buffer)
          /\ \A i \in 1 .. Len(before) : (before \o buffer)[i] = before[i]
          /\ \A i \in 1 .. Len(buffer) : (before \o buffer)[Len(before) + i] = buffer[i]
      BY <1>1, <2>3, Joined
    <3> QED BY <2>3, <3>1
  <2>5. 1 \in 1 .. 1 + Len(taken) /\ \A i \in 1 .. Len(taken) : 1 + i \in 1 .. 1 + Len(taken)
    BY <1>1
  <2> QED BY <1>1, <1>3, <2>1, <2>2, <2>3, <2>4, <2>5
<1> QED BY <1>2, <1>3

(* The end of a tape keeps what holds of it.                               *)
Ends(s, t) ==
  \E d \in Nat : Len(t) = d + Len(s) /\ \A i \in 1 .. Len(s) : s[i] = t[d + i]

LEMMA RunsOfEnd ==
  ASSUME NEW s \in Seq(Units), NEW t \in Seq(Units), NEW at, Ends(s, t), RunsOf(t, at)
  PROVE  RunsOf(s, at)
<1>1. PICK d \in Nat : Len(t) = d + Len(s) /\ \A i \in 1 .. Len(s) : s[i] = t[d + i]
  BY DEF Ends
<1>2. Len(s) \in Nat /\ Len(t) \in Nat
  BY LenProperties
<1> SUFFICES ASSUME NEW i \in 1 .. Len(s), NEW length \in Lengths \ {0}, s[i] = <<"end", length>>
             PROVE  \E version \in Versions :
                      /\ \A j \in 1 .. length : i + j <= Len(s) => s[i + j] = Byte(version, j)
                      /\ i + length > Len(s) => at = <<version, length, Len(s) - i>>
  BY DEF RunsOf
<1>3. d + i \in 1 .. Len(t) /\ t[d + i] = <<"end", length>> /\ length \in Nat
  BY <1>1, <1>2 DEF Lengths
<1>4. PICK version \in Versions :
        /\ \A j \in 1 .. length : (d + i) + j <= Len(t) => t[(d + i) + j] = Byte(version, j)
        /\ (d + i) + length > Len(t) => at = <<version, length, Len(t) - (d + i)>>
  BY <1>3 DEF RunsOf
<1>5. ASSUME NEW j \in 1 .. length, i + j <= Len(s) PROVE s[i + j] = Byte(version, j)
  <2>1. i + j \in 1 .. Len(s) /\ (d + i) + j <= Len(t) /\ d + (i + j) = (d + i) + j
    BY <1>1, <1>2, <1>3, <1>5, SMTT(20)
  <2> QED BY <1>1, <1>4, <2>1
<1>6. ASSUME i + length > Len(s) PROVE at = <<version, length, Len(s) - i>>
  <2>1. (d + i) + length > Len(t) /\ Len(t) - (d + i) = Len(s) - i
    BY <1>1, <1>2, <1>3, <1>6
  <2> QED BY <1>4, <2>1
<1> QED BY <1>5, <1>6

LEMMA ChainOfEnd ==
  ASSUME NEW s \in Seq(Units), NEW t \in Seq(Units), NEW at, Ends(s, t), ChainOf(t, at)
  PROVE  ChainOf(s, at)
<1>1. PICK d \in Nat : Len(t) = d + Len(s) /\ \A i \in 1 .. Len(s) : s[i] = t[d + i]
  BY DEF Ends
<1>2. Len(s) \in Nat /\ Len(t) \in Nat
  BY LenProperties
<1>3. ASSUME NEW i \in 2 .. Len(s), s[i][1] = "byte" PROVE Follows(s[i], s[i - 1])
  <2>1. /\ i \in 1 .. Len(s) /\ i - 1 \in 1 .. Len(s) /\ d + i \in 2 .. Len(t)
        /\ d + (i - 1) = (d + i) - 1
    BY <1>1, <1>2
  <2>2. s[i] = t[d + i] /\ s[i - 1] = t[(d + i) - 1]
    BY <1>1, <2>1
  <2> QED BY <1>3, <2>1, <2>2 DEF ChainOf
<1>4. Len(s) # 0 => Len(t) # 0 /\ s[Len(s)] = t[Len(t)]
  BY <1>1, <1>2
<1>5. Continues(s, at)
  BY <1>4 DEF ChainOf, Continues
<1> QED BY <1>3, <1>5 DEF ChainOf
(* More bytes of the file go on the tape.                                  *)
LEMMA RunsOfBytes ==
  ASSUME NEW t \in Seq(Units), NEW version \in Versions, NEW length \in Lengths,
         NEW p \in Nat, NEW n \in Nat, p + n <= length,
         RunsOf(t, <<version, length, p>>)
  PROVE  RunsOf(t \o Bytes(version, p + 1, n), <<version, length, p + n>>)
<1> DEFINE s == Bytes(version, p + 1, n)
           u == t \o s
<1>1. /\ s \in Seq(Units) /\ Len(s) = n
      /\ \A i \in 1 .. n : s[i][1] = "byte" /\ s[i] = Byte(version, p + i)
  <2>1. version \in Nat /\ p + 1 \in Nat \ {0}
    BY DEF Versions
  <2>2. \A i \in 1 .. n : s[i] = Byte(version, p + i)
    <3>1. ASSUME NEW i \in 1 .. n PROVE (p + 1) + i - 1 = p + i
      OBVIOUS
    <3> QED BY <3>1 DEF Bytes
  <2> HIDE DEF s
  <2> QED BY <2>1, <2>2, BytesAreUnits, ZenonT(30) DEF s
<1> HIDE DEF s
<1>2. /\ Len(t) \in Nat /\ Len(u) = Len(t) + n
      /\ \A i \in 1 .. Len(t) : u[i] = t[i]
      /\ \A i \in 1 .. n : u[Len(t) + i] = s[i]
  BY <1>1, Joined
<1> HIDE DEF u
<1> SUFFICES ASSUME NEW i \in 1 .. Len(u), NEW k \in Lengths \ {0}, u[i] = <<"end", k>>
             PROVE  \E w \in Versions :
                      /\ \A j \in 1 .. k : i + j <= Len(u) => u[i + j] = Byte(w, j)
                      /\ i + k > Len(u) => <<version, length, p + n>> = <<w, k, Len(u) - i>>
  BY DEF RunsOf, u, s
<1>3. k \in Nat /\ length \in Nat
  BY DEF Lengths
<1>4. i \in 1 .. Len(t)
  <2>1. ASSUME i > Len(t) PROVE FALSE
    <3>1. i - Len(t) \in 1 .. n /\ Len(t) + (i - Len(t)) = i
      BY <1>2, <2>1
    <3>2. u[i] = s[i - Len(t)]
      BY <1>2, <3>1
    <3> QED BY <1>1, <3>1, <3>2, SMTT(20)
  <2> QED BY <1>2, <2>1
<1>5. t[i] = <<"end", k>>
  BY <1>2, <1>4
<1>6. PICK w \in Versions :
        /\ \A j \in 1 .. k : i + j <= Len(t) => t[i + j] = Byte(w, j)
        /\ i + k > Len(t) => <<version, length, p>> = <<w, k, Len(t) - i>>
  BY <1>4, <1>5 DEF RunsOf
<1>7. ASSUME NEW j \in 1 .. k, i + j <= Len(u) PROVE u[i + j] = Byte(w, j)
  <2>1. CASE i + j <= Len(t)
    <3>1. i + j \in 1 .. Len(t)
      BY <1>2, <1>3, <1>4, <2>1
    <3> QED BY <1>2, <1>6, <2>1, <3>1
  <2>2. CASE i + j > Len(t)
    <3>1. i + k > Len(t)
      BY <1>2, <1>3, <1>4, <2>2
    <3>2. version = w /\ p = Len(t) - i
      BY <1>6, <3>1
    <3>3. /\ (i + j) - Len(t) \in 1 .. n /\ Len(t) + ((i + j) - Len(t)) = i + j
          /\ p + ((i + j) - Len(t)) = j
      BY <1>2, <1>3, <1>4, <1>7, <2>2, <3>2
    <3> DEFINE m == (i + j) - Len(t)
    <3>4. u[Len(t) + m] = s[m] /\ s[m] = Byte(version, p + m)
      BY <1>1, <1>2, <3>3
    <3> QED BY <3>2, <3>3, <3>4
  <2> QED BY <1>2, <1>3, <1>4, <2>1, <2>2
<1>8. ASSUME i + k > Len(u) PROVE <<version, length, p + n>> = <<w, k, Len(u) - i>>
  <2>1. i + k > Len(t)
    BY <1>2, <1>3, <1>4, <1>8
  <2>2. version = w /\ length = k /\ p = Len(t) - i
    BY <1>6, <2>1
  <2> QED BY <1>2, <1>4, <2>2
<1> QED BY <1>7, <1>8

LEMMA ChainOfBytes ==
  ASSUME NEW t \in Seq(Units), NEW version \in Versions, NEW length,
         NEW p \in Nat, NEW n \in Nat,
         ChainOf(t, <<version, length, p>>)
  PROVE  ChainOf(t \o Bytes(version, p + 1, n), <<version, length, p + n>>)
<1> DEFINE s == Bytes(version, p + 1, n)
           u == t \o s
<1>1. /\ s \in Seq(Units) /\ Len(s) = n
      /\ \A i \in 1 .. n : s[i] = Byte(version, p + i)
  <2>1. version \in Nat /\ p + 1 \in Nat \ {0}
    BY DEF Versions
  <2>2. \A i \in 1 .. n : s[i] = Byte(version, p + i)
    <3>1. ASSUME NEW i \in 1 .. n PROVE (p + 1) + i - 1 = p + i
      OBVIOUS
    <3> QED BY <3>1 DEF Bytes
  <2> HIDE DEF s
  <2> QED BY <2>1, <2>2, BytesAreUnits DEF s
<1> HIDE DEF s
<1>2. /\ Len(t) \in Nat /\ Len(u) = Len(t) + n
      /\ \A i \in 1 .. Len(t) : u[i] = t[i]
      /\ \A i \in 1 .. n : u[Len(t) + i] = s[i]
  BY <1>1, Joined
<1> HIDE DEF u
<1>3. version # Absent
  BY DEF Versions, Absent
<1>4. Len(t) # 0 => IF p = 0 THEN t[Len(t)][1] = "end" ELSE t[Len(t)] = Byte(version, p)
  BY <1>3 DEF ChainOf, Continues
<1>5. ASSUME NEW i \in 2 .. Len(u), u[i][1] = "byte" PROVE Follows(u[i], u[i - 1])
  <2>1. CASE i <= Len(t)
    <3>1. i \in 2 .. Len(t) /\ i \in 1 .. Len(t) /\ i - 1 \in 1 .. Len(t)
      BY <1>2, <2>1
    <3>2. u[i] = t[i] /\ u[i - 1] = t[i - 1]
      BY <1>2, <3>1
    <3> QED BY <1>5, <3>1, <3>2 DEF ChainOf
  <2>2. CASE i = Len(t) + 1
    <3>1. 1 \in 1 .. n /\ Len(t) # 0 /\ i - 1 = Len(t) /\ Len(t) \in 1 .. Len(t)
      BY <1>2, <2>2
    <3>2. u[i] = Byte(version, p + 1) /\ u[i - 1] = t[Len(t)]
      BY <1>1, <1>2, <2>2, <3>1
    <3>3. p + 1 = 1 <=> p = 0
      OBVIOUS
    <3>4. (p + 1) - 1 = p
      OBVIOUS
    <3> QED BY <1>4, <3>1, <3>2, <3>3, <3>4 DEF Follows, Byte
  <2>3. CASE i > Len(t) + 1
    <3>1. /\ i - Len(t) \in 1 .. n /\ Len(t) + (i - Len(t)) = i
          /\ (i - Len(t)) - 1 \in 1 .. n /\ Len(t) + ((i - Len(t)) - 1) = i - 1
          /\ p + (i - Len(t)) # 1 /\ (p + (i - Len(t))) - 1 = p + ((i - Len(t)) - 1)
      BY <1>2, <2>3
    <3>2. u[i] = s[i - Len(t)] /\ u[i - 1] = s[(i - Len(t)) - 1]
      BY <1>2, <3>1
    <3>3. u[i] = Byte(version, p + (i - Len(t))) /\ u[i - 1] = Byte(version, p + ((i - Len(t)) - 1))
      BY <1>1, <3>1, <3>2
    <3> QED BY <3>1, <3>3 DEF Follows, Byte
  <2> QED BY <1>2, <2>1, <2>2, <2>3
<1>6. Continues(u, <<version, length, p + n>>)
  <2>1. CASE n = 0
    <3>1. Len(u) = Len(t) /\ p + n = p /\ (Len(t) # 0 => u[Len(u)] = t[Len(t)])
      BY <1>2, <2>1
    <3> QED BY <1>4, <3>1 DEF Continues
  <2>2. CASE n # 0
    <3>1. n \in 1 .. n /\ p + n # 0
      BY <2>2
    <3>2. u[Len(u)] = Byte(version, p + n)
      BY <1>1, <1>2, <3>1
    <3> QED BY <3>1, <3>2 DEF Continues
  <2> QED BY <2>1, <2>2
<1> QED BY <1>5, <1>6 DEF ChainOf, u, s

(* A line, or a part of it, goes on the tape.                              *)
LEMMA RunsOfLine ==
  ASSUME NEW t \in Seq(Units), NEW s \in Seq(Units), NEW at, NEW length \in Lengths,
         RunsOf(t, Nowhere),
         length # 0 => \E version \in Versions : at = <<version, length, 0>>,
         \A i \in 1 .. Len(s) : \/ s[i][1] = "start"
                                \/ i = Len(s) /\ s[i] = <<"end", length>>
  PROVE  RunsOf(t \o s, at)
<1> DEFINE u == t \o s
<1>1. /\ Len(t) \in Nat /\ Len(s) \in Nat /\ Len(u) = Len(t) + Len(s)
      /\ \A i \in 1 .. Len(t) : u[i] = t[i]
      /\ \A i \in 1 .. Len(s) : u[Len(t) + i] = s[i]
  BY Joined
<1> HIDE DEF u
<1> SUFFICES ASSUME NEW i \in 1 .. Len(u), NEW k \in Lengths \ {0}, u[i] = <<"end", k>>
             PROVE  \E w \in Versions :
                      /\ \A j \in 1 .. k : i + j <= Len(u) => u[i + j] = Byte(w, j)
                      /\ i + k > Len(u) => at = <<w, k, Len(u) - i>>
  BY DEF RunsOf, u
<1>2. k \in Nat \ {0}
  BY DEF Lengths
<1>3. CASE i <= Len(t)
  <2>1. i \in 1 .. Len(t) /\ t[i] = <<"end", k>>
    BY <1>1, <1>3
  <2>2. PICK w \in Versions :
          /\ \A j \in 1 .. k : i + j <= Len(t) => t[i + j] = Byte(w, j)
          /\ i + k > Len(t) => Nowhere = <<w, k, Len(t) - i>>
    BY <2>1 DEF RunsOf
  <2>3. i + k <= Len(t)
    BY <1>1, <1>2, <2>2 DEF Nowhere, Absent, Versions
  <2>4. ASSUME NEW j \in 1 .. k PROVE u[i + j] = Byte(w, j)
    <3>1. i + j \in 1 .. Len(t) /\ i + j <= Len(t)
      BY <1>1, <1>2, <2>1, <2>3
    <3> QED BY <1>1, <2>2, <3>1
  <2>5. ~(i + k > Len(u))
    BY <1>1, <1>2, <2>3
  <2> QED BY <2>4, <2>5
<1>4. CASE i > Len(t)
  <2>1. i - Len(t) \in 1 .. Len(s) /\ Len(t) + (i - Len(t)) = i
    BY <1>1, <1>4
  <2>2. s[i - Len(t)] = <<"end", k>>
    BY <1>1, <2>1
  <2>3. i - Len(t) = Len(s) /\ k = length
    <3>1. s[i - Len(t)][1] # "start"
      BY <2>2
    <3>2. i - Len(t) = Len(s) /\ s[i - Len(t)] = <<"end", length>>
      BY <2>1, <3>1
    <3> QED BY <2>2, <3>2
  <2>4. i = Len(u) /\ Len(u) - i = 0
    BY <1>1, <2>1, <2>3
  <2>5. PICK version \in Versions : at = <<version, length, 0>>
    BY <1>2, <2>3
  <2>6. \A j \in 1 .. k : ~(i + j <= Len(u))
    BY <1>1, <1>2, <2>4
  <2> QED BY <2>3, <2>4, <2>5, <2>6
<1> QED BY <1>1, <1>3, <1>4

LEMMA ChainOfLine ==
  ASSUME NEW t \in Seq(Units), NEW s \in Seq(Units), NEW at,
         ChainOf(t, Nowhere),
         \A i \in 1 .. Len(s) : s[i][1] # "byte",
         at[1] # Absent => at[3] = 0 /\ Len(s) # 0 /\ s[Len(s)][1] = "end"
  PROVE  ChainOf(t \o s, at)
<1> DEFINE u == t \o s
<1>1. /\ Len(t) \in Nat /\ Len(s) \in Nat /\ Len(u) = Len(t) + Len(s)
      /\ \A i \in 1 .. Len(t) : u[i] = t[i]
      /\ \A i \in 1 .. Len(s) : u[Len(t) + i] = s[i]
  BY Joined
<1> HIDE DEF u
<1>2. ASSUME NEW i \in 2 .. Len(u), u[i][1] = "byte" PROVE Follows(u[i], u[i - 1])
  <2>1. CASE i <= Len(t)
    <3>1. i \in 2 .. Len(t) /\ i \in 1 .. Len(t) /\ i - 1 \in 1 .. Len(t)
      BY <1>1, <2>1
    <3>2. u[i] = t[i] /\ u[i - 1] = t[i - 1]
      BY <1>1, <3>1
    <3> QED BY <1>2, <3>1, <3>2 DEF ChainOf
  <2>2. CASE i > Len(t)
    <3>1. i - Len(t) \in 1 .. Len(s) /\ Len(t) + (i - Len(t)) = i
      BY <1>1, <2>2
    <3>2. u[i] = s[i - Len(t)]
      BY <1>1, <3>1
    <3> QED BY <1>2, <3>1, <3>2
  <2> QED BY <1>1, <2>1, <2>2
<1>3. Continues(u, at)
  <2> SUFFICES ASSUME at[1] # Absent PROVE u[Len(u)][1] = "end" /\ at[3] = 0
    BY DEF Continues
  <2>1. at[3] = 0 /\ Len(s) \in 1 .. Len(s) /\ s[Len(s)][1] = "end"
    BY <1>1
  <2> QED BY <1>1, <2>1
<1> QED BY <1>2, <1>3 DEF ChainOf, u

(* The last byte was written.                                              *)
LEMMA RunsDone ==
  ASSUME NEW t \in Seq(Units), NEW version, NEW length \in Lengths,
         RunsOf(t, <<version, length, length>>)
  PROVE  RunsOf(t, Nowhere)
<1> SUFFICES ASSUME NEW i \in 1 .. Len(t), NEW k \in Lengths \ {0}, t[i] = <<"end", k>>
             PROVE  \E w \in Versions :
                      /\ \A j \in 1 .. k : i + j <= Len(t) => t[i + j] = Byte(w, j)
                      /\ i + k > Len(t) => Nowhere = <<w, k, Len(t) - i>>
  BY DEF RunsOf
<1>1. PICK w \in Versions :
        /\ \A j \in 1 .. k : i + j <= Len(t) => t[i + j] = Byte(w, j)
        /\ i + k > Len(t) => <<version, length, length>> = <<w, k, Len(t) - i>>
  BY DEF RunsOf
<1>2. k \in Nat /\ Len(t) \in Nat
  BY LenProperties DEF Lengths
<1>3. ~(i + k > Len(t))
  <2> SUFFICES ASSUME i + k > Len(t) PROVE FALSE
    OBVIOUS
  <2>1. k = Len(t) - i
    BY <1>1
  <2> QED BY <1>2, <2>1
<1> QED BY <1>1, <1>3

LEMMA ChainDone ==
  ASSUME NEW t, NEW at, ChainOf(t, at) PROVE ChainOf(t, Nowhere)
  BY DEF ChainOf, Continues, Nowhere
LEMMA TapeGrows ==
  ASSUME Types, TapeTypes, NEW s \in Seq(Units),
         buffer' = buffer \o s, UNCHANGED <<phone, taken, missing>>
  PROVE  Tape' = Tape \o s
<1>1. Before \in Seq(Units) /\ buffer \in Seq(Units)
  BY OfTape DEF Types, Streams
<1>2. Tape' = Before \o (buffer \o s)
  BY DEF Tape, Before
<1>3. Before \o (buffer \o s) = (Before \o buffer) \o s
  BY <1>1, ConcatAssociative, SMTT(20)
<1> QED BY <1>2, <1>3 DEF Tape

(* What the phone takes goes off the tape, or is kept at its head.         *)
LEMMA TapeShrinks ==
  ASSUME Types, TapeTypes, Takes
  PROVE  TapeTypes' /\ Ends(Tape', Tape)
<1> DEFINE unit == Head(buffer)
           rest == Tail(buffer)
<1>1. /\ buffer \in Seq(Units) /\ taken \in Seq(Units) /\ buffer # << >> /\ buffer' = rest
      /\ unit \in Units /\ rest \in Seq(Units) /\ Len(rest) \in Nat /\ Len(taken) \in Nat
      /\ Len(buffer) = 1 + Len(rest) /\ unit = buffer[1]
      /\ \A i \in 1 .. Len(rest) : rest[i] = buffer[1 + i]
  <2>1. buffer \in Seq(Units) /\ taken \in Seq(Units) /\ buffer # << >> /\ buffer' = rest
    BY DEF Takes, Types, Streams, TapeTypes
  <2>2. /\ unit \in Units /\ rest \in Seq(Units) /\ Len(buffer) \in Nat \ {0}
        /\ Len(rest) = Len(buffer) - 1 /\ unit = buffer[1]
        /\ \A i \in 1 .. Len(rest) : rest[i] = buffer[i + 1]
    BY <2>1, HeadTailProperties, LenProperties, EmptySeq
  <2>3. \A i \in 1 .. Len(rest) : i + 1 = 1 + i
    OBVIOUS
  <2>4. Len(taken) \in Nat
    BY <2>1, LenProperties
  <2> HIDE DEF unit, rest
  <2>5. Len(rest) \in Nat /\ Len(buffer) = 1 + Len(rest)
    BY <2>2
  <2> QED BY <2>1, <2>2, <2>3, <2>4, <2>5
<1>2. missing \in Lengths /\ (phone = "file" => missing # 0) /\ MaxSize \in Nat
  BY PushAssumption DEF Types, TypeOK, Waiting, Lengths
<1>3. /\ unit[1] # "byte" => unit[2] \in Lengths
      /\ unit[1] = "end" => unit = <<"end", unit[2]>>
  <2> HIDE DEF unit
  <2> QED BY <1>1 DEF Units
<1>4. CASE phone = "line" \/ (phone = "rest" /\ ~(unit[1] = "end" /\ unit[2] # NoFile))
  <2>1. phone' \in {"line", "rest"} /\ taken' = taken
    BY <1>4 DEF Takes
  <2>2. TapeTypes'
    BY <1>1, <2>1 DEF TapeTypes
  <2>3. Tape = buffer
    BY <1>4, OfTape
  <2>4. Tape' = rest
    <3>1. Tape' = << >> \o rest
      BY <1>1, <2>1 DEF Tape, Before
    <3> HIDE DEF rest
    <3> QED BY <1>1, <3>1, ConcatEmptySeq
  <2> HIDE DEF rest
  <2>5. 1 \in Nat
    OBVIOUS
  <2> QED BY <1>1, <2>2, <2>3, <2>4, <2>5 DEF Ends
<1>5. CASE phone = "rest" /\ unit[1] = "end" /\ unit[2] # NoFile
  <2>1. phone' = "file" /\ missing' = unit[2] /\ taken' = << >>
    BY <1>5 DEF Takes
  <2> HIDE DEF unit, rest
  <2>2. << >> \in Seq(Units) /\ Len(<< >>) = 0
    OBVIOUS
  <2>3. TapeTypes'
    BY <1>2, <1>3, <1>5, <2>1, <2>2 DEF TapeTypes, Lengths
  <2>4. Tape = buffer
    BY <1>5, OfTape
  <2>5. Before' = <<unit>>
    <3>1. Len(taken') + missing' = unit[2]
      BY <1>2, <1>3, <1>5, <2>1 DEF Lengths
    <3>2. Before' = <<<<"end", unit[2]>>>> \o << >>
      BY <2>1, <3>1 DEF Before
    <3> QED BY <1>3, <1>5, <3>2
  <2>6. /\ <<unit>> \in Seq(Units) /\ Len(<<unit>>) = 1 /\ <<unit>>[1] = unit
    BY <1>1
  <2>7. Tape' = <<unit>> \o rest
    BY <1>1, <2>5 DEF Tape
  <2> DEFINE one == <<unit>>
  <2>8. one \in Seq(Units) /\ Len(one) = 1 /\ one[1] = unit
    BY <2>6
  <2>9. /\ Len(Tape') = Len(one) + Len(rest)
        /\ \A i \in 1 .. Len(one) : Tape'[i] = one[i]
        /\ \A i \in 1 .. Len(rest) : Tape'[Len(one) + i] = rest[i]
    <3> HIDE DEF one
    <3>1. Tape' = one \o rest
      BY <2>7 DEF one
    <3> QED BY <1>1, <2>8, <3>1, Joined
  <2> HIDE DEF one
  <2>10. ASSUME NEW i \in 1 .. Len(Tape') PROVE Tape'[i] = buffer[i]
    <3>1. i = 1 \/ (i - 1 \in 1 .. Len(rest) /\ 1 + (i - 1) = i)
      BY <1>1, <2>8, <2>9
    <3>2. CASE i = 1
      BY <1>1, <2>8, <2>9, <3>2, 1 \in 1 .. 1
    <3>3. CASE i - 1 \in 1 .. Len(rest) /\ 1 + (i - 1) = i
      BY <1>1, <2>8, <2>9, <3>3
    <3> QED BY <3>1, <3>2, <3>3
  <2>11. Len(Tape') = Len(buffer) /\ Len(buffer) = 0 + Len(buffer)
    BY <1>1, <2>8, <2>9
  <2>12. \A i \in 1 .. Len(Tape') : Tape'[i] = Tape[0 + i]
    BY <2>4, <2>10
  <2> QED BY <2>3, <2>4, <2>11, <2>12 DEF Ends
<1>6. CASE phone = "file"
  <2>1. /\ taken' = Append(taken, unit) /\ missing' = missing - 1
        /\ phone' = IF missing = 1 THEN "line" ELSE "file"
    BY <1>6 DEF Takes
  <2> HIDE DEF unit, rest
  <2>2. /\ taken' \in Seq(Units) /\ Len(taken') = Len(taken) + 1
        /\ \A i \in 1 .. Len(taken) : taken'[i] = taken[i]
        /\ taken'[Len(taken) + 1] = unit
    BY <1>1, <2>1, AppendProperties
  <2>3. TapeTypes'
    <3>1. Len(taken') + missing' = Len(taken) + missing
      BY <1>1, <1>2, <2>1, <2>2 DEF Lengths
    <3> QED BY <1>6, <2>2, <3>1 DEF TapeTypes
  <2>4. /\ Len(Tape) = (1 + Len(taken)) + Len(buffer)
        /\ Tape[1] = <<"end", Len(taken) + missing>>
        /\ \A i \in 1 .. Len(taken) : Tape[1 + i] = taken[i]
        /\ \A i \in 1 .. Len(buffer) : Tape[(1 + Len(taken)) + i] = buffer[i]
    BY <1>6, OfTape
  <2>5. CASE missing = 1
    <3>1. Tape' = rest
      <4>1. Tape' = << >> \o rest
        BY <1>1, <2>1, <2>5 DEF Tape, Before
      <4> QED BY <1>1, <4>1, ConcatEmptySeq
    <3>2. ASSUME NEW i \in 1 .. Len(rest) PROVE rest[i] = Tape[(2 + Len(taken)) + i]
      <4>1. 1 + i \in 1 .. Len(buffer) /\ (1 + Len(taken)) + (1 + i) = (2 + Len(taken)) + i
        BY <1>1
      <4> QED BY <1>1, <2>4, <4>1
    <3>3. 2 + Len(taken) \in Nat /\ Len(Tape) = (2 + Len(taken)) + Len(rest)
      BY <1>1, <2>4
    <3> QED BY <2>3, <3>1, <3>2, <3>3 DEF Ends
  <2>6. CASE missing # 1
    <3>1. phone' = "file"
      BY <2>1, <2>6
    <3>2. Types'
      BY PhoneKeepsTypes
    <3>3. /\ Len(Tape') = (1 + Len(taken')) + Len(buffer')
          /\ Tape'[1] = <<"end", Len(taken') + missing'>>
          /\ \A i \in 1 .. Len(taken') : Tape'[1 + i] = taken'[i]
          /\ \A i \in 1 .. Len(buffer') : Tape'[(1 + Len(taken')) + i] = buffer'[i]
      <4>1. (Types /\ TapeTypes /\ phone = "file" =>
               /\ Len(Tape) = (1 + Len(taken)) + Len(buffer)
               /\ Tape[1] = <<"end", Len(taken) + missing>>
               /\ \A i \in 1 .. Len(taken) : Tape[1 + i] = taken[i]
               /\ \A i \in 1 .. Len(buffer) : Tape[(1 + Len(taken)) + i] = buffer[i])'
        BY OfTape, PTL
      <4> QED BY <2>3, <3>1, <3>2, <4>1
    <3>4. Len(Tape') = Len(Tape) /\ Len(Tape) = 0 + Len(Tape)
      BY <1>1, <2>2, <2>4, <3>3
    <3>5. ASSUME NEW i \in 1 .. Len(Tape') PROVE Tape'[i] = Tape[0 + i]
      <4>1. 0 + i = i
        OBVIOUS
      <4>2. CASE i = 1
        <5>1. Len(taken') + missing' = Len(taken) + missing
          BY <1>1, <1>2, <2>1, <2>2 DEF Lengths
        <5> QED BY <2>4, <3>3, <4>1, <4>2, <5>1
      <4>3. CASE i \in 2 .. 1 + Len(taken)
        <5>1. i - 1 \in 1 .. Len(taken) /\ i - 1 \in 1 .. Len(taken') /\ 1 + (i - 1) = i
          BY <1>1, <2>2, <4>3
        <5>2. Tape'[1 + (i - 1)] = taken'[i - 1] /\ Tape[1 + (i - 1)] = taken[i - 1]
          BY <2>4, <3>3, <5>1
        <5> QED BY <2>2, <4>1, <5>1, <5>2
      <4>4. CASE i = 2 + Len(taken)
        <5>1. /\ Len(taken) + 1 \in 1 .. Len(taken') /\ 1 + (Len(taken) + 1) = i
              /\ 1 \in 1 .. Len(buffer) /\ (1 + Len(taken)) + 1 = i
          BY <1>1, <2>2, <4>4
        <5>2. Tape'[1 + (Len(taken) + 1)] = unit /\ Tape[(1 + Len(taken)) + 1] = unit
          BY <1>1, <2>2, <2>4, <3>3, <5>1
        <5> QED BY <4>1, <5>1, <5>2
      <4>5. CASE i > 2 + Len(taken)
        <5> DEFINE k == i - (2 + Len(taken))
        <5>1. /\ k \in 1 .. Len(rest) /\ (1 + Len(taken')) + k = i
              /\ 1 + k \in 1 .. Len(buffer) /\ (1 + Len(taken)) + (1 + k) = i
          BY <1>1, <2>2, <3>3, <4>5
        <5> HIDE DEF k
        <5>2. Tape'[(1 + Len(taken')) + k] = rest[k] /\ Tape[(1 + Len(taken)) + (1 + k)] = rest[k]
          BY <1>1, <2>4, <3>3, <5>1
        <5> QED BY <4>1, <5>1, <5>2
      <4>6. i = 1 \/ i \in 2 .. 1 + Len(taken) \/ i = 2 + Len(taken) \/ i > 2 + Len(taken)
        BY <1>1
      <4> QED BY <4>2, <4>3, <4>4, <4>5, <4>6
    <3> QED BY <2>3, <3>4, <3>5 DEF Ends
  <2> QED BY <2>5, <2>6
<1>7. phone \in {"line", "rest", "file"}
  BY DEF Types, TypeOK
<1> HIDE DEF unit, rest
<1> QED BY <1>4, <1>5, <1>6, <1>7
(* The types of the tape, what is on it, and what the phone took.          *)
TapeInv == TapeTypes /\ Taped /\ TakenInOrder

(* Steps that leave the tape alone, and what is to be written on it.       *)
LEMMA TapeStandsStill ==
  ASSUME TapeInv,
         UNCHANGED <<torn, short, confused, connected, phone, missing, taken, buffer>>, At' = At
  PROVE  TapeInv'
<1>1. Tape' = Tape
  BY DEF Tape, Before
<1>2. TapeTypes' /\ TakenInOrder'
  BY DEF TapeInv, TapeTypes, TakenInOrder
<1>3. Taped'
  <2>1. RunsOf(Tape, At)' = RunsOf(Tape, At) /\ ChainOf(Tape, At)' = ChainOf(Tape, At)
    BY <1>1 DEF RunsOf, ChainOf, Continues
  <2> QED BY <2>1 DEF TapeInv, Taped
<1> QED BY <1>2, <1>3 DEF TapeInv

LEMMA OthersKeepTape ==
  TapeInv
    /\ (RemoveFile \/ CopyFile \/ Truncate \/ GuiPolls \/ Leaves \/ UNCHANGED vars
          \/ \E request \in {"push", "list"} : Asks(request))
  => TapeInv'
<1> SUFFICES ASSUME TapeInv,
                    RemoveFile \/ CopyFile \/ Truncate \/ GuiPolls \/ Leaves \/ UNCHANGED vars
                      \/ \E request \in {"push", "list"} : Asks(request)
             PROVE  TapeInv'
  OBVIOUS
<1> USE DEF fileVars, localVars, replyVars, phoneVars, guiVars, history
<1>1. CASE Leaves
  <2>1. UNCHANGED <<torn, short, confused, phone, missing, taken>> /\ ~connected'
    BY <1>1 DEF Leaves
  <2> QED BY <2>1 DEF TapeInv, TapeTypes, Taped, TakenInOrder
<1>2. CASE RemoveFile \/ CopyFile \/ Truncate \/ GuiPolls \/ UNCHANGED vars
             \/ \E request \in {"push", "list"} : Asks(request)
  <2>1. /\ UNCHANGED <<torn, short, confused, connected, phone, missing, taken, buffer>>
        /\ UNCHANGED <<pc, opened, fileSize, sent, written>>
    BY <1>2 DEF RemoveFile, CopyFile, Truncate, GuiPolls, Asks, vars
  <2>2. At' = At
    BY <2>1 DEF At
  <2> QED BY <2>1, <2>2, TapeStandsStill
<1> QED BY <1>1, <1>2

LEMMA LooksKeepTape ==
  TapeInv /\ (Begin \/ Scan \/ ListSize \/ Exists \/ Size \/ Open \/ SendFails \/ Finish)
  => TapeInv'
<1> SUFFICES ASSUME TapeInv,
                    Begin \/ Scan \/ ListSize \/ Exists \/ Size \/ Open \/ SendFails \/ Finish
             PROVE  TapeInv'
  OBVIOUS
<1> USE DEF fileVars, localVars, replyVars, phoneVars, guiVars, history, Goes
<1>1. CASE SendFails
  <2>1. UNCHANGED <<torn, short, confused, phone, missing, taken>> /\ ~connected'
    BY <1>1 DEF SendFails
  <2> QED BY <2>1 DEF TapeInv, TapeTypes, Taped, TakenInOrder
<1>2. CASE Begin \/ Scan \/ ListSize \/ Exists \/ Size \/ Open \/ Finish
  <2>1. /\ UNCHANGED <<torn, short, confused, connected, phone, missing, taken, buffer>>
        /\ pc \in {"idle", "scan", "listSize", "exists", "size", "open", "finish", "fail"}
        /\ pc' \in {"exists", "scan", "listSize", "dead", "size", "open", "reply", "idle"}
    <3>1. CASE Begin \/ Finish
      BY <3>1 DEF Begin, Finish
    <3>2. CASE Scan \/ ListSize \/ Exists
      <4>1. CASE file = Absent
        BY <3>2, <4>1 DEF Scan, ListSize, Exists, Replies, Lists
      <4>2. CASE file # Absent
        BY <3>2, <4>2 DEF Scan, ListSize, Exists, Replies, Lists
      <4> QED BY <4>1, <4>2
    <3>3. CASE Size
      BY <3>3 DEF Size, Replies
    <3>4. CASE Open
      <4>1. CASE file = Absent
        BY <3>4, <4>1 DEF Open, Replies
      <4>2. CASE file # Absent
        BY <3>4, <4>2 DEF Open, Replies
      <4> QED BY <4>1, <4>2
    <3> QED BY <1>2, <3>1, <3>2, <3>3, <3>4
  <2>2. At' = At
    BY <2>1 DEF At
  <2> QED BY <2>1, <2>2, TapeStandsStill
<1> QED BY <1>1, <1>2

LEMMA ReadKeepsTape == Types /\ TapeInv /\ Read => TapeInv'
<1> SUFFICES ASSUME Types, TapeInv, Read PROVE TapeInv'
  OBVIOUS
<1>1. /\ UNCHANGED <<torn, confused, connected, phone, missing, taken, buffer>>
      /\ UNCHANGED <<opened, fileSize, sent>>
      /\ pc = "read" /\ sent \in 0 .. fileSize /\ fileSize \in Lengths /\ sent + 0 = sent
  BY DEF Read, Types, TypeOK, Lengths, fileVars, localVars, replyVars, phoneVars, guiVars, history
<1>2. \/ pc' = "send" /\ written' = 0 /\ UNCHANGED short
      \/ pc' = "finish" /\ short' = (short \/ More)
  BY DEF Read, Goes
<1>3. CASE pc' = "send" /\ written' = 0 /\ UNCHANGED short
  <2>1. At' = At
    BY <1>1, <1>3 DEF At
  <2> QED BY <1>1, <1>3, <2>1, TapeStandsStill
<1>4. CASE pc' = "finish" /\ short' = (short \/ More)
  <2>1. At = <<opened, fileSize, sent>> /\ At' = Nowhere /\ Tape' = Tape
    BY <1>1, <1>4 DEF At, Tape, Before, Nowhere
  <2>2. TapeTypes' /\ TakenInOrder'
    BY <1>1, <1>4 DEF TapeInv, TapeTypes, TakenInOrder
  <2>3. ASSUME ~confused', connected', ~short' PROVE RunsOf(Tape', At')
    <3>1. ~short /\ sent = fileSize
      <4>1. ~short /\ ~More
        BY <1>4, <2>3 DEF Types, TypeOK
      <4> QED BY <1>1, <4>1 DEF More, Lengths
    <3>2. RunsOf(Tape, <<opened, fileSize, fileSize>>)
      BY <1>1, <2>1, <2>3, <3>1 DEF TapeInv, Taped
    <3>3. Tape \in Seq(Units)
      BY OfTape DEF TapeInv
    <3> QED BY <1>1, <2>1, <3>2, <3>3, RunsDone
  <2>4. ASSUME ~confused', connected', ~torn' PROVE ChainOf(Tape', At')
    <3>1. ChainOf(Tape, At)
      BY <1>1, <2>4 DEF TapeInv, Taped
    <3> QED BY <2>1, <3>1, ChainDone
  <2> QED BY <2>2, <2>3, <2>4 DEF TapeInv, Taped
<1> QED BY <1>2, <1>3, <1>4

LEMMA SendKeepsTape == Types /\ TapeInv /\ Send => TapeInv'
<1> SUFFICES ASSUME Types, TapeInv, Send PROVE TapeInv'
  OBVIOUS
<1> DEFINE n == AtMost(Room, chunk - written)
           p == sent + written
<1>1. /\ UNCHANGED <<torn, short, confused, connected, phone, missing, taken, fileSize, opened>>
      /\ pc = "send"
  BY DEF Send, phoneVars, history
<1>2. /\ sent \in Nat /\ fileSize \in Nat /\ chunk \in Nat /\ written \in Nat
      /\ written < chunk /\ sent + chunk <= fileSize
      /\ fileSize \in Lengths /\ opened \in Versions
  BY <1>1, PushAssumption DEF Types, TypeOK, Pushing, Lengths
<1>3. Room \in Nat /\ chunk - written \in Nat
  BY <1>2, PushAssumption DEF Room, Types, TypeOK, Streams, Send
<1>4. n \in Nat /\ n <= chunk - written
  BY <1>3, AtMostIsLeast
<1>5. \/ written + n < chunk /\ written' = written + n /\ UNCHANGED <<pc, sent, chunk>>
      \/ written + n >= chunk /\ sent' = sent + chunk /\ written' = 0 /\ pc' = "read"
  <2>1. IF written + n < chunk
        THEN written' = written + n /\ UNCHANGED <<pc, sent, chunk>>
        ELSE sent' = sent + chunk /\ written' = 0 /\ pc' = "read"
    BY DEF Send, Goes
  <2> HIDE DEF n
  <2> QED BY <1>2, <1>4, <2>1
<1>6. buffer' = buffer \o Bytes(opened, p + 1, n)
  BY DEF Send, Bytes, NextByte
<1> HIDE DEF n
<1>7. p \in Nat /\ p + n <= fileSize /\ p + 1 \in Nat \ {0}
  BY <1>2, <1>4
<1>8. At = <<opened, fileSize, p>> /\ At' = <<opened, fileSize, p + n>>
  <2>1. CASE written + n < chunk /\ written' = written + n /\ UNCHANGED <<pc, sent, chunk>>
    <3>1. sent' + written' = p + n
      BY <1>2, <1>4, <2>1
    <3> QED BY <1>1, <2>1, <3>1 DEF At
  <2>2. CASE written + n >= chunk /\ sent' = sent + chunk /\ written' = 0 /\ pc' = "read"
    <3>1. sent' = p + n
      BY <1>2, <1>4, <2>2
    <3> QED BY <1>1, <2>2, <3>1 DEF At
  <2> QED BY <1>5, <2>1, <2>2
<1> HIDE DEF p
<1>9. Bytes(opened, p + 1, n) \in Seq(Units)
  BY <1>2, <1>4, <1>7, BytesAreUnits DEF Versions
<1>10. Tape' = Tape \o Bytes(opened, p + 1, n)
  BY <1>1, <1>6, <1>9, TapeGrows DEF TapeInv
<1>11. Tape \in Seq(Units)
  BY OfTape DEF TapeInv
<1>12. ASSUME ~confused', connected', ~short' PROVE RunsOf(Tape', At')
  <2>1. RunsOf(Tape, <<opened, fileSize, p>>)
    BY <1>1, <1>8, <1>12 DEF TapeInv, Taped
  <2>2. RunsOf(Tape \o Bytes(opened, p + 1, n), <<opened, fileSize, p + n>>)
    BY <1>2, <1>4, <1>7, <1>11, <2>1, RunsOfBytes
  <2> QED BY <1>8, <1>10, <2>2
<1>13. ASSUME ~confused', connected', ~torn' PROVE ChainOf(Tape', At')
  <2>1. ChainOf(Tape, <<opened, fileSize, p>>)
    BY <1>1, <1>8, <1>13 DEF TapeInv, Taped
  <2>2. ChainOf(Tape \o Bytes(opened, p + 1, n), <<opened, fileSize, p + n>>)
    BY <1>2, <1>4, <1>7, <1>11, <2>1, ChainOfBytes
  <2> QED BY <1>8, <1>10, <2>2
<1>14. TapeTypes' /\ TakenInOrder'
  BY <1>1 DEF TapeInv, TapeTypes, TakenInOrder
<1> QED BY <1>12, <1>13, <1>14 DEF TapeInv, Taped
LEMMA ReplyKeepsTape == Types /\ TapeInv /\ SendResponse => TapeInv'
<1> SUFFICES ASSUME Types, TapeInv, SendResponse PROVE TapeInv'
  OBVIOUS
<1>1. /\ UNCHANGED <<short, confused, connected, phone, missing, taken>>
      /\ UNCHANGED <<opened, fileSize, sent, after>>
      /\ pc = "reply" /\ At = Nowhere
  BY DEF SendResponse, phoneVars, localVars, At
<1>2. /\ after \in {"idle", "read"} /\ Announced \in Lengths
      /\ reply = Line(Announced) \/ reply = <<<<"end", Announced>>>>
      /\ reply \in Seq(Units)
      /\ after = "read" => opened \in Versions /\ sent = 0 /\ fileSize = Announced
      /\ Announced # 0 => after = "read"
  BY <1>1, PushAssumption DEF Types, TypeOK, Answering, Streams, Announced, NoFile, Lengths
<1>3. /\ torn => torn'
      /\ TapeTypes' /\ TakenInOrder'
  <2>1. torn => torn'
    BY DEF SendResponse
  <2> QED BY <1>1, <2>1 DEF TapeInv, TapeTypes, TakenInOrder
<1>4. CASE ~connected
  BY <1>1, <1>3, <1>4 DEF TapeInv, Taped
<1>5. CASE connected
  <2> DEFINE n == Fitting
             rest == SubSeq(reply, n + 1, Len(reply))
             first == SubSeq(reply, 1, n)
  <2>1. /\ first \in Seq(Units) /\ Len(first) = n /\ \A i \in 1 .. n : first[i] = reply[i]
        /\ n \in 0 .. 2 /\ n <= Len(reply) /\ Len(reply) \in 1 .. 2
        /\ \/ n = 0 /\ rest = reply
           \/ n = Len(reply) /\ rest = << >>
           \/ n = 1 /\ Len(reply) = 2 /\ rest = <<reply[2]>>
    BY <1>1, Split
  <2>2. buffer' = buffer \o first
    BY <1>5 DEF SendResponse
  <2>3. \/ pc' = after /\ (rest # << >> => torn')
        \/ pc' = pc /\ rest # << >>
    BY <1>5 DEF SendResponse, GivesUp, Goes
  <2> HIDE DEF n, rest, first
  <2>4. rest = << >> <=> n = Len(reply)
    <3>1. reply # << >> /\ <<reply[2]>> # << >> /\ Len(reply) # 0
      BY <2>1
    <3> QED BY <2>1, <3>1
  <2>5. /\ \A i \in 1 .. n : first[i][1] = "start" \/ (i = Len(reply) /\ first[i] = <<"end", Announced>>)
        /\ n = Len(reply) => first[n] = <<"end", Announced>>
    <3>1. CASE reply = Line(Announced)
      <4>1. /\ Len(reply) = 2 /\ reply[1] = <<"start", Announced>>
            /\ reply[2] = <<"end", Announced>>
        BY <1>2, <3>1, LineIsUnits
      <4>2. \A i \in 1 .. n : i = 1 \/ i = 2
        BY <2>1
      <4> QED BY <2>1, <4>1, <4>2, 2 \in 1 .. 2
    <3>2. CASE reply = <<<<"end", Announced>>>>
      <4>1. Len(reply) = 1 /\ reply[1] = <<"end", Announced>>
        BY <3>2
      <4>2. \A i \in 1 .. n : i = 1
        BY <2>1, <4>1
      <4> QED BY <2>1, <4>1, <4>2, 1 \in 1 .. 1
    <3> QED BY <1>2, <3>1, <3>2
  <2>6. \/ pc' = "read" /\ after = "read" /\ At' = <<opened, fileSize, 0>> /\ opened \in Versions
        \/ pc' # "read" /\ At' = Nowhere
    BY <1>1, <1>2, <2>3 DEF At
  <2>7. Tape' = Tape \o first /\ Tape \in Seq(Units)
    BY <1>1, <2>1, <2>2, OfTape, TapeGrows DEF TapeInv
  <2>8. ASSUME ~confused', connected', ~short' PROVE RunsOf(Tape', At')
    <3>1. RunsOf(Tape, Nowhere)
      BY <1>1, <2>8 DEF TapeInv, Taped
    <3>2. CASE n = Len(reply)
      <4>1. pc' = after
        BY <2>3, <2>4, <3>2
      <4>2. Announced # 0 => \E version \in Versions : At' = <<version, Announced, 0>>
        BY <1>2, <2>6, <4>1
      <4>3. \A i \in 1 .. Len(first) : \/ first[i][1] = "start"
                                       \/ i = Len(first) /\ first[i] = <<"end", Announced>>
        BY <2>1, <2>5, <3>2
      <4> QED BY <1>2, <2>1, <2>7, <3>1, <4>2, <4>3, RunsOfLine, ZenonT(30)
    <3>3. CASE n # Len(reply)
      <4>1. \A i \in 1 .. Len(first) : first[i][1] = "start"
        <5>1. \A i \in 1 .. n : i # Len(reply)
          BY <2>1, <3>3
        <5> QED BY <2>1, <2>5, <5>1
      <4>2. 0 \in Lengths
        BY PushAssumption DEF Lengths
      <4> QED BY <2>1, <2>7, <3>1, <4>1, <4>2, RunsOfLine
    <3> QED BY <3>2, <3>3
  <2>9. ASSUME ~confused', connected', ~torn' PROVE ChainOf(Tape', At')
    <3>1. ChainOf(Tape, Nowhere)
      BY <1>1, <1>3, <2>9 DEF TapeInv, Taped
    <3>2. \A i \in 1 .. Len(first) : first[i][1] # "byte"
      BY <2>1, <2>5
    <3>3. ASSUME At'[1] # Absent
          PROVE  At'[3] = 0 /\ Len(first) # 0 /\ first[Len(first)][1] = "end"
      <4>1. pc' = "read" /\ At'[3] = 0
        BY <2>6, <3>3 DEF Nowhere
      <4>2. n = Len(reply)
        BY <1>1, <2>3, <2>4, <2>9, <4>1
      <4> QED BY <2>1, <2>5, <4>1, <4>2
    <3> QED BY <2>1, <2>7, <3>1, <3>2, <3>3, ChainOfLine
  <2> QED BY <1>3, <2>8, <2>9 DEF TapeInv, Taped
<1> QED BY <1>4, <1>5

(* The phone takes a byte: it is the next of the same version.             *)
LEMMA TakesInOrder ==
  ASSUME Types, TapeInv, Takes, phone = "file", ~confused', ~(torn /\ short)
  PROVE  \A i \in DOMAIN taken' : taken'[i] = Byte(taken'[1][2], i)
<1> DEFINE unit == Head(buffer)
<1>1. /\ taken' = Append(taken, unit) /\ buffer # << >> /\ connected /\ ~confused
      /\ unit[1] = "byte"
  BY DEF Takes
<1>2. /\ buffer \in Seq(Units) /\ taken \in Seq(Units)
      /\ unit \in Units /\ unit = buffer[1] /\ Len(buffer) # 0 /\ Len(buffer) \in Nat
      /\ Len(taken) \in Nat
  BY <1>1, HeadTailProperties, LenProperties, EmptySeq DEF Types, Streams, TapeInv, TapeTypes
<1> HIDE DEF unit
<1>3. /\ taken' \in Seq(Units) /\ Len(taken') = Len(taken) + 1
      /\ \A i \in 1 .. Len(taken) : taken'[i] = taken[i]
      /\ taken'[Len(taken) + 1] = unit
  BY <1>1, <1>2, AppendProperties
<1>4. DOMAIN taken' = 1 .. Len(taken) + 1
  BY <1>3, LenProperties
<1>5. /\ Len(Tape) = (1 + Len(taken)) + Len(buffer) /\ Tape \in Seq(Units)
      /\ Tape[1] = <<"end", Len(taken) + missing>>
      /\ \A i \in 1 .. Len(taken) : Tape[1 + i] = taken[i]
      /\ \A i \in 1 .. Len(buffer) : Tape[(1 + Len(taken)) + i] = buffer[i]
  BY OfTape DEF TapeInv
<1>6. Tape[1 + (Len(taken) + 1)] = unit
  <2>1. (1 + Len(taken)) + 1 = 1 + (Len(taken) + 1) /\ 1 \in 1 .. Len(buffer)
    BY <1>2
  <2> QED BY <1>2, <1>5, <2>1
<1>7. missing \in Nat \ {0} /\ Len(taken) + missing \in Lengths \ {0}
  <2>1. missing \in Lengths /\ missing # 0 /\ Len(taken) + missing \in Lengths
    BY DEF Types, TypeOK, Waiting, TapeInv, TapeTypes, Lengths
  <2> QED BY <1>2, <2>1 DEF Lengths
<1>8. CASE ~short
  <2>1. RunsOf(Tape, At)
    BY <1>1, <1>8 DEF TapeInv, Taped
  <2>2. 1 \in 1 .. Len(Tape)
    BY <1>2, <1>5
  <2>3. PICK version \in Versions :
          \A j \in 1 .. Len(taken) + missing : 1 + j <= Len(Tape) => Tape[1 + j] = Byte(version, j)
    BY <1>5, <1>7, <2>1, <2>2 DEF RunsOf
  <2>4. ASSUME NEW i \in 1 .. Len(taken) + 1 PROVE taken'[i] = Byte(version, i)
    <3>1. /\ i \in 1 .. Len(taken) + missing /\ 1 + i <= Len(Tape)
          /\ i \in 1 .. Len(taken) \/ i = Len(taken) + 1
      BY <1>2, <1>5, <1>7
    <3>2. taken'[i] = Tape[1 + i]
      BY <1>3, <1>5, <1>6, <3>1
    <3> QED BY <2>3, <3>1, <3>2
  <2>5. taken'[1][2] = version
    BY <1>2, <2>4, 1 \in 1 .. Len(taken) + 1 DEF Byte
  <2> QED BY <1>4, <2>4, <2>5
<1>9. CASE ~torn
  <2>1. ChainOf(Tape, At)
    BY <1>1, <1>9 DEF TapeInv, Taped
  <2>2. /\ 1 + (Len(taken) + 1) \in 2 .. Len(Tape)
        /\ (1 + (Len(taken) + 1)) - 1 = 1 + Len(taken)
    BY <1>2, <1>5
  <2>3. Follows(unit, Tape[1 + Len(taken)])
    BY <1>1, <1>6, <2>1, <2>2 DEF ChainOf
  <2>4. unit = Byte(unit[2], unit[3]) /\ unit[3] \in Nat
    BY <1>1, <1>2 DEF Units, Byte
  <2>5. CASE Len(taken) = 0
    <3>1. Tape[1 + Len(taken)][1] = "end"
      BY <1>5, <2>5
    <3>2. unit[3] = 1
      BY <2>3, <3>1 DEF Follows, Byte
    <3>3. taken'[1] = unit
      BY <1>3, <2>5
    <3>4. \A i \in 1 .. Len(taken) + 1 : i = 1
      BY <2>5
    <3> QED BY <1>4, <2>4, <3>2, <3>3, <3>4
  <2>6. CASE Len(taken) # 0
    <3>1. \A i \in 1 .. Len(taken) : taken[i] = Byte(taken[1][2], i)
      BY <1>1, <1>2, LenProperties DEF TapeInv, TakenInOrder
    <3>2. Len(taken) \in 1 .. Len(taken) /\ 1 \in 1 .. Len(taken)
      BY <1>2, <2>6
    <3>3. Tape[1 + Len(taken)] = Byte(taken[1][2], Len(taken))
      BY <1>5, <3>1, <3>2
    <3>4. Byte(taken[1][2], Len(taken)) = Byte(unit[2], unit[3] - 1)
      BY <2>3, <3>3 DEF Follows, Byte
    <3>5. unit[2] = taken[1][2] /\ unit[3] = Len(taken) + 1
      BY <1>2, <2>4, <3>4 DEF Byte
    <3>6. taken'[1] = taken[1]
      BY <1>3, <3>2
    <3>7. ASSUME NEW i \in 1 .. Len(taken) + 1 PROVE taken'[i] = Byte(taken[1][2], i)
      <4>1. i \in 1 .. Len(taken) \/ i = Len(taken) + 1
        BY <1>2
      <4> QED BY <1>3, <2>4, <3>1, <3>5, <4>1
    <3> QED BY <1>4, <3>6, <3>7
  <2> QED BY <2>5, <2>6
<1> QED BY <1>8, <1>9

LEMMA TakesKeepsTape == Types /\ TapeInv /\ Takes => TapeInv'
<1> SUFFICES ASSUME Types, TapeInv, Takes PROVE TapeInv'
  OBVIOUS
<1>1. /\ UNCHANGED <<torn, short, connected, pc, opened, fileSize, sent, written>>
      /\ confused => confused'
  BY DEF Takes, fileVars, localVars, replyVars, guiVars, history
<1>2. At' = At
  BY <1>1 DEF At
<1>3. TapeTypes' /\ Ends(Tape', Tape)
  BY TapeShrinks DEF TapeInv
<1>4. Types'
  BY PhoneKeepsTypes
<1>5. Tape \in Seq(Units) /\ Tape' \in Seq(Units)
  <2>1. Tape \in Seq(Units)
    BY OfTape DEF TapeInv
  <2>2. (Types /\ TapeTypes => Tape \in Seq(Units))'
    BY OfTape, PTL
  <2> QED BY <1>3, <1>4, <2>1, <2>2
<1>6. Taped'
  <2>1. ASSUME ~confused', connected', ~short' PROVE RunsOf(Tape', At')
    <3>1. RunsOf(Tape, At)
      BY <1>1, <2>1 DEF TapeInv, Taped
    <3> QED BY <1>2, <1>3, <1>5, <3>1, RunsOfEnd
  <2>2. ASSUME ~confused', connected', ~torn' PROVE ChainOf(Tape', At')
    <3>1. ChainOf(Tape, At)
      BY <1>1, <2>2 DEF TapeInv, Taped
    <3> QED BY <1>2, <1>3, <1>5, <3>1, ChainOfEnd
  <2> QED BY <2>1, <2>2 DEF Taped
<1>7. TakenInOrder'
  <2>1. CASE phone = "file"
    <3>1. ASSUME ~confused', ~(torn /\ short)
          PROVE  \A i \in DOMAIN taken' : taken'[i] = Byte(taken'[1][2], i)
      BY <2>1, <3>1, TakesInOrder
    <3> QED BY <1>1, <3>1 DEF TakenInOrder
  <2>2. CASE phone # "file"
    <3>1. taken' = taken \/ taken' = << >>
      BY <2>2 DEF Takes
    <3>2. DOMAIN << >> = {}
      OBVIOUS
    <3> QED BY <1>1, <3>1, <3>2 DEF TapeInv, TakenInOrder
  <2> QED BY <2>1, <2>2
<1> QED BY <1>3, <1>6, <1>7 DEF TapeInv

(* The phone has the first bytes of one version of the file, in order,     *)
(* however often the file is replaced or truncated under the push, of      *)
(* whatever length files, chunks and the send buffer are.                  *)
THEOREM InOrder == Spec => []TakenInOrder
<1>1. Init => TapeInv
  <2> SUFFICES ASSUME Init PROVE TapeInv
    OBVIOUS
  <2>1. taken = << >> /\ Tape = << >> \o << >> /\ At = Nowhere /\ phone = "line"
    BY DEF Init, Tape, Before, At
  <2>2. << >> \in Seq(Units) /\ Len(<< >>) = 0 /\ << >> \o << >> = << >> /\ DOMAIN << >> = {}
    BY EmptySeq, ConcatEmptySeq
  <2>3. 1 .. 0 = {} /\ 2 .. 0 = {}
    OBVIOUS
  <2>4. RunsOf(<< >>, Nowhere) /\ ChainOf(<< >>, Nowhere)
    BY <2>2, <2>3 DEF RunsOf, ChainOf, Continues
  <2> QED BY <2>1, <2>2, <2>4 DEF TapeInv, TapeTypes, Taped, TakenInOrder
<1>2. Types /\ TapeInv /\ [Next]_vars => TapeInv'
  BY OthersKeepTape, TakesKeepsTape, LooksKeepTape, ReadKeepsTape, SendKeepsTape, ReplyKeepsTape
     DEF Next, SessionStep
<1>3. TapeInv => TakenInOrder
  BY DEF TapeInv
<1> QED BY <1>1, <1>2, <1>3, TypesAlways, PTL DEF Spec
=============================================================================
