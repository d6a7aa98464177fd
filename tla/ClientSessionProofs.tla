------------------------ MODULE ClientSessionProofs ------------------------
(***************************************************************************)
(* Proofs about ClientSession: the ban records, type correctness, the      *)
(* descriptor a session owns, and the PINs a connection may guess.  Those  *)
(* about what is sent and received are in ClientSessionStreamProofs.       *)
(***************************************************************************)
EXTENDS ClientSession, SequenceTheorems, FiniteSetTheorems, TLAPS

(* What the ban bookkeeping keeps true of one address: its record b, the    *)
(* times h of its failures since the last success, and the time t.  While   *)
(* it is not banned, all but the failures that the record counts are at     *)
(* least AUTH_BAN_INITIAL_SECS old; while it is banned, all of them will be *)
(* when the ban ends.                                                       *)
GoodRecord(b, h, t) ==
  /\ b \in BanRecord
  /\ h \in Seq(Nat)
  /\ t \in Nat
  /\ b.blockedUntil = NoBan <=> b.banCount = 0
  /\ b.authFailures < AUTH_FAIL_THRESHOLD
  /\ b.authFailures <= Len(h)
  /\ b.blockedUntil <= t + AUTH_BAN_INITIAL_SECS
  /\ \A i \in 1 .. Len(h) : h[i] <= t
  /\ b.blockedUntil # NoBan =>
       /\ b.authFailures = 0
       /\ \A i \in 1 .. Len(h) : h[i] + AUTH_BAN_INITIAL_SECS <= b.blockedUntil
  /\ b.blockedUntil = NoBan =>
       \A i \in 1 .. Len(h) - b.authFailures : h[i] + AUTH_BAN_INITIAL_SECS <= t
  /\ \A i \in 1 .. Len(h) : i > AUTH_FAIL_THRESHOLD =>
       h[i] - h[i - AUTH_FAIL_THRESHOLD] >= AUTH_BAN_INITIAL_SECS

BanInv ==
  /\ ban \in [Ips -> BanRecord]
  /\ failTimes \in [Ips -> Seq(Nat)]
  /\ now \in Nat
  /\ \A ip \in Ips : GoodRecord(ban[ip], failTimes[ip], now)

(* A record is good at the start and after a success.                       *)
LEMMA CleanIsGood ==
  ASSUME NEW t \in Nat
  PROVE  GoodRecord(Clean, << >>, t)
  BY BanAssumption DEF GoodRecord, Clean, BanRecord, NoBan

(* isIpBlocked leaves a good record.                                        *)
LEMMA CheckIsGood ==
  ASSUME NEW b, NEW h, NEW t, GoodRecord(b, h, t)
  PROVE  GoodRecord(AfterCheck(b, t), h, t)
  BY BanAssumption, SMTT(30) DEF GoodRecord, AfterCheck, Clean, BanRecord, NoBan

(* Time may pass.                                                           *)
LEMMA TimePasses ==
  ASSUME NEW b, NEW h, NEW t, GoodRecord(b, h, t)
  PROVE  GoodRecord(b, h, t + 1)
<1>1. /\ b \in BanRecord /\ h \in Seq(Nat) /\ t \in Nat /\ Len(h) \in Nat
      /\ \A i \in 1 .. Len(h) : h[i] \in Nat
  BY DEF GoodRecord
<1>2. \A i \in 1 .. Len(h) : h[i] <= t + 1
  BY <1>1 DEF GoodRecord
<1>3. b.blockedUntil <= t + 1 + AUTH_BAN_INITIAL_SECS
  BY <1>1, BanAssumption DEF GoodRecord, BanRecord, NoBan
<1>4. b.blockedUntil = NoBan =>
        \A i \in 1 .. Len(h) - b.authFailures : h[i] + AUTH_BAN_INITIAL_SECS <= t + 1
  <2> SUFFICES ASSUME b.blockedUntil = NoBan, NEW i \in 1 .. Len(h) - b.authFailures
               PROVE  h[i] + AUTH_BAN_INITIAL_SECS <= t + 1
    OBVIOUS
  <2>1. h[i] + AUTH_BAN_INITIAL_SECS <= t
    BY DEF GoodRecord
  <2>2. i \in 1 .. Len(h)
    BY <1>1 DEF BanRecord
  <2> QED BY <2>1, <2>2, <1>1, BanAssumption
<1> QED BY <1>1, <1>2, <1>3, <1>4 DEF GoodRecord

(* A failure of an address that is not blocked: the failure it exceeds the  *)
(* threshold with is not among those the record counts.                     *)
LEMMA FailureIsGood ==
  ASSUME NEW b, NEW h, NEW t, GoodRecord(b, h, t), b.blockedUntil = NoBan
  PROVE  GoodRecord(RegisterAuthFailure(b, t), Append(h, t), t)
<1> DEFINE r == RegisterAuthFailure(b, t)
           g == Append(h, t)
<1>1. /\ b \in BanRecord /\ h \in Seq(Nat) /\ t \in Nat /\ Len(h) \in Nat
      /\ b.banCount = 0 /\ b.authFailures < AUTH_FAIL_THRESHOLD
      /\ b.authFailures <= Len(h)
      /\ \A i \in 1 .. Len(h) : h[i] <= t
  BY DEF GoodRecord
<1>2. /\ g \in Seq(Nat) /\ Len(g) = Len(h) + 1 /\ g[Len(h) + 1] = t
      /\ \A i \in 1 .. Len(h) : g[i] = h[i]
  BY <1>1
<1>3. /\ r \in BanRecord
      /\ \/ r.authFailures = 0 /\ r.blockedUntil = t + AUTH_BAN_INITIAL_SECS /\ r.banCount = 1
         \/ /\ r.authFailures = b.authFailures + 1 /\ r.blockedUntil = NoBan /\ r.banCount = 0
            /\ r.authFailures < AUTH_FAIL_THRESHOLD
  BY <1>1, BanAssumption, SMTT(30) DEF RegisterAuthFailure, BanRecord, BanSecs, NoBan
<1>4. ASSUME NEW i \in 1 .. Len(g), i > AUTH_FAIL_THRESHOLD
      PROVE  g[i] - g[i - AUTH_FAIL_THRESHOLD] >= AUTH_BAN_INITIAL_SECS
  <2>1. CASE i <= Len(h)
    BY <2>1, <1>1, <1>2, BanAssumption, <1>4 DEF GoodRecord
  <2>2. CASE i = Len(h) + 1
    <3>1. i - AUTH_FAIL_THRESHOLD \in 1 .. Len(h) - b.authFailures
      BY <2>2, <1>1, <1>4, BanAssumption DEF BanRecord
    <3>2. h[i - AUTH_FAIL_THRESHOLD] + AUTH_BAN_INITIAL_SECS <= t
      BY <3>1 DEF GoodRecord
    <3>3. h[i - AUTH_FAIL_THRESHOLD] \in Nat
      BY <3>1, <1>1 DEF BanRecord
    <3> QED BY <2>2, <3>1, <3>2, <3>3, <1>1, <1>2, BanAssumption, SMTT(30) DEF BanRecord
  <2>3. i <= Len(h) \/ i = Len(h) + 1
    BY <1>1, <1>2
  <2> QED BY <2>1, <2>2, <2>3
<1>5. \A i \in 1 .. Len(g) : g[i] <= t
  BY <1>1, <1>2
<1>6. r.blockedUntil # NoBan =>
        \A i \in 1 .. Len(g) : g[i] + AUTH_BAN_INITIAL_SECS <= r.blockedUntil
  BY <1>1, <1>2, <1>3, <1>5, BanAssumption
<1>7. r.blockedUntil = NoBan =>
        \A i \in 1 .. Len(g) - r.authFailures : g[i] + AUTH_BAN_INITIAL_SECS <= t
  <2> SUFFICES ASSUME r.blockedUntil = NoBan,
                      NEW i \in 1 .. Len(g) - r.authFailures
               PROVE  g[i] + AUTH_BAN_INITIAL_SECS <= t
    OBVIOUS
  <2>1. r.authFailures = b.authFailures + 1
    BY <1>1, <1>3, BanAssumption DEF NoBan
  <2>2. i \in 1 .. Len(h) - b.authFailures /\ i \in 1 .. Len(h)
    BY <2>1, <1>1, <1>2 DEF BanRecord
  <2> QED BY <2>2, <1>2 DEF GoodRecord
<1>8. /\ r.blockedUntil = NoBan <=> r.banCount = 0
      /\ r.authFailures < AUTH_FAIL_THRESHOLD
      /\ r.authFailures <= Len(g)
      /\ r.blockedUntil <= t + AUTH_BAN_INITIAL_SECS
      /\ r.blockedUntil # NoBan => r.authFailures = 0
  BY <1>1, <1>2, <1>3, BanAssumption DEF NoBan, BanRecord
<1> QED BY <1>1, <1>2, <1>3, <1>4, <1>5, <1>6, <1>7, <1>8 DEF GoodRecord

-----------------------------------------------------------------------------
(* The ban bookkeeping of the daemon. *)

banVars == <<ban, failTimes, now>>

LEMMA InitBan == Init => BanInv
<1> SUFFICES ASSUME Init PROVE BanInv
  OBVIOUS
<1>1. Clean \in BanRecord
  BY DEF Clean, BanRecord, NoBan
<1>2. /\ ban = [ip \in Ips |-> Clean] /\ failTimes = [ip \in Ips |-> << >>]
      /\ now \in Nat
  BY DEF Init
<1>3. ASSUME NEW ip \in Ips PROVE GoodRecord(ban[ip], failTimes[ip], now)
  BY <1>2, CleanIsGood
<1> QED BY <1>1, <1>2, <1>3 DEF BanInv

(* handleAuth changes the record of one address, to a good one.             *)
LEMMA RecordChanges ==
  ASSUME BanInv, now' = now, NEW ip \in Ips, NEW b, NEW h, GoodRecord(b, h, now),
         ban' = [ban EXCEPT ![ip] = b], failTimes' = [failTimes EXCEPT ![ip] = h]
  PROVE  BanInv'
<1>1. b \in BanRecord /\ h \in Seq(Nat)
  BY DEF GoodRecord
<1>2. /\ ban' \in [Ips -> BanRecord]
      /\ failTimes' \in [Ips -> Seq(Nat)]
      /\ now' \in Nat
  BY <1>1 DEF BanInv
<1>3. ASSUME NEW a \in Ips PROVE GoodRecord(ban'[a], failTimes'[a], now')
  <2>1. CASE a = ip
    <3>1. ban'[a] = b /\ failTimes'[a] = h
      BY <2>1 DEF BanInv
    <3> QED BY <3>1
  <2>2. CASE a # ip
    <3>1. ban'[a] = ban[a] /\ failTimes'[a] = failTimes[a]
      BY <2>2 DEF BanInv
    <3> QED BY <3>1 DEF BanInv
  <2> QED BY <2>1, <2>2
<1> QED BY <1>2, <1>3 DEF BanInv

LEMMA AuthKeepsBan ==
  ASSUME BanInv, NEW s \in Sessions, NEW m, HandleAuth(s, m)
  PROVE  BanInv'
<1> DEFINE ip == IpOf[s]
           checked == AfterCheck(ban[ip], now)
<1>1. ip \in Ips /\ now' = now /\ now \in Nat
  BY ScriptAssumption DEF HandleAuth, BanInv
<1>2. GoodRecord(checked, failTimes[ip], now)
  BY <1>1, CheckIsGood DEF BanInv
<1>3. CASE UNCHANGED <<ban, failTimes>>
  BY <1>1, <1>3 DEF BanInv
<1>4. CASE /\ ban' = [ban EXCEPT ![ip] = RegisterAuthSuccess(checked)]
           /\ failTimes' = [failTimes EXCEPT ![ip] = << >>]
  <2>1. GoodRecord(RegisterAuthSuccess(checked), << >>, now)
    BY <1>1, CleanIsGood DEF RegisterAuthSuccess
  <2> QED BY <1>1, <1>4, <2>1, RecordChanges
<1>5. CASE /\ ~IsIpBlocked(ban[ip], now)
           /\ ban' = [ban EXCEPT ![ip] = RegisterAuthFailure(checked, now)]
           /\ failTimes' = [failTimes EXCEPT ![ip] = Append(@, now)]
  <2>1. checked.blockedUntil = NoBan
    BY <1>5 DEF IsIpBlocked
  <2>2. GoodRecord(RegisterAuthFailure(checked, now), Append(failTimes[ip], now), now)
    BY <2>1, <1>2, FailureIsGood
  <2>3. failTimes' = [failTimes EXCEPT ![ip] = Append(failTimes[ip], now)]
    BY <1>5
  <2> QED BY <1>1, <1>5, <2>2, <2>3, RecordChanges
<1> QED BY <1>3, <1>4, <1>5 DEF HandleAuth

(* Every other step of a session leaves the bookkeeping alone.              *)
LEMMA ServerKeepsBan ==
  ASSUME BanInv, NEW s \in Sessions, ServerStep(s)
  PROVE  BanInv'
<1>1. CASE ProcessLine(s)
  <2>1. CASE stage[s] = "AUTH"
    <3>1. PICK m : HandleAuth(s, m)
      BY <1>1, <2>1 DEF ProcessLine
    <3> QED BY <3>1, AuthKeepsBan
  <2>2. CASE stage[s] # "AUTH"
    <3>1. PICK m : HandleHeader(s, m)
      BY <1>1, <2>2 DEF ProcessLine
    <3>2. UNCHANGED banVars
      BY <3>1 DEF HandleHeader, HandleCommand, HandlePush, HandleFileStart, HandleUnknown,
                  Terminates, sharedVars, banVars
    <3> QED BY <3>2 DEF BanInv, banVars
  <2> QED BY <2>1, <2>2
<1>2. CASE ~ProcessLine(s)
  <2>1. UNCHANGED banVars
    BY <1>2 DEF ServerStep, AcceptConnection, OnData, WouldBlock, RemoveClient,
                ProcessBufferReturns, WriteFails, HandleFileData, sharedVars, banVars
  <2> QED BY <2>1 DEF BanInv, banVars
<1> QED BY <1>1, <1>2

LEMMA NextKeepsBan == BanInv /\ [Next]_vars => BanInv'
<1> SUFFICES ASSUME BanInv, [Next]_vars PROVE BanInv'
  OBVIOUS
<1>1. ASSUME NEW s \in Sessions, ServerStep(s) PROVE BanInv'
  BY <1>1, ServerKeepsBan
<1>2. ASSUME NEW s \in Sessions, ClientSend(s) \/ ClientLeaves(s) PROVE BanInv'
  BY <1>2 DEF ClientSend, ClientLeaves, sharedVars, BanInv
<1>3. CASE RotatePin
  BY <1>3 DEF RotatePin, BanInv
<1>4. CASE Tick
  <2>1. now' = now + 1 /\ UNCHANGED <<ban, failTimes>>
    BY <1>4 DEF Tick
  <2>2. \A ip \in Ips : GoodRecord(ban[ip], failTimes[ip], now + 1)
    BY TimePasses DEF BanInv
  <2>3. now + 1 \in Nat
    BY DEF BanInv
  <2> QED BY <2>1, <2>2, <2>3 DEF BanInv
<1>5. CASE UNCHANGED vars
  BY <1>5 DEF vars, sharedVars, BanInv
<1> QED BY <1>1, <1>2, <1>3, <1>4, <1>5 DEF Next

THEOREM BanInvariant == Spec => []BanInv
  BY InitBan, NextKeepsBan, PTL DEF Spec

(* Whatever the number of addresses and sessions and however long the       *)
(* guessing goes on, handleAuth and the ban records keep every              *)
(* AUTH_FAIL_THRESHOLD + 1 wrong PINs of an address a ban apart.            *)
THEOREM RateLimitHolds == Spec => []RateLimited
<1>1. BanInv => RateLimited
  <2> SUFFICES ASSUME BanInv, NEW ip \in Ips, NEW i \in DOMAIN failTimes[ip],
                      i > AUTH_FAIL_THRESHOLD
               PROVE  failTimes[ip][i] - failTimes[ip][i - AUTH_FAIL_THRESHOLD]
                        >= AUTH_BAN_INITIAL_SECS
    BY DEF RateLimited
  <2>1. i \in 1 .. Len(failTimes[ip])
    BY DEF BanInv
  <2>2. GoodRecord(ban[ip], failTimes[ip], now)
    BY DEF BanInv
  <2> QED BY <2>1, <2>2 DEF GoodRecord
<1> QED BY <1>1, BanInvariant, PTL

-----------------------------------------------------------------------------
(* Any cut of a sequence is a sequence of the same elements.                *)
LEMMA CutIsSeq ==
  ASSUME NEW S, NEW q \in Seq(S), NEW k \in Nat \ {0}, NEW n \in Nat, n <= Len(q)
  PROVE  /\ SubSeq(q, k, n) \in Seq(S)
         /\ Len(SubSeq(q, k, n)) = IF k <= n THEN n - k + 1 ELSE 0
<1>1. \A i \in k .. n : q[i] \in S
  OBVIOUS
<1> QED BY <1>1, SubSeqProperties

(* write() leaves a file of characters and holes.                           *)
LEMMA WrittenIsSeq ==
  ASSUME NEW content \in Seq(Chars), NEW offset \in Nat, NEW chars \in Seq(Chars)
  PROVE  WriteAt(content, offset, chars) \in Seq(Chars)
<1> DEFINE end == offset + Len(chars)
           size == IF Len(content) > end THEN Len(content) ELSE end
<1>1. size \in Nat
  OBVIOUS
<1>2. ASSUME NEW i \in 1 .. size
      PROVE  (IF i > offset /\ i <= end THEN chars[i - offset]
              ELSE IF i <= Len(content) THEN content[i] ELSE Hole) \in Chars
  <2>1. i > offset /\ i <= end => i - offset \in 1 .. Len(chars)
    OBVIOUS
  <2>2. i <= Len(content) => i \in 1 .. Len(content)
    OBVIOUS
  <2>3. Hole \in Chars
    BY DEF Chars
  <2> QED BY <2>1, <2>2, <2>3
<1>3. WriteAt(content, offset, chars) \in [1 .. size -> Chars]
  BY <1>2 DEF WriteAt
<1> QED BY <1>1, <1>3, SMTT(30)

(* The window of PINs keeps its bound and never becomes empty.              *)
LEMMA WindowIsBounded ==
  ASSUME NEW w \in Seq(Pins), Len(w) <= MAX_RECENT_PINS, NEW p \in Pins
  PROVE  Remember(w, p) \in Seq(Pins) /\ Len(Remember(w, p)) \in 1 .. MAX_RECENT_PINS
<1> DEFINE longer == Append(w, p)
<1>1. longer \in Seq(Pins) /\ Len(longer) = Len(w) + 1
  OBVIOUS
<1>2. longer # << >>
  BY <1>1
<1>3. Tail(longer) \in Seq(Pins) /\ Len(Tail(longer)) = Len(w)
  BY <1>1, <1>2, HeadTailProperties
<1> QED BY <1>1, <1>3, PinWindowAssumption DEF Remember

-----------------------------------------------------------------------------
(* TypeOK is not inductive by itself: a session in DATA has the request its *)
(* bytes belong to.                                                         *)
TypeInv ==
  /\ TypeOK
  /\ \A s \in Sessions : stage[s] = "DATA" => fileReq[s] \in Msgs

(* The conjuncts of TypeInv by the groups of variables that change together. *)
SharedOK ==
  /\ recentPins \in Seq(Pins) /\ Len(recentPins) \in 1 .. MAX_RECENT_PINS
  /\ pinIssuedAt \in Nat /\ now \in Nat
  /\ ban \in [Ips -> BanRecord] /\ failTimes \in [Ips -> Seq(Nat)]

AuthOK ==
  /\ stage \in [Sessions -> {"AUTH", "HEADER", "DATA"}]
  /\ closed \in [Sessions -> BOOLEAN]
  /\ authAttempts \in [Sessions -> Nat]

BufferOK ==
  /\ buffer \in [Sessions -> Seq(Chars)]
  /\ bufferOffset \in [Sessions -> Nat]
  /\ \A s \in Sessions : bufferOffset[s] <= Len(buffer[s])

FileOK ==
  /\ fileOpen \in [Sessions -> BOOLEAN]
  /\ fileReq \in [Sessions -> Msgs \union {NoMsg}]
  /\ received \in [Sessions -> Nat]
  /\ disk \in [Names -> Seq(Chars)]
  /\ transfer \in [active : BOOLEAN, isSending : BOOLEAN, fileName : Names \union {NoName}]

ClientOK ==
  /\ wire \in [Sessions -> Seq(Chars)]
  /\ sent \in [Sessions -> Nat]
  /\ peer \in [Sessions -> {"up", "fin", "reset"}]

LoopOK ==
  serving \in Sessions \union {NoSession} /\ parsing \in BOOLEAN /\ alive \in BOOLEAN

ConnOK == conn \in [Sessions -> {"none", "open", "gone"}]

ReplyOK == replies \in [Sessions -> Seq([to : Msgs \union {NoMsg}, is : ReplyKinds])]

RequestOK == \A s \in Sessions : stage[s] = "DATA" => fileReq[s] \in Msgs

(* Regrouping, before a step and after it. *)
LEMMA Groups ==
  TypeInv => /\ SharedOK /\ AuthOK /\ BufferOK /\ FileOK /\ ClientOK /\ LoopOK
             /\ ConnOK /\ ReplyOK /\ RequestOK
  BY DEF TypeInv, TypeOK, SharedOK, AuthOK, BufferOK, FileOK, ClientOK, LoopOK, ConnOK,
         ReplyOK, RequestOK

LEMMA GroupsAfter ==
  ASSUME SharedOK', AuthOK', BufferOK', FileOK', ClientOK', LoopOK', ConnOK', ReplyOK',
         RequestOK'
  PROVE  TypeInv'
  BY DEF TypeInv, TypeOK, SharedOK, AuthOK, BufferOK, FileOK, ClientOK, LoopOK, ConnOK,
         ReplyOK, RequestOK

(* What a step does not touch keeps its type.                               *)
LEMMA Frame ==
  ASSUME TypeInv
  PROVE  /\ UNCHANGED sharedVars => SharedOK'
         /\ UNCHANGED authVars => AuthOK'
         /\ UNCHANGED bufferVars => BufferOK'
         /\ UNCHANGED fileVars => FileOK'
         /\ UNCHANGED clientVars => ClientOK'
         /\ UNCHANGED loopVars => LoopOK'
         /\ UNCHANGED conn => ConnOK'
         /\ UNCHANGED replies => ReplyOK'
         /\ UNCHANGED <<stage, fileReq>> => RequestOK'
<1>1. SharedOK /\ UNCHANGED sharedVars => SharedOK'
  BY DEF SharedOK, sharedVars
<1>2. AuthOK /\ UNCHANGED authVars => AuthOK'
  BY DEF AuthOK, authVars
<1>3. BufferOK /\ UNCHANGED bufferVars => BufferOK'
  BY DEF BufferOK, bufferVars
<1>4. FileOK /\ UNCHANGED fileVars => FileOK'
  BY DEF FileOK, fileVars
<1>5. ClientOK /\ UNCHANGED clientVars => ClientOK'
  BY DEF ClientOK, clientVars
<1>6. LoopOK /\ UNCHANGED loopVars => LoopOK'
  BY DEF LoopOK, loopVars
<1>7. /\ ConnOK /\ UNCHANGED conn => ConnOK'
      /\ ReplyOK /\ UNCHANGED replies => ReplyOK'
      /\ RequestOK /\ UNCHANGED <<stage, fileReq>> => RequestOK'
  BY DEF ConnOK, ReplyOK, RequestOK
<1> QED BY <1>1, <1>2, <1>3, <1>4, <1>5, <1>6, <1>7, Groups

LEMMA InitTypes == Init => TypeInv
<1> SUFFICES ASSUME Init PROVE TypeInv
  OBVIOUS
<1>1. Clean \in BanRecord
  BY DEF Clean, BanRecord, NoBan
<1>2. recentPins \in Seq(Pins) /\ Len(recentPins) \in 1 .. MAX_RECENT_PINS
  <2>1. PICK p \in Pins : recentPins = Remember(<< >>, p)
    BY DEF Init
  <2>2. << >> \in Seq(Pins) /\ Len(<< >>) = 0
    OBVIOUS
  <2>3. Len(<< >>) <= MAX_RECENT_PINS
    BY <2>2, PinWindowAssumption
  <2>4. /\ Remember(<< >>, p) \in Seq(Pins)
        /\ Len(Remember(<< >>, p)) \in 1 .. MAX_RECENT_PINS
    BY <2>2, <2>3, WindowIsBounded
  <2> QED BY <2>1, <2>4
<1>3. /\ ban \in [Ips -> BanRecord] /\ failTimes \in [Ips -> Seq(Nat)]
      /\ pinIssuedAt \in Nat /\ now \in Nat
  BY <1>1 DEF Init
<1>4. /\ conn \in [Sessions -> {"none", "open", "gone"}]
      /\ stage \in [Sessions -> {"AUTH", "HEADER", "DATA"}]
      /\ closed \in [Sessions -> BOOLEAN]
      /\ authAttempts \in [Sessions -> Nat]
      /\ fileOpen \in [Sessions -> BOOLEAN]
      /\ fileReq \in [Sessions -> Msgs \union {NoMsg}]
      /\ received \in [Sessions -> Nat]
      /\ sent \in [Sessions -> Nat]
      /\ peer \in [Sessions -> {"up", "fin", "reset"}]
  BY DEF Init
<1>5. /\ buffer \in [Sessions -> Seq(Chars)] /\ bufferOffset \in [Sessions -> Nat]
      /\ \A s \in Sessions : bufferOffset[s] <= Len(buffer[s])
  BY DEF Init
<1>6. /\ wire \in [Sessions -> Seq(Chars)]
      /\ disk \in [Names -> Seq(Chars)]
      /\ replies \in [Sessions -> Seq([to : Msgs \union {NoMsg}, is : ReplyKinds])]
  BY DEF Init
<1>7. /\ transfer \in [active : BOOLEAN, isSending : BOOLEAN, fileName : Names \union {NoName}]
      /\ serving \in Sessions \union {NoSession} /\ parsing \in BOOLEAN /\ alive \in BOOLEAN
  BY DEF Init, Idle
<1>8. \A s \in Sessions : stage[s] # "DATA"
  BY DEF Init
<1> QED BY <1>2, <1>3, <1>4, <1>5, <1>6, <1>7, <1>8 DEF TypeInv, TypeOK

(* The characters of a message. *)
LEMMA CharsOfIsSeq == \A m \in Msgs : CharsOf(m) \in Seq(Chars) /\ Len(CharsOf(m)) = Length[m]
<1> SUFFICES ASSUME NEW m \in Msgs
             PROVE  CharsOf(m) \in Seq(Chars) /\ Len(CharsOf(m)) = Length[m]
  OBVIOUS
<1>1. Length[m] \in Nat
  BY ScriptAssumption
<1>2. CharsOf(m) \in [1 .. Length[m] -> Chars]
  BY <1>1 DEF CharsOf, Chars
<1> QED BY <1>1, <1>2

LEMMA LiveIsSeq ==
  ASSUME TypeInv, NEW s \in Sessions
  PROVE  /\ Live(s) \in Seq(Chars)
         /\ Len(Live(s)) = Len(buffer[s]) - bufferOffset[s]
<1>1. /\ buffer[s] \in Seq(Chars) /\ bufferOffset[s] \in Nat
      /\ bufferOffset[s] <= Len(buffer[s])
  BY DEF TypeInv, TypeOK
<1>2. bufferOffset[s] + 1 \in Nat \ {0} /\ Len(buffer[s]) \in Nat
  BY <1>1
<1> QED BY <1>1, <1>2, CutIsSeq DEF Live

(* consumeBuffer keeps the read head inside the buffer.                     *)
LEMMA ConsumeKeepsBuffer ==
  ASSUME TypeInv, NEW s \in Sessions, NEW n \in 1 .. Len(Live(s)), ConsumeBuffer(s, n)
  PROVE  BufferOK'
<1> DEFINE head == bufferOffset[s] + n
<1>1. /\ buffer \in [Sessions -> Seq(Chars)] /\ bufferOffset \in [Sessions -> Nat]
      /\ \A t \in Sessions : bufferOffset[t] <= Len(buffer[t])
  BY DEF TypeInv, TypeOK
<1>2. head \in Nat /\ head <= Len(buffer[s]) /\ Len(buffer[s]) \in Nat
  BY <1>1, LiveIsSeq
<1>3. SubSeq(buffer[s], head + 1, Len(buffer[s])) \in Seq(Chars)
  BY <1>1, <1>2, CutIsSeq
<1>4. CASE head > COMPACT_AT
  <2>1. /\ buffer' = [buffer EXCEPT ![s] = SubSeq(@, head + 1, Len(@))]
        /\ bufferOffset' = [bufferOffset EXCEPT ![s] = 0]
    BY <1>4 DEF ConsumeBuffer
  <2> QED BY <2>1, <1>1, <1>3, SMTT(30) DEF BufferOK
<1>5. CASE ~(head > COMPACT_AT)
  <2>1. /\ buffer' = buffer
        /\ bufferOffset' = [bufferOffset EXCEPT ![s] = head]
    BY <1>5 DEF ConsumeBuffer
  <2> QED BY <2>1, <1>1, <1>2 DEF BufferOK
<1> QED BY <1>4, <1>5

(* sendResponse. *)
LEMMA ResponseKeepsReplies ==
  ASSUME TypeInv, NEW s \in Sessions, NEW m \in Msgs \union {NoMsg},
         NEW r \in ReplyKinds, SendResponse(s, m, r)
  PROVE  ReplyOK'
<1> DEFINE Kinded == [to : Msgs \union {NoMsg}, is : ReplyKinds]
<1>1. [to |-> m, is |-> r] \in Kinded
  OBVIOUS
<1>2. replies \in [Sessions -> Seq(Kinded)]
  BY Groups DEF ReplyOK
<1> HIDE DEF Kinded
<1>3. Append(replies[s], [to |-> m, is |-> r]) \in Seq(Kinded)
  BY <1>1, <1>2
<1>4. replies' \in [Sessions -> Seq(Kinded)]
  BY <1>2, <1>3 DEF SendResponse
<1> QED BY <1>4 DEF ReplyOK, Kinded

(* handleAuth.  That a ban's length is a number rests on banCount being 0   *)
(* whenever a ban begins, so the type of the records comes from BanInv.     *)
LEMMA AuthKeepsTypes ==
  ASSUME TypeInv, BanInv', NEW s \in Sessions, NEW m \in Msgs \union {NoMsg},
         HandleAuth(s, m), BufferOK'
  PROVE  TypeInv'
<1>1. SharedOK'
  <2>1. /\ SharedOK /\ UNCHANGED <<recentPins, pinIssuedAt>>
        /\ ban' \in [Ips -> BanRecord] /\ failTimes' \in [Ips -> Seq(Nat)] /\ now' \in Nat
    BY Groups DEF HandleAuth, BanInv
  <2> QED BY <2>1 DEF SharedOK
<1>2. ReplyOK'
  BY ResponseKeepsReplies DEF HandleAuth, ReplyKinds
<1>3. stage' \in [Sessions -> {"AUTH", "HEADER", "DATA"}] /\ RequestOK'
  <2>1. UNCHANGED stage \/ stage' = [stage EXCEPT ![s] = "HEADER"]
    BY DEF HandleAuth
  <2>2. AuthOK /\ RequestOK /\ fileReq' = fileReq
    BY Groups DEF HandleAuth, fileVars
  <2> QED BY <2>1, <2>2 DEF AuthOK, RequestOK
<1>4. authAttempts' \in [Sessions -> Nat]
  <2>1. UNCHANGED authAttempts \/ authAttempts' = [authAttempts EXCEPT ![s] = @ + 1]
    BY DEF HandleAuth
  <2> QED BY <2>1, Groups DEF AuthOK
<1>5. closed' \in [Sessions -> BOOLEAN]
  <2>1. PICK c \in BOOLEAN : closed' = closed \/ closed' = [closed EXCEPT ![s] = c]
    <3>1. \/ closed' = closed
          \/ closed' = [closed EXCEPT ![s] = TRUE]
          \/ closed' = [closed EXCEPT ![s] =
                           authAttempts[s] + 1 >= AUTH_ATTEMPTS_PER_CONNECTION]
      BY DEF HandleAuth
    <3>2. (authAttempts[s] + 1 >= AUTH_ATTEMPTS_PER_CONNECTION) \in BOOLEAN
      OBVIOUS
    <3> QED BY <3>1, <3>2, Zenon
  <2> QED BY <2>1, Groups DEF AuthOK
<1>6. UNCHANGED <<fileVars, clientVars, loopVars, conn>>
  BY DEF HandleAuth
<1>7. FileOK' /\ ClientOK' /\ LoopOK' /\ ConnOK' /\ AuthOK'
  BY <1>3, <1>4, <1>5, <1>6, Frame DEF AuthOK
<1> QED BY <1>1, <1>2, <1>3, <1>7, GroupsAfter

(* std::terminate. *)
LEMMA TerminationKeepsTypes ==
  ASSUME TypeInv, Terminates, UNCHANGED authVars, BufferOK'
  PROVE  TypeInv'
<1>1. UNCHANGED <<replies, conn, clientVars, sharedVars, fileVars, stage, fileReq>>
  BY DEF Terminates, authVars, fileVars
<1>2. LoopOK'
  BY Groups DEF Terminates, LoopOK
<1> QED BY <1>1, <1>2, Frame, GroupsAfter

(* A line that is only answered, or not even that.                          *)
LEMMA AnswerKeepsTypes ==
  ASSUME TypeInv, BufferOK', ReplyOK',
         UNCHANGED <<conn, clientVars, sharedVars, authVars, fileVars, loopVars>>
  PROVE  TypeInv'
<1>1. UNCHANGED <<stage, fileReq>>
  BY DEF authVars, fileVars
<1> QED BY <1>1, Frame, GroupsAfter

(* handleHeader. *)
LEMMA CommandKeepsTypes ==
  ASSUME TypeInv, NEW s \in Sessions, NEW m \in Msgs \union {NoMsg}, BufferOK',
         HandleCommand(s, m)
  PROVE  TypeInv'
<1>1. CASE SendResponse(s, m, "CMD_REPLY") /\ ~Terminates
  BY <1>1, ResponseKeepsReplies, AnswerKeepsTypes DEF HandleCommand, ReplyKinds
<1>2. CASE UNCHANGED replies /\ ~Terminates
  BY <1>2, Frame, AnswerKeepsTypes DEF HandleCommand
<1>3. CASE Terminates
  <2>1. UNCHANGED authVars
    BY <1>3 DEF Terminates
  <2> QED BY <1>3, <2>1, TerminationKeepsTypes
<1> QED BY <1>1, <1>2, <1>3 DEF HandleCommand

LEMMA PushKeepsTypes ==
  ASSUME TypeInv, NEW s \in Sessions, NEW m \in Msgs \union {NoMsg}, BufferOK',
         HandlePush(s, m)
  PROVE  TypeInv'
<1>1. CASE Terminates
  <2>1. UNCHANGED authVars
    BY <1>1 DEF Terminates
  <2> QED BY <1>1, <2>1, TerminationKeepsTypes
<1>2. CASE HeaderKind(m) = "list" /\ ~Terminates
  BY <1>2, ResponseKeepsReplies, AnswerKeepsTypes DEF HandlePush, ReplyKinds
<1>3. CASE HeaderKind(m) = "push" /\ ~Terminates
  <2>1. PICK outcome \in PushOutcomes \ {"throw"} :
          /\ SendResponse(s, m, outcome)
          /\ transfer' = IF outcome = "PUSH_ERROR" THEN transfer
                         ELSE [Idle EXCEPT !.isSending = TRUE]
    BY <1>3 DEF HandlePush
  <2>2. ReplyOK'
    BY <2>1, ResponseKeepsReplies, FaultAssumption DEF ReplyKinds
  <2>3. UNCHANGED <<fileOpen, fileReq, received, disk, conn, clientVars, sharedVars,
                    authVars, loopVars>>
    BY <1>3 DEF HandlePush
  <2>4. FileOK'
    BY <2>1, <2>3, Groups DEF FileOK, Idle
  <2>5. UNCHANGED <<stage, fileReq>>
    BY <2>3 DEF authVars
  <2> QED BY <2>2, <2>3, <2>4, <2>5, Frame, GroupsAfter
<1> QED BY <1>1, <1>2, <1>3 DEF HandlePush

LEMMA FileStartKeepsTypes ==
  ASSUME TypeInv, NEW s \in Sessions, NEW m \in Msgs \union {NoMsg}, BufferOK',
         HandleFileStart(s, m)
  PROVE  TypeInv'
<1>1. CASE Terminates
  <2>1. UNCHANGED authVars
    BY <1>1 DEF Terminates
  <2> QED BY <1>1, <2>1, TerminationKeepsTypes
<1>2. CASE SendResponse(s, m, "CMD_FAIL") /\ UNCHANGED <<authVars, fileVars>> /\ ~Terminates
  BY <1>2, ResponseKeepsReplies, AnswerKeepsTypes DEF HandleFileStart, ReplyKinds
<1>3. CASE /\ fileOpen' = [fileOpen EXCEPT ![s] = TRUE]
           /\ fileReq' = [fileReq EXCEPT ![s] = m]
           /\ received' = [received EXCEPT ![s] = 0]
           /\ disk' = [disk EXCEPT ![Name[m]] = << >>]
           /\ stage' = [stage EXCEPT ![s] = "DATA"]
           /\ SendResponse(s, m, "READY_FOR_FILE")
           /\ UNCHANGED <<closed, authAttempts, transfer, conn, clientVars, sharedVars,
                          loopVars>>
  <2>1. m \in Msgs /\ Name[m] \in Names
    BY ScriptAssumption DEF HandleFileStart, HeaderKind
  <2>2. ReplyOK'
    BY <1>3, ResponseKeepsReplies DEF ReplyKinds
  <2>3. << >> \in Seq(Chars)
    OBVIOUS
  <2>4. FileOK'
    BY <1>3, <2>1, <2>3, Groups DEF FileOK
  <2>5. AuthOK' /\ RequestOK'
    BY <1>3, <2>1, Groups DEF FileOK, AuthOK, RequestOK
  <2> QED BY <1>3, <2>2, <2>4, <2>5, Frame, GroupsAfter
<1> QED BY <1>1, <1>2, <1>3 DEF HandleFileStart

LEMMA HeaderKeepsTypes ==
  ASSUME TypeInv, NEW s \in Sessions, NEW m \in Msgs \union {NoMsg}, BufferOK',
         HandleHeader(s, m)
  PROVE  TypeInv'
<1>1. CASE HandleUnknown(s, m)
  BY <1>1, ResponseKeepsReplies, AnswerKeepsTypes DEF HandleUnknown, ReplyKinds
<1> QED BY <1>1, CommandKeepsTypes, PushKeepsTypes, FileStartKeepsTypes DEF HandleHeader

LEMMA LineKeepsTypes ==
  ASSUME TypeInv, BanInv', NEW s \in Sessions, ProcessLine(s)
  PROVE  TypeInv'
<1>1. PICK n \in DOMAIN Live(s) :
        /\ ConsumeBuffer(s, n)
        /\ LET m == MessageOf(SubSeq(Live(s), 1, n))
           IN  HandleAuth(s, m) \/ HandleHeader(s, m)
  BY DEF ProcessLine
<1>2. n \in 1 .. Len(Live(s))
  BY LiveIsSeq
<1>3. BufferOK'
  BY <1>1, <1>2, ConsumeKeepsBuffer
<1>4. MessageOf(SubSeq(Live(s), 1, n)) \in Msgs \union {NoMsg}
  BY DEF MessageOf
<1> QED BY <1>1, <1>3, <1>4, AuthKeepsTypes, HeaderKeepsTypes

-----------------------------------------------------------------------------
(* The event loop.                                                          *)
LEMMA ReadKeepsTypes ==
  ASSUME TypeInv, NEW s \in Sessions, OnData(s)
  PROVE  TypeInv'
<1>1. PICK n \in 1 .. Len(wire[s]) :
        /\ wire' = [wire EXCEPT ![s] = SubSeq(@, n + 1, Len(@))]
        /\ buffer' = [buffer EXCEPT ![s] = @ \o SubSeq(wire[s], 1, n)]
  BY DEF OnData
<1>2. wire[s] \in Seq(Chars) /\ Len(wire[s]) \in Nat /\ buffer[s] \in Seq(Chars)
  BY Groups DEF ClientOK, BufferOK
<1>3. /\ SubSeq(wire[s], n + 1, Len(wire[s])) \in Seq(Chars)
      /\ SubSeq(wire[s], 1, n) \in Seq(Chars)
  BY <1>2, CutIsSeq
<1>4. /\ buffer[s] \o SubSeq(wire[s], 1, n) \in Seq(Chars)
      /\ Len(buffer[s]) <= Len(buffer[s] \o SubSeq(wire[s], 1, n))
  BY <1>2, <1>3
<1>5. BufferOK' /\ ClientOK'
  BY <1>1, <1>3, <1>4, Groups, SMTT(30) DEF OnData, BufferOK, ClientOK
<1>6. AuthOK' /\ LoopOK'
  BY Groups DEF OnData, AuthOK, LoopOK
<1>7. UNCHANGED <<conn, sharedVars, fileVars, replies, stage, fileReq>>
  BY DEF OnData, fileVars
<1> QED BY <1>5, <1>6, <1>7, Frame, GroupsAfter

LEMMA LoopKeepsTypes ==
  ASSUME TypeInv, NEW s \in Sessions,
         AcceptConnection(s) \/ WouldBlock(s) \/ RemoveClient(s) \/ ProcessBufferReturns(s)
  PROVE  TypeInv'
<1>1. ConnOK'
  BY Groups DEF AcceptConnection, WouldBlock, RemoveClient, ProcessBufferReturns, ConnOK
<1>2. LoopOK'
  BY Groups DEF AcceptConnection, WouldBlock, RemoveClient, ProcessBufferReturns, LoopOK,
                loopVars
<1>3. FileOK'
  BY Groups DEF AcceptConnection, WouldBlock, RemoveClient, ProcessBufferReturns, FileOK,
                fileVars, CloseFile
<1>4. UNCHANGED <<clientVars, sharedVars, authVars, bufferVars, fileReq, stage, replies>>
  BY DEF AcceptConnection, WouldBlock, RemoveClient, ProcessBufferReturns, fileVars, authVars
<1> QED BY <1>1, <1>2, <1>3, <1>4, Frame, GroupsAfter

LEMMA ClientKeepsTypes ==
  ASSUME TypeInv, NEW s \in Sessions, ClientSend(s) \/ ClientLeaves(s)
  PROVE  TypeInv'
<1>1. ClientOK'
  <2>1. CASE ClientSend(s)
    <3> DEFINE m == Script[s][sent[s] + 1]
    <3>1. sent[s] \in Nat /\ wire[s] \in Seq(Chars)
      BY Groups DEF ClientOK
    <3>2. m \in Msgs
      BY <2>1, <3>1, ScriptAssumption, SMTT(30) DEF ClientSend
    <3>3. wire[s] \o CharsOf(m) \in Seq(Chars)
      BY <3>1, <3>2, CharsOfIsSeq
    <3>4. wire' = wire \/ wire' = [wire EXCEPT ![s] = wire[s] \o CharsOf(m)]
      BY <2>1 DEF ClientSend
    <3>5. wire' \in [Sessions -> Seq(Chars)]
      BY <3>3, <3>4, Groups DEF ClientOK
    <3>6. sent' = [sent EXCEPT ![s] = @ + 1] /\ peer' = peer
      BY <2>1 DEF ClientSend
    <3> QED BY <3>5, <3>6, Groups DEF ClientOK
  <2>2. CASE ClientLeaves(s)
    BY <2>2, Groups, FaultAssumption DEF ClientLeaves, ClientOK
  <2> QED BY <2>1, <2>2
<1>2. UNCHANGED <<conn, sharedVars, authVars, bufferVars, fileVars, loopVars, replies, stage,
                  fileReq>>
  BY DEF ClientSend, ClientLeaves, authVars, fileVars
<1> QED BY <1>1, <1>2, Frame, GroupsAfter

-----------------------------------------------------------------------------
(* handleFileData. *)

(* write() failed. *)
LEMMA FailureKeepsTypes ==
  ASSUME TypeInv, NEW s \in Sessions, WriteFails(s)
  PROVE  TypeInv'
<1>1. ReplyOK'
  <2>1. SendResponse(s, fileReq[s], "CMD_FAIL") /\ fileReq[s] \in Msgs \union {NoMsg}
    BY Groups DEF WriteFails, FileOK
  <2> QED BY <2>1, ResponseKeepsReplies DEF ReplyKinds
<1>2. BufferOK'
  BY Groups DEF WriteFails, ClearBuffer, BufferOK
<1>3. FileOK' /\ LoopOK'
  BY Groups DEF WriteFails, CloseFile, FileOK, LoopOK
<1>4. AuthOK' /\ RequestOK'
  BY Groups DEF WriteFails, AuthOK, RequestOK
<1>5. UNCHANGED <<conn, clientVars, sharedVars>>
  BY DEF WriteFails
<1> QED BY <1>1, <1>2, <1>3, <1>4, <1>5, Frame, GroupsAfter

(* The sentinel that is skipped is in the buffer. *)
LEMMA SentinelIsPrefix ==
  ASSUME NEW chars \in Seq(Chars)
  PROVE  SentinelLength(chars) \in 0 .. Len(chars)
<1>1. CASE \E m \in Msgs : /\ Kind[m] = "sentinel" /\ Len(chars) >= Length[m]
                           /\ SubSeq(chars, 1, Length[m]) = CharsOf(m)
  <2>1. PICK m \in Msgs : /\ Len(chars) >= Length[m]
                          /\ SubSeq(chars, 1, Length[m]) = CharsOf(m)
    BY <1>1
  <2>2. Length[m] \in Nat \ {0}
    BY ScriptAssumption
  <2>3. \A i \in 1 .. Length[m] : chars[i] \in Chars
    BY <2>1, <2>2
  <2>4. SubSeq(chars, 1, Length[m])[1] = chars[1]
    BY <2>1, <2>2
  <2>5. chars[1] = CharsOf(m)[1]
    BY <2>1, <2>4
  <2>6. CharsOf(m)[1] = <<m, 1>>
    BY <2>2 DEF CharsOf
  <2>7. Length[chars[1][1]] = Length[m]
    BY <2>5, <2>6
  <2> QED BY <1>1, <2>1, <2>2, <2>7 DEF SentinelLength
<1>2. CASE ~ \E m \in Msgs : /\ Kind[m] = "sentinel" /\ Len(chars) >= Length[m]
                             /\ SubSeq(chars, 1, Length[m]) = CharsOf(m)
  BY <1>2 DEF SentinelLength
<1> QED BY <1>1, <1>2

LEMMA DataKeepsTypes ==
  ASSUME TypeInv, NEW s \in Sessions, HandleFileData(s)
  PROVE  TypeInv'
<1>1. /\ fileReq[s] \in Msgs /\ Name[fileReq[s]] \in Names /\ Size[fileReq[s]] \in Int
      /\ received[s] \in Nat
  BY Groups, ScriptAssumption DEF HandleFileData, RequestOK, FileOK
<1>2. Live(s) \in Seq(Chars) /\ Len(Live(s)) \in Nat
  BY LiveIsSeq
<1>3. PICK n \in 1 .. ToWrite(s) :
        /\ disk' = [disk EXCEPT ![Name[fileReq[s]]] =
                      WriteAt(@, received[s], SubSeq(Live(s), 1, n))]
        /\ WriteSome(s, n) \/ WriteCompletes(s, n)
  BY DEF HandleFileData
<1>4. n \in 1 .. Len(Live(s))
  BY <1>1, <1>2 DEF ToWrite
<1>5. /\ SubSeq(Live(s), 1, n) \in Seq(Chars)
      /\ SubSeq(Live(s), n + 1, Len(Live(s))) \in Seq(Chars)
  BY <1>2, <1>4, CutIsSeq
<1>6. disk' \in [Names -> Seq(Chars)]
  <2>1. disk \in [Names -> Seq(Chars)]
    BY Groups DEF FileOK
  <2>2. WriteAt(disk[Name[fileReq[s]]], received[s], SubSeq(Live(s), 1, n)) \in Seq(Chars)
    BY <1>1, <1>5, <2>1, WrittenIsSeq
  <2> QED BY <1>3, <2>1, <2>2
<1>7. LoopOK' /\ ConnOK' /\ ClientOK' /\ SharedOK'
  BY Groups, Frame DEF HandleFileData, LoopOK
<1>8. CASE WriteSome(s, n)
  <2>1. BufferOK'
    BY <1>4, <1>8, ConsumeKeepsBuffer DEF WriteSome
  <2>2. FileOK'
    <3>1. /\ received' = [received EXCEPT ![s] = @ + n] /\ n \in Nat
          /\ transfer' \in {transfer, [active |-> TRUE, isSending |-> FALSE,
                                       fileName |-> Name[fileReq[s]]]}
          /\ UNCHANGED <<fileOpen, fileReq>>
      BY <1>4, <1>8 DEF WriteSome, HandleFileData
    <3>2. received' \in [Sessions -> Nat]
      BY <1>1, <3>1, Groups DEF FileOK
    <3>3. transfer' \in [active : BOOLEAN, isSending : BOOLEAN,
                        fileName : Names \union {NoName}]
      <4>1. CASE transfer' = transfer
        BY <4>1, Groups DEF FileOK
      <4>2. CASE transfer' = [active |-> TRUE, isSending |-> FALSE,
                              fileName |-> Name[fileReq[s]]]
        BY <4>2, <1>1
      <4> QED BY <3>1, <4>1, <4>2
    <3> QED BY <1>6, <3>1, <3>2, <3>3, Groups DEF FileOK
  <2>3. UNCHANGED <<authVars, replies, stage, fileReq>>
    BY <1>8 DEF WriteSome, HandleFileData, authVars
  <2> QED BY <1>7, <2>1, <2>2, <2>3, Frame, GroupsAfter
<1>9. CASE WriteCompletes(s, n)
  <2> DEFINE rest == SubSeq(Live(s), n + 1, Len(Live(s)))
  <2>1. rest \in Seq(Chars) /\ Len(rest) \in Nat
    BY <1>5
  <2>2. SentinelLength(rest) \in 0 .. Len(rest)
    BY <2>1, SentinelIsPrefix
  <2>3. SubSeq(rest, SentinelLength(rest) + 1, Len(rest)) \in Seq(Chars)
    BY <2>1, <2>2, CutIsSeq
  <2>4. /\ buffer' = [buffer EXCEPT ![s] = SubSeq(rest, SentinelLength(rest) + 1, Len(rest))]
        /\ bufferOffset' = [bufferOffset EXCEPT ![s] = 0]
        /\ SendResponse(s, fileReq[s], "FILE_OK")
        /\ received' = [received EXCEPT ![s] = 0]
        /\ fileOpen' = [fileOpen EXCEPT ![s] = FALSE]
        /\ stage' = [stage EXCEPT ![s] = "HEADER"]
        /\ transfer' = Idle
        /\ UNCHANGED <<closed, authAttempts, fileReq>>
    BY <1>9 DEF WriteCompletes, TransferEnds, CloseFile, HandleFileData
  <2> HIDE DEF rest
  <2>5. BufferOK'
    BY <2>3, <2>4, Groups DEF BufferOK
  <2>6. FileOK'
    BY <1>6, <2>4, Groups DEF FileOK, Idle
  <2>7. AuthOK' /\ RequestOK'
    BY <2>4, Groups DEF AuthOK, RequestOK
  <2>8. ReplyOK'
    BY <1>1, <2>4, ResponseKeepsReplies DEF ReplyKinds
  <2> QED BY <1>7, <2>5, <2>6, <2>7, <2>8, GroupsAfter
<1> QED BY <1>3, <1>8, <1>9

-----------------------------------------------------------------------------
LEMMA NextKeepsTypes == TypeInv /\ BanInv' /\ [Next]_vars => TypeInv'
<1> SUFFICES ASSUME TypeInv, BanInv', [Next]_vars PROVE TypeInv'
  OBVIOUS
<1>1. ASSUME NEW s \in Sessions, ServerStep(s) PROVE TypeInv'
  BY <1>1, LoopKeepsTypes, ReadKeepsTypes, LineKeepsTypes, FailureKeepsTypes, DataKeepsTypes
     DEF ServerStep
<1>2. ASSUME NEW s \in Sessions, ClientSend(s) \/ ClientLeaves(s) PROVE TypeInv'
  BY <1>2, ClientKeepsTypes
<1>3. CASE RotatePin
  <2>1. PICK p \in Pins : recentPins' = Remember(recentPins, p)
    BY <1>3 DEF RotatePin
  <2>2. recentPins \in Seq(Pins) /\ Len(recentPins) <= MAX_RECENT_PINS
    BY Groups DEF SharedOK
  <2>3. recentPins' \in Seq(Pins) /\ Len(recentPins') \in 1 .. MAX_RECENT_PINS
    BY <2>1, <2>2, WindowIsBounded
  <2>4. SharedOK'
    BY <1>3, <2>3, Groups DEF RotatePin, SharedOK
  <2>5. UNCHANGED <<conn, clientVars, authVars, bufferVars, fileVars, loopVars, replies, stage,
                    fileReq>>
    BY <1>3 DEF RotatePin, authVars, fileVars
  <2> QED BY <2>4, <2>5, Frame, GroupsAfter
<1>4. CASE Tick
  <2>1. SharedOK'
    BY <1>4, Groups DEF Tick, SharedOK
  <2>2. UNCHANGED <<conn, clientVars, authVars, bufferVars, fileVars, loopVars, replies, stage,
                    fileReq>>
    BY <1>4 DEF Tick, authVars, fileVars
  <2> QED BY <2>1, <2>2, Frame, GroupsAfter
<1>5. CASE UNCHANGED vars
  BY <1>5, Frame, GroupsAfter DEF vars, authVars, fileVars
<1> QED BY <1>1, <1>2, <1>3, <1>4, <1>5 DEF Next

LEMMA TypeInvariant == Spec => []TypeInv
  BY InitTypes, NextKeepsTypes, BanInvariant, PTL DEF Spec

(* Every variable keeps its type; in particular the read head never leaves  *)
(* the buffer and the window of PINs is never empty nor over its limit.     *)
THEOREM TypeCorrect == Spec => []TypeOK
<1>1. TypeInv => TypeOK
  BY DEF TypeInv
<1> QED BY <1>1, TypeInvariant, PTL

-----------------------------------------------------------------------------
(* Descriptors.  The strengthening: the session being served is connected,  *)
(* and one that is not yet connected has done nothing.                      *)
FileInv ==
  /\ DescriptorMatchesStage
  /\ \A s \in Sessions : conn[s] = "none" => stage[s] = "AUTH"
  /\ serving # NoSession => conn[serving] = "open"

FunctionTypes ==
  /\ fileOpen \in [Sessions -> BOOLEAN]
  /\ conn \in [Sessions -> {"none", "open", "gone"}]
  /\ stage \in [Sessions -> {"AUTH", "HEADER", "DATA"}]

(* A step that changes none of the four variables.                          *)
LEMMA OthersKeepFiles ==
  ASSUME FileInv, UNCHANGED <<fileOpen, conn, stage, serving>>
  PROVE  FileInv'
  BY DEF FileInv, DescriptorMatchesStage

(* A step of a session that is being served.                                *)
LEMMA StageMoves ==
  ASSUME FileInv, FunctionTypes, NEW s \in Sessions, serving = s, serving' = serving,
         conn' = conn, NEW to, stage' = [stage EXCEPT ![s] = to],
         fileOpen' = [fileOpen EXCEPT ![s] = (to = "DATA")]
  PROVE  FileInv'
<1>1. conn[s] = "open"
  BY ScriptAssumption DEF FileInv
<1>2. \A t \in Sessions : fileOpen'[t] <=> conn'[t] = "open" /\ stage'[t] = "DATA"
  <2> SUFFICES ASSUME NEW t \in Sessions
               PROVE  fileOpen'[t] <=> conn'[t] = "open" /\ stage'[t] = "DATA"
    OBVIOUS
  <2>1. CASE t = s
    <3>1. stage'[t] = to /\ conn'[t] = "open"
      BY <2>1, <1>1 DEF FunctionTypes
    <3>2. fileOpen'[t] = (to = "DATA")
      BY <2>1, Zenon DEF FunctionTypes
    <3> QED BY <3>1, <3>2
  <2>2. CASE t # s
    <3>1. stage'[t] = stage[t] /\ fileOpen'[t] = fileOpen[t] /\ conn'[t] = conn[t]
      BY <2>2 DEF FunctionTypes
    <3> QED BY <3>1 DEF FileInv, DescriptorMatchesStage
  <2> QED BY <2>1, <2>2
<1>3. \A t \in Sessions : conn'[t] = "none" => stage'[t] = "AUTH"
  BY <1>1 DEF FileInv, FunctionTypes
<1> QED BY <1>2, <1>3 DEF FileInv, DescriptorMatchesStage

LEMMA LineKeepsFiles ==
  ASSUME FileInv, FunctionTypes, NEW s \in Sessions, ProcessLine(s)
  PROVE  FileInv'
<1>1. serving = s /\ stage[s] # "DATA"
  BY DEF ProcessLine, Parsing
<1>2. ~fileOpen[s]
  BY <1>1 DEF FileInv, DescriptorMatchesStage
<1>3. CASE UNCHANGED <<fileOpen, conn, stage, serving>>
  BY <1>3, OthersKeepFiles
<1>4. CASE /\ stage' = [stage EXCEPT ![s] = "HEADER"]
           /\ UNCHANGED <<fileOpen, conn, serving>>
  <2>1. fileOpen' = [fileOpen EXCEPT ![s] = FALSE]
    BY <1>2, <1>4 DEF FunctionTypes
  <2> QED BY <1>1, <1>4, <2>1, StageMoves
<1>5. CASE /\ stage' = [stage EXCEPT ![s] = "DATA"]
           /\ fileOpen' = [fileOpen EXCEPT ![s] = TRUE]
           /\ UNCHANGED <<conn, serving>>
  BY <1>1, <1>5, StageMoves
<1>6. PICK m : HandleAuth(s, m) \/ HandleHeader(s, m)
  BY DEF ProcessLine
<1>7. CASE HandleAuth(s, m)
  BY <1>3, <1>4, <1>7 DEF HandleAuth, fileVars, loopVars
<1>8. CASE HandleHeader(s, m)
  BY <1>3, <1>5, <1>8 DEF HandleHeader, HandleCommand, HandlePush, HandleFileStart,
                          HandleUnknown, Terminates, fileVars, loopVars, authVars
<1> QED BY <1>6, <1>7, <1>8

LEMMA WritesKeepFiles ==
  ASSUME FileInv, FunctionTypes, NEW s \in Sessions, WriteFails(s) \/ HandleFileData(s)
  PROVE  FileInv'
<1>1. serving = s /\ serving' = serving /\ conn' = conn
  BY DEF WriteFails, HandleFileData, Parsing
<1>2. CASE UNCHANGED <<stage, fileOpen>>
  BY <1>1, <1>2, OthersKeepFiles
<1>3. CASE /\ stage' = [stage EXCEPT ![s] = "HEADER"]
           /\ fileOpen' = [fileOpen EXCEPT ![s] = FALSE]
  BY <1>1, <1>3, StageMoves
<1> QED BY <1>2, <1>3 DEF WriteFails, HandleFileData, WriteSome, WriteCompletes, CloseFile

LEMMA ConnectionsKeepFiles ==
  ASSUME FileInv, FunctionTypes, NEW s \in Sessions, AcceptConnection(s) \/ RemoveClient(s)
  PROVE  FileInv'
<1>1. CASE AcceptConnection(s)
  <2>1. /\ conn[s] = "none" /\ serving = NoSession
        /\ UNCHANGED <<fileOpen, stage, serving>>
        /\ conn' = [conn EXCEPT ![s] = "gone"] \/ conn' = [conn EXCEPT ![s] = "open"]
    BY <1>1 DEF AcceptConnection, fileVars, authVars, loopVars
  <2>2. stage[s] = "AUTH"
    BY <2>1 DEF FileInv
  <2> QED BY <2>1, <2>2 DEF FileInv, FunctionTypes, DescriptorMatchesStage
<1>2. CASE RemoveClient(s)
  <2>1. /\ serving' = NoSession /\ stage' = stage
        /\ conn' = [conn EXCEPT ![s] = "gone"]
        /\ fileOpen' = [fileOpen EXCEPT ![s] = FALSE]
    BY <1>2 DEF RemoveClient, CloseFile, authVars
  <2> QED BY <2>1 DEF FileInv, FunctionTypes, DescriptorMatchesStage
<1> QED BY <1>1, <1>2

LEMMA NextKeepsFiles == TypeInv /\ FileInv /\ [Next]_vars => FileInv'
<1> SUFFICES ASSUME TypeInv, FileInv, [Next]_vars PROVE FileInv'
  OBVIOUS
<1>1. FunctionTypes
  BY Groups DEF FunctionTypes, FileOK, ConnOK, AuthOK
<1>2. ASSUME NEW s \in Sessions, OnData(s) PROVE FileInv'
  BY <1>2 DEF OnData, fileVars, FileInv, DescriptorMatchesStage
<1>3. ASSUME NEW s \in Sessions, WouldBlock(s) PROVE FileInv'
  BY <1>3 DEF WouldBlock, fileVars, authVars, FileInv, DescriptorMatchesStage
<1>4. ASSUME NEW s \in Sessions,
             ProcessBufferReturns(s) \/ ClientSend(s) \/ ClientLeaves(s)
      PROVE  FileInv'
  BY <1>4, OthersKeepFiles DEF ProcessBufferReturns, ClientSend, ClientLeaves, fileVars,
                               authVars, loopVars
<1>5. CASE RotatePin \/ Tick \/ UNCHANGED vars
  BY <1>5, OthersKeepFiles DEF RotatePin, Tick, vars, fileVars, authVars, loopVars
<1> QED BY <1>1, <1>2, <1>3, <1>4, <1>5, LineKeepsFiles, WritesKeepFiles, ConnectionsKeepFiles
        DEF Next, ServerStep

(* Whatever the order of completion, write errors, hang-ups, guesses and    *)
(* requests, in any number of sessions: a session owns a file descriptor    *)
(* exactly while it is connected and in the DATA stage.                     *)
THEOREM DescriptorsNeverLeak == Spec => []DescriptorMatchesStage
<1>1. Init => FileInv
  BY ScriptAssumption DEF Init, FileInv, DescriptorMatchesStage
<1>2. FileInv => DescriptorMatchesStage
  BY DEF FileInv
<1> QED BY <1>1, <1>2, NextKeepsFiles, TypeInvariant, PTL DEF Spec

-----------------------------------------------------------------------------
(* Guesses.  While a session is not closed, its attempts count the wrong   *)
(* PINs it was told of; when they reach the limit it is closed, and a      *)
(* closed session is answered nothing.                                     *)

Reply == [to : Msgs \union {NoMsg}, is : ReplyKinds]
Fails(said) == {i \in DOMAIN said : said[i].is = "AUTH_FAIL"}

GuessRecord(said, attempts, over) ==
  /\ IsFiniteSet(Fails(said)) /\ Cardinality(Fails(said)) <= AUTH_ATTEMPTS_PER_CONNECTION
  /\ ~over => Cardinality(Fails(said)) = attempts /\ attempts < AUTH_ATTEMPTS_PER_CONNECTION
  /\ Cardinality(Fails(said)) = AUTH_ATTEMPTS_PER_CONNECTION => said[Len(said)].is = "AUTH_FAIL"

GuessInv == \A s \in Sessions : GuessRecord(replies[s], authAttempts[s], closed[s])

LEMMA Appended ==
  ASSUME NEW said \in Seq(Reply), NEW answer \in Reply
  PROVE  /\ Len(said) \in Nat /\ Len(Append(said, answer)) = Len(said) + 1
         /\ Append(said, answer)[Len(said) + 1] = answer
         /\ Len(said) + 1 \notin Fails(said)
         /\ answer.is # "AUTH_FAIL" => Fails(Append(said, answer)) = Fails(said)
         /\ answer.is = "AUTH_FAIL" => Fails(Append(said, answer)) = Fails(said) \union {Len(said) + 1}
<1> DEFINE longer == Append(said, answer)
<1>1. /\ Len(said) \in Nat /\ Len(longer) = Len(said) + 1 /\ longer[Len(said) + 1] = answer
      /\ DOMAIN said = 1 .. Len(said) /\ DOMAIN longer = 1 .. Len(said) + 1
      /\ \A i \in 1 .. Len(said) : longer[i] = said[i]
  OBVIOUS
<1> HIDE DEF longer
<1>2. Len(said) + 1 \notin Fails(said)
  BY <1>1 DEF Fails
<1>3. \A i : i \in DOMAIN longer <=> i \in DOMAIN said \/ i = Len(said) + 1
  BY <1>1
<1>4. \A i : i \in Fails(longer) <=> i \in Fails(said) \/ (i = Len(said) + 1 /\ answer.is = "AUTH_FAIL")
  BY <1>1, <1>3 DEF Fails
<1> QED BY <1>1, <1>2, <1>4 DEF longer

LEMMA OtherAnswer ==
  ASSUME NEW said \in Seq(Reply), NEW answer \in Reply, answer.is # "AUTH_FAIL", NEW attempts, NEW over,
         GuessRecord(said, attempts, FALSE)
  PROVE  GuessRecord(Append(said, answer), attempts, over)
<1>1. Fails(Append(said, answer)) = Fails(said)
  BY Appended
<1>2. Cardinality(Fails(said)) # AUTH_ATTEMPTS_PER_CONNECTION
  BY LimitAssumption DEF GuessRecord
<1> QED BY <1>1, <1>2 DEF GuessRecord

LEMMA WrongAnswer ==
  ASSUME NEW said \in Seq(Reply), NEW answer \in Reply, answer.is = "AUTH_FAIL", NEW attempts \in Nat,
         GuessRecord(said, attempts, FALSE)
  PROVE  GuessRecord(Append(said, answer), attempts + 1, attempts + 1 >= AUTH_ATTEMPTS_PER_CONNECTION)
<1>1. /\ Fails(Append(said, answer)) = Fails(said) \union {Len(said) + 1}
      /\ Len(said) + 1 \notin Fails(said)
      /\ Append(said, answer)[Len(Append(said, answer))].is = "AUTH_FAIL"
  BY Appended
<1>2. /\ IsFiniteSet(Fails(said)) /\ Cardinality(Fails(said)) = attempts
      /\ attempts < AUTH_ATTEMPTS_PER_CONNECTION
  BY DEF GuessRecord
<1>3. /\ IsFiniteSet(Fails(said) \union {Len(said) + 1})
      /\ Cardinality(Fails(said) \union {Len(said) + 1}) = attempts + 1
  BY <1>1, <1>2, FS_AddElement
<1> QED BY <1>1, <1>2, <1>3, LimitAssumption DEF GuessRecord

(* What a step may do to the three of session s.                           *)
LEMMA QuietStep ==
  ASSUME TypeInv, GuessInv, NEW s \in Sessions, UNCHANGED <<replies, authAttempts>>,
         closed' = closed \/ closed' = [closed EXCEPT ![s] = TRUE]
  PROVE  GuessInv'
  BY Groups DEF GuessInv, GuessRecord, AuthOK

LEMMA OtherStep ==
  ASSUME TypeInv, GuessInv, NEW s \in Sessions, ~closed[s], UNCHANGED authAttempts,
         closed' = closed \/ closed' = [closed EXCEPT ![s] = TRUE],
         NEW m \in Msgs \union {NoMsg}, NEW kind \in ReplyKinds \ {"AUTH_FAIL"},
         SendResponse(s, m, kind)
  PROVE  GuessInv'
<1> DEFINE answer == [to |-> m, is |-> kind]
<1>1. replies \in [Sessions -> Seq(Reply)] /\ closed \in [Sessions -> BOOLEAN]
  BY Groups DEF ReplyOK, Reply, AuthOK
<1>2. answer \in Reply /\ answer.is # "AUTH_FAIL"
  BY DEF Reply
<1>3. replies' = [replies EXCEPT ![s] = Append(@, answer)]
  BY DEF SendResponse
<1> HIDE DEF answer
<1>4. ASSUME NEW t \in Sessions PROVE GuessRecord(replies'[t], authAttempts'[t], closed'[t])
  <2>1. CASE t # s
    <3>1. replies'[t] = replies[t] /\ closed'[t] = closed[t]
      BY <1>1, <1>3, <2>1
    <3> QED BY <3>1 DEF GuessInv
  <2>2. CASE t = s
    <3>1. GuessRecord(replies[s], authAttempts[s], FALSE)
      BY <1>1 DEF GuessInv, GuessRecord
    <3>2. replies'[s] = Append(replies[s], answer) /\ replies[s] \in Seq(Reply)
      BY <1>1, <1>3
    <3>3. GuessRecord(Append(replies[s], answer), authAttempts[s], closed'[s])
      BY <1>2, <3>1, <3>2, OtherAnswer
    <3> QED BY <2>2, <3>2, <3>3
  <2> QED BY <2>1, <2>2
<1> QED BY <1>4 DEF GuessInv

LEMMA WrongStep ==
  ASSUME TypeInv, GuessInv, NEW s \in Sessions, ~closed[s],
         NEW m \in Msgs \union {NoMsg}, SendResponse(s, m, "AUTH_FAIL"),
         authAttempts' = [authAttempts EXCEPT ![s] = @ + 1],
         closed' = [closed EXCEPT ![s] = authAttempts[s] + 1 >= AUTH_ATTEMPTS_PER_CONNECTION]
  PROVE  GuessInv'
<1> DEFINE answer == [to |-> m, is |-> "AUTH_FAIL"]
<1>1. /\ replies \in [Sessions -> Seq(Reply)] /\ closed \in [Sessions -> BOOLEAN]
      /\ authAttempts \in [Sessions -> Nat]
  BY Groups DEF ReplyOK, Reply, AuthOK
<1>2. answer \in Reply /\ answer.is = "AUTH_FAIL"
  BY DEF Reply, ReplyKinds
<1>3. replies' = [replies EXCEPT ![s] = Append(@, answer)]
  BY DEF SendResponse
<1> HIDE DEF answer
<1>4. ASSUME NEW t \in Sessions PROVE GuessRecord(replies'[t], authAttempts'[t], closed'[t])
  <2>1. CASE t # s
    <3>1. replies'[t] = replies[t] /\ closed'[t] = closed[t] /\ authAttempts'[t] = authAttempts[t]
      BY <1>1, <1>3, <2>1
    <3> QED BY <3>1 DEF GuessInv
  <2>2. CASE t = s
    <3>1. GuessRecord(replies[s], authAttempts[s], FALSE)
      BY <1>1 DEF GuessInv, GuessRecord
    <3>2. replies'[s] = Append(replies[s], answer) /\ replies[s] \in Seq(Reply)
      BY <1>1, <1>3
    <3>3. /\ authAttempts'[s] = authAttempts[s] + 1 /\ authAttempts[s] \in Nat
          /\ closed'[s] = (authAttempts[s] + 1 >= AUTH_ATTEMPTS_PER_CONNECTION)
      BY <1>1, Zenon
    <3>4. GuessRecord(Append(replies[s], answer), authAttempts[s] + 1,
                      authAttempts[s] + 1 >= AUTH_ATTEMPTS_PER_CONNECTION)
      BY <1>2, <3>1, <3>2, <3>3, WrongAnswer
    <3> QED BY <2>2, <3>2, <3>3, <3>4, Zenon
  <2> QED BY <2>1, <2>2
<1> QED BY <1>4 DEF GuessInv

LEMMA LineKeepsGuesses ==
  ASSUME TypeInv, GuessInv, NEW s \in Sessions, ProcessLine(s)
  PROVE  GuessInv'
<1>1. ~closed[s]
  BY DEF ProcessLine, Parsing
<1>2. PICK n \in DOMAIN Live(s) :
        LET m == MessageOf(SubSeq(Live(s), 1, n)) IN HandleAuth(s, m) \/ HandleHeader(s, m)
  BY DEF ProcessLine
<1> DEFINE m == MessageOf(SubSeq(Live(s), 1, n))
<1>3. m \in Msgs \union {NoMsg}
  BY DEF MessageOf
<1> HIDE DEF m
<1>4. HandleAuth(s, m) \/ HandleHeader(s, m)
  BY <1>2 DEF m
<1>5. CASE HandleAuth(s, m)
  <2>1. \/ /\ SendResponse(s, m, "AUTH_BLOCKED") \/ SendResponse(s, m, "AUTH_OK")
           /\ UNCHANGED authAttempts
           /\ closed' = closed \/ closed' = [closed EXCEPT ![s] = TRUE]
        \/ /\ SendResponse(s, m, "AUTH_FAIL")
           /\ authAttempts' = [authAttempts EXCEPT ![s] = @ + 1]
           /\ closed' = [closed EXCEPT ![s] = authAttempts[s] + 1 >= AUTH_ATTEMPTS_PER_CONNECTION]
    BY <1>5 DEF HandleAuth
  <2>2. {"AUTH_BLOCKED", "AUTH_OK"} \subseteq ReplyKinds \ {"AUTH_FAIL"}
    BY DEF ReplyKinds
  <2> QED BY <1>1, <1>3, <2>1, <2>2, OtherStep, WrongStep
<1>6. CASE HandleHeader(s, m)
  <2>1. UNCHANGED <<closed, authAttempts>>
    BY <1>6 DEF HandleHeader, HandleCommand, HandlePush, HandleFileStart, HandleUnknown,
                Terminates, authVars
  <2>2. \/ UNCHANGED replies
        \/ \E kind \in ReplyKinds \ {"AUTH_FAIL"} : SendResponse(s, m, kind)
    BY <1>6, FaultAssumption DEF HandleHeader, HandleCommand, HandlePush, HandleFileStart,
                HandleUnknown, Terminates, ReplyKinds
  <2> QED BY <1>1, <1>3, <2>1, <2>2, QuietStep, OtherStep
<1> QED BY <1>4, <1>5, <1>6

LEMMA WritesKeepGuesses ==
  ASSUME TypeInv, GuessInv, NEW s \in Sessions, WriteFails(s) \/ HandleFileData(s)
  PROVE  GuessInv'
<1>1. ~closed[s] /\ UNCHANGED <<closed, authAttempts>>
  BY DEF WriteFails, HandleFileData, Parsing
<1>2. fileReq[s] \in Msgs \union {NoMsg}
  BY Groups DEF FileOK
<1>3. \/ UNCHANGED replies
      \/ \E kind \in ReplyKinds \ {"AUTH_FAIL"} : SendResponse(s, fileReq[s], kind)
  BY DEF WriteFails, HandleFileData, WriteSome, WriteCompletes, ReplyKinds
<1> QED BY <1>1, <1>2, <1>3, QuietStep, OtherStep

LEMMA NextKeepsGuesses == TypeInv /\ GuessInv /\ [Next]_vars => GuessInv'
<1> SUFFICES ASSUME TypeInv, GuessInv, [Next]_vars PROVE GuessInv'
  OBVIOUS
<1>1. ASSUME NEW s \in Sessions,
             \/ AcceptConnection(s) \/ OnData(s) \/ WouldBlock(s) \/ RemoveClient(s)
             \/ ProcessBufferReturns(s) \/ ClientSend(s) \/ ClientLeaves(s)
      PROVE  GuessInv'
  <2>1. /\ UNCHANGED <<replies, authAttempts>>
        /\ closed' = closed \/ closed' = [closed EXCEPT ![s] = TRUE]
    BY <1>1 DEF AcceptConnection, OnData, WouldBlock, RemoveClient, ProcessBufferReturns,
                ClientSend, ClientLeaves, authVars
  <2> QED BY <2>1, QuietStep
<1>2. CASE RotatePin \/ Tick \/ UNCHANGED vars
  <2>1. UNCHANGED <<replies, authAttempts, closed>>
    BY <1>2 DEF RotatePin, Tick, vars, authVars
  <2> QED BY <2>1 DEF GuessInv
<1> QED BY <1>1, <1>2, LineKeepsGuesses, WritesKeepGuesses DEF Next, ServerStep

(* However many guesses a client pipelines into one read, in any number of  *)
(* sessions: a connection is told of at most AUTH_ATTEMPTS_PER_CONNECTION   *)
(* wrong PINs, and of nothing after the last.                              *)
THEOREM GuessesAlwaysCapped == Spec => []GuessesCapped
<1>1. Init => GuessInv
  <2> SUFFICES ASSUME Init, NEW s \in Sessions
               PROVE  GuessRecord(replies[s], authAttempts[s], closed[s])
    BY DEF GuessInv
  <2>1. replies[s] = << >> /\ authAttempts[s] = 0 /\ closed[s] = FALSE
    BY DEF Init
  <2>2. Fails(<< >>) = {}
    BY DEF Fails
  <2>3. IsFiniteSet(Fails(<< >>)) /\ Cardinality(Fails(<< >>)) = 0
    BY <2>2, FS_EmptySet, Zenon
  <2> QED BY <2>1, <2>3, LimitAssumption DEF GuessRecord
<1>2. GuessInv => GuessesCapped
  BY DEF GuessInv, GuessRecord, Fails, GuessesCapped
<1> QED BY <1>1, <1>2, NextKeepsGuesses, TypeInvariant, PTL DEF Spec
=============================================================================
