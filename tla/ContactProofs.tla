---------------------------- MODULE ContactProofs ----------------------------
(* The verification of a WhatsApp number, the limiter in front of the       *)
(* routes, the introductions and the message threads of LinkedIn, and who   *)
(* is shown as a way into a company: for any numbers, codes, limits,        *)
(* windows, requests, connections, imports and syncs.                       *)
EXTENDS WhatsAppOtp, RateLimiter, WayIn, OrderLemmas

-----------------------------------------------------------------------------
(* WhatsApp verification.                                                  *)

OtpTypes ==
  /\ wa \in Row
  /\ redis \in [otp : Nat, rate : Nat, attempts : Nat]
  /\ sending \in [pc : {"idle", "twilio", "sent"}, number : Numbers \cup {NoNumber},
                  verified : BOOLEAN]
  /\ confirming \in [pc : {"idle", "matched"}, number : Numbers \cup {NoNumber}]
  /\ codes \in Seq(Numbers) /\ redis.otp \in 0..Len(codes)
  /\ blurred \in BOOLEAN

\* As long as the requests of the user come one by one, the code that is kept went
\* to the number that waits, or to the one a request in flight will put there.
InTurn ==
  /\ sending.pc = "idle" \/ confirming.pc = "idle"
  /\ redis.otp # 0 =>
        codes[redis.otp] = IF sending.pc = "idle" THEN wa.number ELSE sending.number
  /\ sending.pc # "idle" => (sending.verified <=> wa.verified)
  /\ confirming.pc = "matched" => wa.number = proven
  /\ wa.verified => wa.number = proven

OtpInv == OtpTypes /\ (blurred \/ InTurn)

LEMMA OtpInitInv == OtpInit => OtpInv
<1> SUFFICES ASSUME OtpInit PROVE OtpInv
  OBVIOUS
<1>1. wa \in Row /\ redis \in [otp : Nat, rate : Nat, attempts : Nat]
  BY DEF OtpInit, Row
<1>2. /\ sending \in [pc : {"idle", "twilio", "sent"}, number : Numbers \cup {NoNumber},
                      verified : BOOLEAN]
      /\ confirming \in [pc : {"idle", "matched"}, number : Numbers \cup {NoNumber}]
  BY DEF OtpInit
<1>3. codes \in Seq(Numbers) /\ redis.otp \in 0..Len(codes) /\ blurred \in BOOLEAN
  <2>1. codes = << >> /\ redis.otp = 0
    BY DEF OtpInit
  <2>2. blurred \in BOOLEAN
    BY DEF OtpInit
  <2>3. QED
    BY <2>1, <2>2
<1>4. InTurn
  BY DEF OtpInit, InTurn
<1>5. QED
  BY <1>1, <1>2, <1>3, <1>4 DEF OtpInv, OtpTypes

LEMMA OtpTypeStep == OtpTypes /\ [OtpNext]_otpVars => OtpTypes'
<1> SUFFICES ASSUME OtpTypes, [OtpNext]_otpVars PROVE OtpTypes'
  OBVIOUS
<1> USE DEF OtpTypes
<1>1. CASE UNCHANGED otpVars
  BY <1>1 DEF otpVars
<1>2. ASSUME NEW n \in Numbers, SendCode(n) PROVE OtpTypes'
  <2>1. codes' \in Seq(Numbers) /\ Len(codes') = Len(codes) + 1 /\ Len(codes) \in Nat
    BY <1>2 DEF SendCode
  <2>2. redis' \in [otp : Nat, rate : Nat, attempts : Nat] /\ redis'.otp = Len(codes) + 1
    BY <1>2, <2>1 DEF SendCode
  <2>3. sending' \in [pc : {"idle", "twilio", "sent"}, number : Numbers \cup {NoNumber},
                      verified : BOOLEAN]
    BY <1>2 DEF SendCode, Row
  <2>4. blurred' \in BOOLEAN
    BY <1>2 DEF SendCode
  <2>5. QED
    BY <1>2, <2>1, <2>2, <2>3, <2>4 DEF SendCode
<1>3. CASE SendMessage
  BY <1>3 DEF SendMessage
<1>4. CASE PersistNumber
  <2>1. wa' \in Row
    BY <1>4 DEF PersistNumber, Row
  <2>2. QED
    BY <1>4, <2>1 DEF PersistNumber
<1>5. ASSUME NEW c \in 0..MaxCodes, ConfirmCode(c) PROVE OtpTypes'
  <2>1. blurred' \in BOOLEAN
    BY <1>5 DEF ConfirmCode
  <2>2. /\ redis' \in [otp : Nat, rate : Nat, attempts : Nat]
        /\ redis'.otp \in {0, redis.otp}
    <3>1. CASE redis' = [redis EXCEPT !.otp = 0]
      BY <3>1
    <3>2. CASE redis' = [redis EXCEPT !.attempts = @ + 1]
      BY <3>2
    <3>3. CASE redis' = [redis EXCEPT !.otp = 0, !.attempts = 0]
      BY <3>3
    <3>4. QED
      BY <1>5, <3>1, <3>2, <3>3 DEF ConfirmCode
  <2>3. confirming' \in [pc : {"idle", "matched"}, number : Numbers \cup {NoNumber}]
    BY <1>5 DEF ConfirmCode, Row
  <2>4. QED
    BY <1>5, <2>1, <2>2, <2>3 DEF ConfirmCode
<1>6. CASE MarkVerified
  <2>1. wa' \in Row
    BY <1>6 DEF MarkVerified, Row
  <2>2. QED
    BY <1>6, <2>1 DEF MarkVerified
<1>7. CASE KeyExpires
  <2>1. PICK k \in {"otp", "rate", "attempts"} : redis' = [redis EXCEPT ![k] = 0]
    BY <1>7 DEF KeyExpires
  <2>2. /\ redis' \in [otp : Nat, rate : Nat, attempts : Nat]
        /\ redis'.otp \in {0, redis.otp}
    BY <2>1
  <2>3. QED
    BY <1>7, <2>2 DEF KeyExpires
<1>8. QED
  BY <1>1, <1>2, <1>3, <1>4, <1>5, <1>6, <1>7 DEF OtpNext

LEMMA OtpStep == OtpInv /\ [OtpNext]_otpVars => OtpInv'
<1> SUFFICES ASSUME OtpInv, [OtpNext]_otpVars, ~ blurred' PROVE InTurn'
  BY OtpTypeStep DEF OtpInv
<1>t. OtpTypes /\ OtpTypes'
  BY OtpTypeStep DEF OtpInv
<1>b. ~ blurred /\ InTurn
  BY <1>t DEF OtpInv, OtpNext, otpVars, SendCode, SendMessage, PersistNumber, ConfirmCode,
              MarkVerified, KeyExpires, OtpTypes
<1> USE <1>t, <1>b DEF OtpTypes, InTurn
<1>1. CASE UNCHANGED otpVars
  BY <1>1 DEF otpVars
<1>2. ASSUME NEW n \in Numbers, SendCode(n) PROVE InTurn'
  <2>1. sending.pc = "idle" /\ confirming.pc = "idle" /\ UNCHANGED <<wa, confirming, proven>>
    BY <1>2 DEF SendCode, InFlight
  <2>2. redis'.otp = Len(codes) + 1 /\ codes'[redis'.otp] = n
    BY <1>2 DEF SendCode
  <2>3. sending'.pc = "twilio" /\ sending'.number = n /\ sending'.verified = wa.verified
    BY <1>2 DEF SendCode
  <2>4. QED
    BY <2>1, <2>2, <2>3
<1>3. CASE SendMessage
  BY <1>3 DEF SendMessage
<1>4. CASE PersistNumber
  <2>1. /\ wa'.number = sending.number
        /\ wa'.verified = IF sending.verified THEN FALSE ELSE wa.verified
    BY <1>4 DEF PersistNumber, Row
  <2>2. sending'.pc = "idle" /\ UNCHANGED <<redis, confirming, codes, proven>>
    BY <1>4 DEF PersistNumber
  <2>3. ~ wa'.verified /\ confirming.pc = "idle"
    BY <1>4, <2>1 DEF PersistNumber
  <2>4. QED
    BY <1>4, <2>1, <2>2, <2>3 DEF PersistNumber
<1>5. ASSUME NEW c \in 0..MaxCodes, ConfirmCode(c) PROVE InTurn'
  <2>1. sending.pc = "idle" /\ UNCHANGED <<wa, sending, codes>>
    BY <1>5 DEF ConfirmCode, InFlight
  <2>2. CASE redis'.otp \in {0, redis.otp} /\ UNCHANGED <<confirming, proven>>
    BY <2>1, <2>2
  <2>3. CASE /\ redis' = [redis EXCEPT !.otp = 0, !.attempts = 0]
             /\ redis.otp # 0 /\ c = redis.otp /\ proven' = codes[c]
    BY <1>5, <2>1, <2>3 DEF ConfirmCode
  <2>4. QED
    BY <1>5, <2>2, <2>3 DEF ConfirmCode
<1>6. CASE MarkVerified
  <2>1. wa'.number = wa.number /\ confirming'.pc = "idle" /\ sending.pc = "idle"
    BY <1>6 DEF MarkVerified, Row
  <2>2. QED
    BY <1>6, <2>1 DEF MarkVerified
<1>7. CASE KeyExpires
  <2>1. PICK k \in {"otp", "rate", "attempts"} : redis' = [redis EXCEPT ![k] = 0]
    BY <1>7 DEF KeyExpires
  <2>2. redis'.otp \in {0, redis.otp}
    BY <2>1
  <2>3. QED
    BY <1>7, <2>2 DEF KeyExpires
<1>8. QED
  BY <1>1, <1>2, <1>3, <1>4, <1>5, <1>6, <1>7 DEF OtpNext

\* A number that is marked verified received the code that was confirmed, unless two
\* requests of the user overlapped or a send that failed had got through: for any
\* numbers, any limits and any number of codes.
THEOREM VerifiedNumberHadTheCode == OtpSpec => []VerifiedGotTheCode
<1>1. OtpInv => VerifiedGotTheCode
  BY DEF OtpInv, InTurn, VerifiedGotTheCode
<1>2. QED
  BY <1>1, OtpInitInv, OtpStep, PTL DEF OtpSpec

-----------------------------------------------------------------------------
(* The rate limiter.                                                       *)

LastWindow(t) == { u \in 0..t : u + Window > t }

\* What the property says of the window that ends at t.
Limited(t) ==
  /\ Cardinality(admitted \cap LastWindow(t)) <= MaxCalls
  /\ t \in asked /\ Cardinality(asked \cap LastWindow(t)) <= MaxCalls => t \in admitted

\* The sorted set holds the requests of the window that ends now, and maybe older
\* ones; the windows that have not ended yet hold no more than this one.
LimitInv ==
  /\ now \in Nat /\ now >= Window
  /\ asked \subseteq 0..now /\ admitted \subseteq asked /\ calls \subseteq asked
  /\ \A u \in asked : u > now - Window => u \in calls
  /\ \A t \in 0..now : Limited(t)

\* The requests of a window are finitely many, and fewer when some are left out.
LEMMA WindowCount ==
    ASSUME NEW t \in Nat, NEW S, NEW R, R \cap LastWindow(t) \subseteq S
    PROVE  /\ Cardinality(R \cap LastWindow(t)) \in Nat
           /\ IsFiniteSet(S) => Cardinality(R \cap LastWindow(t)) <= Cardinality(S)
<1>1. IsFiniteSet(0..t)
  BY FS_Interval
<1>2. R \cap LastWindow(t) \subseteq 0..t
  BY DEF LastWindow
<1>3. IsFiniteSet(R \cap LastWindow(t))
  BY <1>1, <1>2, FS_Subset
<1>4. Cardinality(R \cap LastWindow(t)) \in Nat
  BY <1>3, FS_CardinalityType
<1>5. IsFiniteSet(S) => Cardinality(R \cap LastWindow(t)) <= Cardinality(S)
  BY FS_Subset
<1>6. QED
  BY <1>4, <1>5

LEMMA LimitInitInv == LimitInit => LimitInv
<1> SUFFICES ASSUME LimitInit PROVE LimitInv
  OBVIOUS
<1>1. \A t \in 0..now : Limited(t)
  <2>1. \A t \in 0..now : admitted \cap LastWindow(t) = {}
    BY DEF LimitInit
  <2>2. QED
    BY <2>1, FS_EmptySet, WindowAssumption DEF LimitInit, Limited
<1>2. QED
  BY <1>1, WindowAssumption DEF LimitInit, LimitInv

LEMMA LimitStep == LimitInv /\ [LimitNext]_limitVars => LimitInv'
<1> SUFFICES ASSUME LimitInv, [LimitNext]_limitVars PROVE LimitInv'
  OBVIOUS
<1> USE WindowAssumption
<1>1. CASE Check
  <2>1. /\ calls' = { t \in calls : t > now - Window } \cup {now} /\ asked' = asked \cup {now}
        /\ admitted' = IF Cardinality(calls') > MaxCalls THEN admitted ELSE admitted \cup {now}
        /\ now' = now
    BY <1>1 DEF Check, InWindow
  <2>2. calls' = asked' \cap LastWindow(now)
    <3>1. now \in 0..now /\ \A u \in 0..now : (u > now - Window <=> u + Window > now)
      BY DEF LimitInv
    <3>2. now + Window > now
      BY DEF LimitInv
    <3>3. \A u \in calls \cup asked : u \in 0..now
      BY DEF LimitInv
    <3>4. \A u : u \in calls' <=> u = now \/ (u \in calls /\ u > now - Window)
      BY <2>1
    <3>5. \A u : u \in asked' \cap LastWindow(now) <=>
                   u \in 0..now /\ u + Window > now /\ (u = now \/ u \in asked)
      BY <2>1 DEF LastWindow
    <3>6. \A u : u \in calls' <=> u \in asked' \cap LastWindow(now)
      BY <3>1, <3>2, <3>3, <3>4, <3>5 DEF LimitInv
    <3>7. QED
      BY <3>6
  <2>3. /\ asked' \subseteq 0..now /\ admitted' \subseteq asked' /\ calls' \subseteq asked'
        /\ \A u \in asked' : u > now - Window => u \in calls'
    BY <2>1, <2>2 DEF LimitInv, LastWindow
  <2>4. ASSUME NEW t \in 0..now, t # now PROVE Limited(t)'
    <3>1. /\ admitted' \cap LastWindow(t) = admitted \cap LastWindow(t)
          /\ asked' \cap LastWindow(t) = asked \cap LastWindow(t)
      BY <2>1, <2>4 DEF LastWindow, LimitInv
    <3>2. t \in asked' => t \in asked
      BY <2>1, <2>4
    <3>3. Limited(t)
      BY DEF LimitInv
    <3>4. QED
      BY <2>1, <3>1, <3>2, <3>3 DEF Limited
  <2>5. Limited(now)'
    <3>1. Cardinality(calls') \in Nat
      BY <2>2, WindowCount DEF LimitInv
    <3>2. CASE Cardinality(calls') > MaxCalls
      <4>1. Limited(now)
        BY DEF LimitInv
      <4>2. ~ (Cardinality(asked' \cap LastWindow(now)) <= MaxCalls)
        BY <2>2, <3>1, <3>2
      <4>3. QED
        BY <2>1, <3>2, <4>1, <4>2 DEF Limited
    <3>3. CASE ~ (Cardinality(calls') > MaxCalls)
      <4>1. now \in admitted'
        BY <2>1, <3>3
      <4>2. admitted' \cap LastWindow(now) \subseteq calls'
        BY <2>2, <2>3
      <4>3. IsFiniteSet(calls')
        <5>1. IsFiniteSet(0..now)
          BY FS_Interval DEF LimitInv
        <5>2. QED
          BY <2>3, <5>1, FS_Subset
      <4>4. Cardinality(admitted' \cap LastWindow(now)) <= MaxCalls
        <5>1. /\ Cardinality(admitted' \cap LastWindow(now)) <= Cardinality(calls')
              /\ Cardinality(admitted' \cap LastWindow(now)) \in Nat
          BY <4>2, <4>3, WindowCount DEF LimitInv
        <5>2. QED
          BY <3>1, <3>3, <5>1
      <4>5. QED
        BY <2>1, <4>1, <4>4 DEF Limited
    <3>4. QED
      BY <3>2, <3>3
  <2>6. QED
    BY <2>1, <2>3, <2>4, <2>5 DEF LimitInv
<1>2. CASE RedisDown \/ UNCHANGED limitVars
  BY <1>2 DEF RedisDown, limitVars, LimitInv, Limited
<1>3. CASE Tick
  <2>1. now' = now + 1 /\ UNCHANGED <<calls, admitted, asked>> /\ now \in Nat /\ now' \in Nat
    BY <1>3 DEF Tick, LimitInv
  <2>2. now' \notin asked
    BY <2>1 DEF LimitInv
  <2>3. Cardinality(admitted \cap LastWindow(now')) <= MaxCalls
    <3>1. admitted \cap LastWindow(now') \subseteq admitted \cap LastWindow(now)
      BY <2>1 DEF LastWindow, LimitInv
    <3>2. IsFiniteSet(admitted \cap LastWindow(now))
      <4>1. IsFiniteSet(0..now) /\ admitted \cap LastWindow(now) \subseteq 0..now
        BY <2>1, FS_Interval DEF LastWindow
      <4>2. QED
        BY <4>1, FS_Subset
    <3>3. /\ Cardinality(admitted \cap LastWindow(now')) <= Cardinality(admitted \cap LastWindow(now))
          /\ Cardinality(admitted \cap LastWindow(now')) \in Nat
      BY <2>1, <3>1, <3>2, WindowCount
    <3>4. Cardinality(admitted \cap LastWindow(now)) \in Nat
      BY <3>2, FS_CardinalityType
    <3>5. Cardinality(admitted \cap LastWindow(now)) <= MaxCalls
      <4>1. now \in 0..now
        BY <2>1
      <4>2. Limited(now)
        BY <4>1 DEF LimitInv
      <4>3. QED
        BY <4>2 DEF Limited
    <3>6. QED
      BY <3>3, <3>4, <3>5
  <2>4. ASSUME NEW t \in 0..now' PROVE Limited(t)'
    <3>1. CASE t = now'
      BY <2>1, <2>2, <2>3, <3>1 DEF Limited
    <3>2. CASE t # now'
      <4>1. t \in 0..now
        BY <2>1, <3>2
      <4>2. Limited(t)
        BY <4>1 DEF LimitInv
      <4>3. QED
        BY <2>1, <4>2 DEF Limited
    <3>3. QED
      BY <3>1, <3>2
  <2>5. QED
    BY <2>1, <2>4 DEF LimitInv
<1>4. QED
  BY <1>1, <1>2, <1>3 DEF LimitNext

\* No window has more admitted moments than the limit, and none is refused that has
\* fewer requests behind it: for any limit, any window and any stream of requests.
THEOREM WindowsAreLimited == LimitSpec => []WindowLimitsAdmitted
<1>1. LimitInv => WindowLimitsAdmitted
  <2> SUFFICES ASSUME LimitInv, NEW t \in 0..Horizon PROVE Limited(t)
    BY DEF WindowLimitsAdmitted, Limited, LastWindow
  <2>1. CASE t \in 0..now
    BY <2>1 DEF LimitInv
  <2>2. CASE t > now
    <3>0. now \in Nat /\ t \in Nat
      BY DEF LimitInv
    <3>1. admitted \cap LastWindow(t) \subseteq admitted \cap LastWindow(now)
      BY <2>2, <3>0, WindowAssumption DEF LastWindow, LimitInv
    <3>2. IsFiniteSet(admitted \cap LastWindow(now))
      <4>1. IsFiniteSet(0..now) /\ admitted \cap LastWindow(now) \subseteq 0..now
        BY <3>0, FS_Interval DEF LastWindow
      <4>2. QED
        BY <4>1, FS_Subset
    <3>3. /\ Cardinality(admitted \cap LastWindow(t)) <= Cardinality(admitted \cap LastWindow(now))
          /\ Cardinality(admitted \cap LastWindow(t)) \in Nat
      BY <3>0, <3>1, <3>2, WindowCount
    <3>4. Cardinality(admitted \cap LastWindow(now)) \in Nat
      BY <3>2, FS_CardinalityType
    <3>5. Cardinality(admitted \cap LastWindow(now)) <= MaxCalls
      <4>1. now \in 0..now
        BY <3>0
      <4>2. Limited(now)
        BY <4>1 DEF LimitInv
      <4>3. QED
        BY <4>2 DEF Limited
    <3>6. t \notin asked
      BY <2>2, <3>0 DEF LimitInv
    <3>7. QED
      BY <3>3, <3>4, <3>5, <3>6, WindowAssumption DEF Limited
  <2>3. QED
    BY <2>1, <2>2 DEF LimitInv
<1>2. QED
  BY <1>1, LimitInitInv, LimitStep, PTL DEF LimitSpec

-----------------------------------------------------------------------------
(* Introductions.                                                          *)

AskingFields == {"at", "conn", "app", "found", "late", "drafts"}
IntroFields == {"key", "conn", "app", "status", "requested", "responded", "raced"}

NoIntro(id, app) == \A r \in intros : ~ (r.conn = id /\ r.app = app)

\* What a request has seen missing is missing until another one inserts a row.
StillMissing(p) ==
  ~ asking[p].late =>
    /\ asking[p].at = "request" /\ asking[p].found = {} =>
          NoIntro(asking[p].conn, asking[p].app)
    /\ asking[p].at = "identified" =>
          \A id \in asking[p].found : NoIntro(id, asking[p].app)

IntroInv ==
  /\ DOMAIN asking = Askers /\ \A p \in Askers : DOMAIN asking[p] = AskingFields
  /\ \A r \in intros : DOMAIN r = IntroFields
  /\ \A p \in Askers : StillMissing(p)
  /\ DuplicateIntroNeedsOverlap

LEMMA IntroInitInv == WayInInit => IntroInv
BY DEF WayInInit, IntroInv, AtRestAsking, AskingFields, StillMissing, DuplicateIntroNeedsOverlap

\* A step that inserts no row and writes one request.
LEMMA OneAsker ==
    ASSUME IntroInv, NEW p \in Askers, NEW a, asking' = [asking EXCEPT ![p] = a],
           DOMAIN a = AskingFields, UNCHANGED intros,
           ~ a.late =>
             /\ a.at = "request" /\ a.found = {} => NoIntro(a.conn, a.app)
             /\ a.at = "identified" => \A id \in a.found : NoIntro(id, a.app)
    PROVE  IntroInv'
<1>1. asking'[p] = a /\ \A q \in Askers \ {p} : asking'[q] = asking[q]
  BY DEF IntroInv
<1>2. \A q \in Askers : StillMissing(q)'
  BY <1>1 DEF IntroInv, StillMissing, NoIntro
<1>3. QED
  BY <1>1, <1>2 DEF IntroInv, DuplicateIntroNeedsOverlap

\* A step that changes what rows say besides whom and what they are about.
LEMMA SameIntros ==
    ASSUME IntroInv,
           \A s \in intros' : \E r \in intros :
             /\ DOMAIN s = IntroFields /\ s.key = r.key
             /\ s.conn = r.conn /\ s.app = r.app /\ s.raced = r.raced
    PROVE  /\ \A r \in intros' : DOMAIN r = IntroFields
           /\ DuplicateIntroNeedsOverlap'
           /\ \A id, app : NoIntro(id, app) => NoIntro(id, app)'
BY DEF IntroInv, DuplicateIntroNeedsOverlap, NoIntro

\* Inserted rows, each about somebody of whom the request saw no row, or said to
\* have come after another insertion.
LEMMA InsertKeeps ==
    ASSUME IntroInv, NEW p \in Askers, NEW rows, Insert(p, rows),
           \A r \in rows : /\ DOMAIN r = IntroFields /\ r.raced = asking[p].late
                           /\ ~ asking[p].late => NoIntro(r.conn, r.app),
           \A r, s \in rows : r.conn = s.conn /\ r.app = s.app => r.key = s.key
    PROVE  IntroInv'
<1>1. /\ intros' = intros \cup rows
      /\ asking' = [q \in Askers |-> IF q = p THEN AtRestAsking
                                    ELSE [asking[q] EXCEPT !.late = @ \/ rows # {}]]
  BY DEF Insert
<1>2. /\ asking'[p] = AtRestAsking
      /\ \A q \in Askers \ {p} : asking'[q] = [asking[q] EXCEPT !.late = @ \/ rows # {}]
  BY <1>1
<1>3. DOMAIN asking' = Askers /\ \A q \in Askers : DOMAIN asking'[q] = AskingFields
  BY <1>1, <1>2 DEF IntroInv, AtRestAsking, AskingFields
<1>4. \A q \in Askers : StillMissing(q)'
  <2>1. StillMissing(p)'
    BY <1>2 DEF StillMissing, AtRestAsking
  <2>2. ASSUME NEW q \in Askers \ {p}, ~ asking'[q].late PROVE StillMissing(q)'
    <3>1. /\ asking'[q].at = asking[q].at /\ asking'[q].found = asking[q].found
          /\ asking'[q].conn = asking[q].conn /\ asking'[q].app = asking[q].app
          /\ asking'[q].late = (asking[q].late \/ rows # {})
      BY <1>2 DEF IntroInv, AskingFields
    <3>2. ~ asking[q].late /\ intros' = intros
      BY <1>1, <2>2, <3>1
    <3>3. StillMissing(q)
      BY DEF IntroInv
    <3>4. QED
      BY <3>1, <3>2, <3>3 DEF StillMissing, NoIntro
  <2>3. QED
    BY <2>1, <2>2 DEF StillMissing
<1>5. DuplicateIntroNeedsOverlap'
  BY <1>1 DEF IntroInv, DuplicateIntroNeedsOverlap, NoIntro
<1>6. QED
  BY <1>1, <1>3, <1>4, <1>5 DEF IntroInv

LEMMA IntroStep == IntroInv /\ [WayInNext]_<<peopleVars, wayInVars>> => IntroInv'
<1> SUFFICES ASSUME IntroInv, [WayInNext]_<<peopleVars, wayInVars>> PROVE IntroInv'
  OBVIOUS
<1>0. CASE UNCHANGED wayInVars
  BY <1>0 DEF wayInVars, introVars, IntroInv, StillMissing, NoIntro, DuplicateIntroNeedsOverlap
<1>1. ASSUME NEW p \in Askers, NEW id, NEW app, BeginRequestIntro(p, id, app) PROVE IntroInv'
  <2> DEFINE a == [at |-> "request", conn |-> id, app |-> app, late |-> FALSE,
                   drafts |-> \E r \in KnownIntros(id, app) : r.status = "identified",
                   found |-> {r.key : r \in KnownIntros(id, app)}]
  <2>1. asking' = [asking EXCEPT ![p] = a] /\ UNCHANGED intros
    BY <1>1 DEF BeginRequestIntro
  <2>2. a.found = {} => NoIntro(id, app)
    BY DEF KnownIntros, IntrosOf, NoIntro
  <2>3. DOMAIN a = AskingFields /\ a.at = "request" /\ a.conn = id /\ a.app = app
    BY DEF AskingFields
  <2> HIDE DEF a
  <2>4. QED
    BY <2>1, <2>2, <2>3, OneAsker
<1>2. ASSUME NEW p \in Askers, CommitRequestIntro(p) PROVE IntroInv'
  <2>1. CASE asking[p].found # {}
    <3>1. intros' = {IF r.key \in asking[p].found /\ asking[p].drafts
                     THEN [r EXCEPT !.status = "outreach_drafted"] ELSE r : r \in intros}
      BY <1>2, <2>1 DEF CommitRequestIntro
    <3>2. \A s \in intros' : \E r \in intros :
             /\ DOMAIN s = IntroFields /\ s.key = r.key
             /\ s.conn = r.conn /\ s.app = r.app /\ s.raced = r.raced
      BY <3>1 DEF IntroInv, IntroFields
    <3>3. asking' = [asking EXCEPT ![p] = AtRestAsking]
      BY <1>2, <2>1 DEF CommitRequestIntro
    <3>4. /\ DOMAIN asking' = Askers /\ asking'[p] = AtRestAsking
          /\ \A q \in Askers \ {p} : asking'[q] = asking[q]
      BY <3>3 DEF IntroInv
    <3>5. \A q \in Askers : DOMAIN asking'[q] = AskingFields /\ StillMissing(q)'
      BY <3>2, <3>4, SameIntros DEF IntroInv, StillMissing, AtRestAsking, AskingFields
    <3>6. QED
      BY <3>2, <3>4, <3>5, SameIntros DEF IntroInv
  <2>2. CASE asking[p].found = {}
    <3> DEFINE n == NewIntro(asking[p].conn, asking[p].app, "outreach_drafted", p)
    <3>1. Insert(p, {n}) /\ asking[p].at = "request"
      BY <1>2, <2>2 DEF CommitRequestIntro
    <3>2. /\ DOMAIN n = IntroFields /\ n.raced = asking[p].late
          /\ n.conn = asking[p].conn /\ n.app = asking[p].app
      BY DEF NewIntro, IntroFields
    <3>3. ~ asking[p].late => NoIntro(n.conn, n.app)
      BY <2>2, <3>1, <3>2 DEF IntroInv, StillMissing
    <3> HIDE DEF n
    <3>4. QED
      BY <3>1, <3>2, <3>3, InsertKeeps
  <2>3. QED
    BY <2>1, <2>2
<1>3. ASSUME NEW p \in Askers, NEW app, BeginIdentify(p, app) PROVE IntroInv'
  <2> DEFINE a == [AtRestAsking EXCEPT !.at = "identify", !.app = app]
  <2>1. asking' = [asking EXCEPT ![p] = a] /\ UNCHANGED intros
    BY <1>3 DEF BeginIdentify
  <2>2. DOMAIN a = AskingFields /\ a.at = "identify"
    BY DEF AskingFields, AtRestAsking
  <2> HIDE DEF a
  <2>3. QED
    BY <2>1, <2>2, OneAsker
<1>4. ASSUME NEW p \in Askers, Identify(p) PROVE IntroInv'
  <2> DEFINE app == asking[p].app
             missing == {id \in Candidates(app) : KnownIntros(id, app) = {}}
             a == [AtRestAsking EXCEPT !.at = "identified", !.app = app, !.found = missing]
  <2>1. UNCHANGED intros
    BY <1>4 DEF Identify
  <2>2. CASE asking' = [asking EXCEPT ![p] = AtRestAsking]
    <3>1. DOMAIN AtRestAsking = AskingFields /\ AtRestAsking.at = "idle"
      BY DEF AskingFields, AtRestAsking
    <3>2. QED
      BY <2>1, <2>2, <3>1, OneAsker
  <2>3. CASE asking' = [asking EXCEPT ![p] = a]
    <3>1. \A id \in missing : NoIntro(id, app)
      BY DEF KnownIntros, IntrosOf, NoIntro
    <3>2. /\ DOMAIN a = AskingFields /\ a.at = "identified" /\ a.found = missing /\ a.app = app
      BY DEF AskingFields, AtRestAsking
    <3> HIDE DEF a, missing, app
    <3>3. QED
      BY <2>1, <2>3, <3>1, <3>2, OneAsker
  <2>4. QED
    BY <1>4, <2>2, <2>3 DEF Identify
<1>5. ASSUME NEW p \in Askers, CommitIdentify(p) PROVE IntroInv'
  <2>1. asking[p].at = "identified"
    BY <1>5 DEF CommitIdentify
  <2> DEFINE last == Max({0} \cup {r.key : r \in intros})
             new(order, i) == [NewIntro(order[i], asking[p].app, "identified", p)
                                 EXCEPT !.key = last + i]
  <2>2. PICK order \in SetToSeqs(asking[p].found) :
          Insert(p, {new(order, i) : i \in DOMAIN order})
    BY <1>5 DEF CommitIdentify
  <2>3. /\ \A i \in DOMAIN order : order[i] \in asking[p].found
        /\ \A i, j \in DOMAIN order : i # j => order[i] # order[j]
    BY DEF SetToSeqs
  <2>4. \A i \in DOMAIN order :
          /\ DOMAIN new(order, i) = IntroFields /\ new(order, i).raced = asking[p].late
          /\ new(order, i).conn = order[i] /\ new(order, i).app = asking[p].app
    BY DEF NewIntro, IntroFields
  <2> HIDE DEF new
  <2>5. \A r \in {new(order, i) : i \in DOMAIN order} :
          /\ DOMAIN r = IntroFields /\ r.raced = asking[p].late
          /\ ~ asking[p].late => NoIntro(r.conn, r.app)
    BY <2>1, <2>3, <2>4 DEF IntroInv, StillMissing
  <2>6. \A r, s \in {new(order, i) : i \in DOMAIN order} :
          r.conn = s.conn /\ r.app = s.app => r.key = s.key
    BY <2>3, <2>4
  <2>7. QED
    BY <2>2, <2>5, <2>6, InsertKeeps
<1>6. ASSUME NEW key, NEW status, UpdateIntroStatus(key, status) PROVE IntroInv'
  <2>1. intros' = {IF r.key = key
                   THEN [r EXCEPT !.status = status, !.requested = @ \/ status = "requested",
                                  !.responded = @ \/ status \in {"introduced", "declined"}]
                   ELSE r : r \in intros}
    BY <1>6 DEF UpdateIntroStatus
  <2>2. \A s \in intros' : \E r \in intros :
           /\ DOMAIN s = IntroFields /\ s.key = r.key
           /\ s.conn = r.conn /\ s.app = r.app /\ s.raced = r.raced
    BY <2>1 DEF IntroInv, IntroFields
  <2>3. UNCHANGED asking
    BY <1>6 DEF UpdateIntroStatus
  <2>4. QED
    BY <2>2, <2>3, SameIntros DEF IntroInv, StillMissing
<1>7. ASSUME NEW p \in Askers, NEW q \in Queries, FindWayIn(p, q) PROVE IntroInv'
  <2> DEFINE a == [AtRestAsking EXCEPT !.at = "identify", !.app = q.app]
  <2>1. UNCHANGED intros /\ (UNCHANGED asking \/ asking' = [asking EXCEPT ![p] = a])
    BY <1>7 DEF FindWayIn
  <2>2. DOMAIN a = AskingFields /\ a.at = "identify"
    BY DEF AskingFields, AtRestAsking
  <2> HIDE DEF a
  <2>3. CASE UNCHANGED asking
    BY <2>1, <2>3 DEF IntroInv, StillMissing, NoIntro, DuplicateIntroNeedsOverlap
  <2>4. QED
    BY <2>1, <2>2, <2>3, OneAsker
<1>8. QED
  BY <1>0, <1>1, <1>2, <1>3, <1>4, <1>5, <1>6, <1>7 DEF WayInNext, IntroNext

\* Two introductions of one connection for one application mean that the requests
\* overlapped: for any number of requests, connections and applications.
THEOREM DuplicatesNeedOverlap == WayInSpec => []DuplicateIntroNeedsOverlap
<1>1. IntroInv => DuplicateIntroNeedsOverlap
  BY DEF IntroInv
<1>2. QED
  BY <1>1, IntroInitInv, IntroStep, PTL DEF WayInSpec

-----------------------------------------------------------------------------
(* Message threads.                                                        *)

\* Of every scraped conversation there is a last one with its urn, and only one.
LEMMA LatestOfEach ==
    ASSUME NEW list \in Syncs
    PROVE  /\ \A i \in DOMAIN list : \E j \in Latest(list) : list[j].urn = list[i].urn
           /\ \A i, j \in Latest(list) : list[i].urn = list[j].urn => i = j
           /\ Latest(list) \subseteq DOMAIN list /\ DOMAIN list = 1..Len(list) /\ Len(list) \in Nat
<1>1. DOMAIN list = 1..Len(list) /\ Len(list) \in Nat
  BY SyncsAssumption
<1>2. ASSUME NEW i \in DOMAIN list PROVE \E j \in Latest(list) : list[j].urn = list[i].urn
  <2> DEFINE S == {j \in DOMAIN list : list[j].urn = list[i].urn}
  <2>1. S \in SUBSET (1..Len(list)) /\ S # {}
    BY <1>1
  <2>2. PICK m \in S : \A x \in S : x <= m
    <3>0. IsFiniteSet(1..Len(list))
      BY <1>1, FS_Interval
    <3>1. IsFiniteSet(S)
      BY <2>1, <3>0, FS_Subset
    <3>2. S \in SUBSET Int
      BY <1>1, <2>1
    <3> HIDE DEF S
    <3>3. QED
      BY <2>1, <3>1, <3>2, Extremes
  <2>3. m \in Latest(list)
    <3>1. \A j \in m + 1..Len(list) : j \in DOMAIN list /\ ~ (j <= m)
      BY <1>1
    <3>2. QED
      BY <2>2, <3>1 DEF Latest
  <2>4. QED
    BY <2>3
<1>3. ASSUME NEW i \in Latest(list), NEW j \in Latest(list), list[i].urn = list[j].urn, i # j
      PROVE  FALSE
  <2>1. i \in 1..Len(list) /\ j \in 1..Len(list) /\ (i < j \/ j < i)
    BY <1>1, <1>3 DEF Latest
  <2>2. j \in i + 1..Len(list) \/ i \in j + 1..Len(list)
    BY <1>1, <2>1
  <2>3. QED
    BY <1>3, <2>2 DEF Latest
<1>4. QED
  BY <1>1, <1>2, <1>3 DEF Latest

\* The keys of new rows are new and differ.
LEMMA NewKeys ==
    ASSUME NEW list \in Syncs, inbox.last \in Nat
    PROVE  /\ inbox.last + Cardinality(Unknown(list)) \in Nat
           /\ \A i \in Unknown(list) :
                NewKey(list, i) \in inbox.last + 1..inbox.last + Cardinality(Unknown(list))
           /\ \A i, j \in Unknown(list) : NewKey(list, i) = NewKey(list, j) => i = j
<1> DEFINE U == Unknown(list)
           upTo(i) == {j \in U : j <= i}
<1>1. U \subseteq 1..Len(list) /\ Len(list) \in Nat /\ IsFiniteSet(U)
  <2>1. U \subseteq 1..Len(list) /\ Len(list) \in Nat
    BY LatestOfEach DEF Unknown
  <2>2. IsFiniteSet(1..Len(list))
    BY <2>1, FS_Interval
  <2>3. QED
    BY <2>1, <2>2, FS_Subset
<1>2. \A i \in U : upTo(i) \subseteq U /\ IsFiniteSet(upTo(i))
  BY <1>1, FS_Subset
<1>3. Cardinality(U) \in Nat /\ \A i \in U : Cardinality(upTo(i)) \in Nat
  BY <1>1, <1>2, FS_CardinalityType
<1>4. ASSUME NEW i \in U PROVE Cardinality(upTo(i)) >= 1 /\ Cardinality(upTo(i)) <= Cardinality(U)
  <2>1. upTo(i) # {}
    BY <1>1
  <2>2. Cardinality(upTo(i)) # 0
    BY <1>2, <2>1, FS_EmptySet
  <2>3. Cardinality(upTo(i)) <= Cardinality(U)
    BY <1>1, <1>2, FS_Subset
  <2>4. QED
    BY <1>3, <2>2, <2>3
<1>5. ASSUME NEW i \in U, NEW j \in U, i < j PROVE Cardinality(upTo(i)) # Cardinality(upTo(j))
  <2>1. upTo(i) \subseteq upTo(j) /\ j \in upTo(j) /\ j \notin upTo(i)
    BY <1>1, <1>5
  <2>2. QED
    BY <1>2, <2>1, FS_Subset
<1>6. \A i, j \in U : Cardinality(upTo(i)) = Cardinality(upTo(j)) => i = j
  <2>1. \A i, j \in U : i < j \/ j < i \/ i = j
    BY <1>1
  <2>2. QED
    BY <1>5, <2>1
<1>7. \A i \in U : NewKey(list, i) = inbox.last + Cardinality(upTo(i))
  BY DEF NewKey
<1> HIDE DEF U, upTo
<1>8. QED
  BY <1>3, <1>4, <1>6, <1>7 DEF U

CleaningFields == {"at", "doomed", "late"}
InboxFields == {"done", "synced", "raced", "last"}

\* A row is known by its urn and by its key, and keys come in the order of insertion.
RowsAreKeyed ==
  /\ inbox.last \in Nat
  /\ \A r \in threads : r.key \in 1..inbox.last
  /\ \A r, o \in threads : r.urn = o.urn \/ r.key = o.key => r = o

\* What a clean-up is about to delete are rows that were there, and, unless another
\* one has deleted since, every one of them has another row of its thread that stays.
SparesOne(p) ==
  cleaning[p].at \in {"delete", "inbox delete"} =>
    /\ cleaning[p].doomed \subseteq 1..inbox.last
    /\ ~ cleaning[p].late =>
         \A r \in threads : \E o \in threads :
           Thread[o.urn] = Thread[r.urn] /\ o.key \notin cleaning[p].doomed

ThreadInv ==
  /\ DOMAIN inbox = InboxFields
  /\ DOMAIN cleaning = Cleaners /\ \A p \in Cleaners : DOMAIN cleaning[p] = CleaningFields
  /\ RowsAreKeyed
  /\ \A p \in Cleaners : SparesOne(p)
  /\ ThreadLostNeedsOverlap

LEMMA ThreadInitInv == NetworkInit => ThreadInv
<1> SUFFICES ASSUME NetworkInit PROVE ThreadInv
  OBVIOUS
<1>1. /\ threads = {} /\ inbox = [done |-> FALSE, synced |-> {}, raced |-> {}, last |-> 0]
      /\ cleaning = [p \in Cleaners |-> [at |-> "idle", doomed |-> {}, late |-> FALSE]]
  BY DEF NetworkInit
<1>2. DOMAIN inbox = InboxFields /\ inbox.last = 0 /\ inbox.synced = {}
  BY <1>1 DEF InboxFields
<1>3. /\ DOMAIN cleaning = Cleaners
      /\ \A p \in Cleaners : DOMAIN cleaning[p] = CleaningFields /\ cleaning[p].at = "idle"
  BY <1>1 DEF CleaningFields
<1>4. QED
  BY <1>1, <1>2, <1>3 DEF ThreadInv, RowsAreKeyed, SparesOne, ThreadLostNeedsOverlap

\* A sync keeps the urn and the key of every row, adds rows with new urns and new
\* keys, and leaves every scraped conversation with a row.
LEMMA SyncedRows ==
    ASSUME ThreadInv, NEW list \in Syncs
    PROVE  /\ \A t \in threads : \E n \in Synced(list) : n.urn = t.urn /\ n.key = t.key
           /\ \A n \in Synced(list) :
                \/ \E t \in threads : n.urn = t.urn /\ n.key = t.key
                \/ \E i \in Unknown(list) : n.key = NewKey(list, i) /\ n.urn = list[i].urn
           /\ \A i \in DOMAIN list : \E n \in Synced(list) : n.urn = list[i].urn
           /\ \A n, m \in Synced(list) : n.urn = m.urn \/ n.key = m.key => n = m
<1> DEFINE own(i) == CHOOSE t \in RowsOf(list[i].urn) : TRUE
           Kept == {t \in threads : \A i \in Latest(list) : list[i].urn # t.urn}
           Old == Latest(list) \ Unknown(list)
           oldRow(i) == ThreadRow(list[i], own(i).key)
           newRow(i) == ThreadRow(list[i], NewKey(list, i))
<1>1. /\ Synced(list) = Kept \cup {oldRow(i) : i \in Old} \cup {newRow(i) : i \in Unknown(list)}
      /\ Unknown(list) \subseteq Latest(list)
  BY DEF Synced, Unknown
<1>2. \A i \in Old : own(i) \in threads /\ own(i).urn = list[i].urn
  BY DEF Unknown, RowsOf
<1>3. /\ \A i \in Old : oldRow(i).urn = list[i].urn /\ oldRow(i).key = own(i).key
      /\ \A i \in Unknown(list) : newRow(i).urn = list[i].urn /\ newRow(i).key = NewKey(list, i)
  BY DEF ThreadRow
<1>4. \A t \in threads, i \in Unknown(list) : t.urn # list[i].urn
  BY DEF Unknown, RowsOf
<1>5. /\ \A i, j \in Latest(list) : list[i].urn = list[j].urn => i = j
      /\ \A i \in DOMAIN list : \E j \in Latest(list) : list[j].urn = list[i].urn
  BY LatestOfEach
<1>6. /\ \A r, o \in threads : r.urn = o.urn \/ r.key = o.key => r = o
      /\ inbox.last \in Nat /\ \A t \in threads : t.key \in 1..inbox.last
  BY DEF ThreadInv, RowsAreKeyed
<1>7. /\ \A i \in Unknown(list), t \in threads : NewKey(list, i) # t.key
      /\ \A i, j \in Unknown(list) : NewKey(list, i) = NewKey(list, j) => i = j
  BY <1>6, NewKeys
<1>8. Kept \subseteq threads /\ \A t \in Kept, i \in Latest(list) : list[i].urn # t.urn
  OBVIOUS
<1>9. \A t \in threads : t \in Kept \/ \E i \in Old : own(i) = t
  <2> SUFFICES ASSUME NEW t \in threads, NEW i \in Latest(list), list[i].urn = t.urn
               PROVE  \E j \in Old : own(j) = t
    OBVIOUS
  <2>1. i \in Old
    BY <1>4
  <2> HIDE DEF own, Old
  <2>2. QED
    BY <1>2, <1>6, <2>1
<1> HIDE DEF own, Kept, Old, oldRow, newRow
<1>10. \A t \in threads : \E n \in Synced(list) : n.urn = t.urn /\ n.key = t.key
  BY <1>1, <1>2, <1>3, <1>9
<1>11. \A n \in Synced(list) :
         \/ \E t \in threads : n.urn = t.urn /\ n.key = t.key
         \/ \E i \in Unknown(list) : n.key = NewKey(list, i) /\ n.urn = list[i].urn
  BY <1>1, <1>2, <1>3, <1>8
<1>12. \A i \in DOMAIN list : \E n \in Synced(list) : n.urn = list[i].urn
  <2>1. \A i \in Latest(list) : \E n \in Synced(list) : n.urn = list[i].urn
    BY <1>1, <1>3 DEF Old
  <2>2. QED
    BY <1>5, <2>1
<1>13. Old \subseteq Latest(list) /\ Unknown(list) \subseteq Latest(list)
  BY <1>1 DEF Old
<1>14. ASSUME NEW n \in Synced(list), NEW m \in Synced(list), n.urn = m.urn \/ n.key = m.key
       PROVE  n = m
  <2>1. CASE n \in Kept /\ m \in Kept
    BY <1>6, <1>8, <1>14, <2>1
  <2>2. ASSUME NEW i \in Old, NEW t \in Kept PROVE oldRow(i).urn # t.urn /\ oldRow(i).key # t.key
    BY <1>2, <1>3, <1>6, <1>8, <1>13
  <2>3. ASSUME NEW i \in Unknown(list), NEW t \in Kept
        PROVE  newRow(i).urn # t.urn /\ newRow(i).key # t.key
    BY <1>3, <1>4, <1>7, <1>8
  <2>4. ASSUME NEW i \in Unknown(list), NEW j \in Old
        PROVE  newRow(i).urn # oldRow(j).urn /\ newRow(i).key # oldRow(j).key
    BY <1>2, <1>3, <1>4, <1>7
  <2>5. ASSUME NEW i \in Old, NEW j \in Old,
               oldRow(i).urn = oldRow(j).urn \/ oldRow(i).key = oldRow(j).key
        PROVE  i = j
    BY <1>2, <1>3, <1>5, <1>6, <1>13, <2>5
  <2>6. ASSUME NEW i \in Unknown(list), NEW j \in Unknown(list),
               newRow(i).urn = newRow(j).urn \/ newRow(i).key = newRow(j).key
        PROVE  i = j
    BY <1>3, <1>5, <1>7, <1>13, <2>6
  <2>7. QED
    BY <1>1, <1>14, <2>1, <2>2, <2>3, <2>4, <2>5, <2>6
<1>15. QED
  BY <1>10, <1>11, <1>12, <1>14

LEMMA SyncKeeps ==
    ASSUME ThreadInv, NEW p \in Cleaners, NEW list \in Syncs, SyncMessages(p, list)
    PROVE  ThreadInv'
<1>1. /\ threads' = Synced(list)
      /\ inbox' = [inbox EXCEPT !.last = @ + Cardinality(Unknown(list)),
                                !.synced = @ \cup {Thread[list[i].urn] : i \in DOMAIN list}]
      /\ cleaning' = [cleaning EXCEPT ![p].at = "sync"]
  BY DEF SyncMessages
<1>2. /\ inbox'.last = inbox.last + Cardinality(Unknown(list)) /\ inbox'.raced = inbox.raced
      /\ inbox'.synced = inbox.synced \cup {Thread[list[i].urn] : i \in DOMAIN list}
      /\ DOMAIN inbox' = InboxFields
  BY <1>1 DEF ThreadInv, InboxFields
<1>3. /\ inbox.last \in Nat /\ inbox'.last \in Nat
      /\ \A i \in Unknown(list) : NewKey(list, i) \in inbox.last + 1..inbox'.last
      /\ inbox.last <= inbox'.last
  <2>1. inbox.last \in Nat
    BY DEF ThreadInv, RowsAreKeyed
  <2>2. /\ inbox'.last \in Nat
        /\ \A i \in Unknown(list) : NewKey(list, i) \in inbox.last + 1..inbox'.last
    BY <1>2, <2>1, NewKeys
  <2>3. Cardinality(Unknown(list)) \in Nat
    <3>1. Unknown(list) \subseteq 1..Len(list) /\ Len(list) \in Nat
      BY LatestOfEach DEF Unknown
    <3>2. IsFiniteSet(1..Len(list))
      BY <3>1, FS_Interval
    <3>3. QED
      BY <3>1, <3>2, FS_Subset, FS_CardinalityType
  <2>4. QED
    BY <1>2, <2>1, <2>2, <2>3
<1>4. RowsAreKeyed'
  <2>1. \A n \in threads' : n.key \in 1..inbox'.last
    <3> SUFFICES ASSUME NEW n \in threads' PROVE n.key \in 1..inbox'.last
      OBVIOUS
    <3>1. CASE \E t \in threads : n.key = t.key
      BY <1>3, <3>1 DEF ThreadInv, RowsAreKeyed
    <3>2. CASE \E i \in Unknown(list) : n.key = NewKey(list, i)
      BY <1>3, <3>2
    <3>3. QED
      BY <1>1, <3>1, <3>2, SyncedRows
  <2>2. QED
    BY <1>1, <1>3, <2>1, SyncedRows DEF RowsAreKeyed
<1>5. /\ DOMAIN cleaning' = Cleaners /\ \A q \in Cleaners : DOMAIN cleaning'[q] = CleaningFields
      /\ cleaning'[p].at = "sync" /\ \A q \in Cleaners \ {p} : cleaning'[q] = cleaning[q]
  BY <1>1 DEF ThreadInv, CleaningFields
<1>6. ASSUME NEW q \in Cleaners PROVE SparesOne(q)'
  <2> SUFFICES ASSUME q # p, cleaning[q].at \in {"delete", "inbox delete"} PROVE SparesOne(q)'
    BY <1>5 DEF SparesOne
  <2>1. SparesOne(q) /\ cleaning'[q] = cleaning[q]
    BY <1>5 DEF ThreadInv
  <2>2. cleaning[q].doomed \subseteq 1..inbox'.last
    <3>1. cleaning[q].doomed \subseteq 1..inbox.last
      BY <2>1 DEF SparesOne
    <3>2. 1..inbox.last \subseteq 1..inbox'.last
      <4>1. inbox.last \in Nat /\ inbox'.last \in Nat /\ inbox.last <= inbox'.last
        BY <1>3
      <4>2. QED
        BY <4>1, LaterKeys
    <3>3. QED
      BY <3>1, <3>2
  <2>3. ASSUME ~ cleaning[q].late, NEW n \in threads'
        PROVE  \E o \in threads' :
                 Thread[o.urn] = Thread[n.urn] /\ o.key \notin cleaning[q].doomed
    <3>1. CASE \E t \in threads : n.urn = t.urn
      <4>1. PICK t \in threads : n.urn = t.urn
        BY <3>1
      <4>2. PICK o \in threads : Thread[o.urn] = Thread[t.urn] /\ o.key \notin cleaning[q].doomed
        BY <2>1, <2>3 DEF SparesOne
      <4>3. PICK o2 \in threads' : o2.urn = o.urn /\ o2.key = o.key
        BY <1>1, SyncedRows
      <4>4. QED
        BY <4>1, <4>2, <4>3
    <3>2. CASE \E i \in Unknown(list) : n.key = NewKey(list, i)
      <4>1. n.key \notin 1..inbox.last
        <5>1. PICK i \in Unknown(list) : n.key = NewKey(list, i)
          BY <3>2
        <5>2. NewKey(list, i) \in inbox.last + 1..inbox'.last
          BY <1>3
        <5>3. inbox.last \in Nat /\ inbox'.last \in Nat
          BY <1>3
        <5>4. QED
          BY <5>1, <5>2, <5>3, LaterKeys
      <4>2. n.key \notin cleaning[q].doomed
        BY <2>1, <4>1 DEF SparesOne
      <4>3. QED
        BY <4>2
    <3>3. \/ \E t \in threads : n.urn = t.urn
          \/ \E i \in Unknown(list) : n.key = NewKey(list, i)
      <4>1. n \in Synced(list)
        BY <1>1, <2>3
      <4>2. \A m \in Synced(list) :
              \/ \E t \in threads : m.urn = t.urn /\ m.key = t.key
              \/ \E i \in Unknown(list) : m.key = NewKey(list, i) /\ m.urn = list[i].urn
        BY SyncedRows
      <4>3. QED
        BY <4>1, <4>2
    <3>4. QED
      BY <3>1, <3>2, <3>3
  <2>4. QED
    BY <2>1, <2>2, <2>3 DEF SparesOne
<1>7. ThreadLostNeedsOverlap'
  <2> SUFFICES ASSUME NEW t \in inbox'.synced PROVE Rows(t)' # {} \/ t \in inbox'.raced
    BY DEF ThreadLostNeedsOverlap
  <2>1. CASE t \in inbox.synced
    <3>1. CASE Rows(t) # {}
      <4>1. PICK r \in threads : Thread[r.urn] = t
        BY <3>1 DEF Rows
      <4>2. PICK n \in threads' : n.urn = r.urn
        BY <1>1, SyncedRows
      <4>3. n \in Rows(t)'
        BY <4>1, <4>2 DEF Rows
      <4>4. QED
        BY <4>3
    <3>2. QED
      BY <1>2, <2>1, <3>1 DEF ThreadInv, ThreadLostNeedsOverlap
  <2>2. CASE \E i \in DOMAIN list : t = Thread[list[i].urn]
    <3>1. PICK i \in DOMAIN list : t = Thread[list[i].urn]
      BY <2>2
    <3>2. PICK n \in threads' : n.urn = list[i].urn
      BY <1>1, SyncedRows
    <3>3. n \in Rows(t)'
      BY <3>1, <3>2 DEF Rows
    <3>4. QED
      BY <3>3
  <2>3. QED
    BY <1>2, <2>1, <2>2
<1>8. QED
  BY <1>2, <1>4, <1>5, <1>6, <1>7 DEF ThreadInv

LEMMA ReadKeeps ==
    ASSUME ThreadInv, NEW p \in Cleaners, ReadThreads(p)
    PROVE  ThreadInv'
<1>1. UNCHANGED <<threads, inbox>>
  BY DEF ReadThreads
<1>2. RowsAreKeyed' /\ ThreadLostNeedsOverlap' /\ DOMAIN inbox' = InboxFields
  BY <1>1 DEF ThreadInv, RowsAreKeyed, ThreadLostNeedsOverlap, Rows
<1>3. /\ DOMAIN cleaning' = Cleaners /\ DOMAIN cleaning'[p] = CleaningFields
      /\ \A q \in Cleaners \ {p} : cleaning'[q] = cleaning[q]
  BY DEF ReadThreads, ThreadInv, CleaningFields
<1>4. SparesOne(p)'
  <2>1. CASE cleaning' = [cleaning EXCEPT ![p].at = "idle"]
    <3>1. cleaning'[p].at = "idle"
      BY <2>1 DEF ThreadInv, CleaningFields
    <3>2. QED
      BY <3>1 DEF SparesOne
  <2>2. ASSUME NEW doomed \in Removable,
               cleaning' = [cleaning EXCEPT
                 ![p] = [at |-> IF @.at = "inbox" THEN "inbox delete" ELSE "delete",
                         doomed |-> {r.key : r \in doomed}, late |-> FALSE]]
        PROVE  SparesOne(p)'
    <3>1. cleaning'[p].doomed = {r.key : r \in doomed}
      BY <2>2 DEF ThreadInv
    <3>2. PICK keep \in SUBSET threads :
            /\ doomed = threads \ keep
            /\ \A t \in {Thread[r.urn] : r \in threads} : \E r \in Rows(t) : keep \cap Rows(t) = {r}
      BY DEF Removable
    <3>3. cleaning'[p].doomed \subseteq 1..inbox.last
      BY <3>1, <3>2 DEF ThreadInv, RowsAreKeyed
    <3>4. ASSUME NEW r \in threads
          PROVE  \E o \in threads : Thread[o.urn] = Thread[r.urn] /\ o.key \notin cleaning'[p].doomed
      <4>1. PICK o \in Rows(Thread[r.urn]) : keep \cap Rows(Thread[r.urn]) = {o}
        BY <3>2
      <4>2. o \in threads /\ Thread[o.urn] = Thread[r.urn] /\ o \notin doomed
        BY <3>2, <4>1 DEF Rows
      <4>3. \A d \in doomed : d.key # o.key
        BY <3>2, <4>2 DEF ThreadInv, RowsAreKeyed
      <4>4. QED
        BY <3>1, <4>2, <4>3
    <3>5. QED
      BY <1>1, <3>3, <3>4 DEF SparesOne
  <2>3. QED
    BY <2>1, <2>2 DEF ReadThreads
<1>5. \A q \in Cleaners : SparesOne(q)'
  BY <1>1, <1>3, <1>4 DEF ThreadInv, SparesOne
<1>6. QED
  BY <1>2, <1>3, <1>5 DEF ThreadInv

LEMMA DeleteKeeps ==
    ASSUME ThreadInv, NEW p \in Cleaners, DeleteThreads(p)
    PROVE  ThreadInv'
<1> DEFINE gone == {r \in threads : r.key \in cleaning[p].doomed}
<1>1. /\ cleaning[p].at \in {"delete", "inbox delete"}
      /\ threads' = threads \ gone
      /\ inbox' = [inbox EXCEPT
           !.done = @ \/ cleaning[p].at = "inbox delete",
           !.raced = @ \cup (IF cleaning[p].late THEN {Thread[r.urn] : r \in gone} ELSE {})]
      /\ cleaning' = [q \in Cleaners |->
           IF q = p THEN [at |-> "idle", doomed |-> {}, late |-> FALSE]
           ELSE [cleaning[q] EXCEPT !.late = @ \/ gone # {}]]
  BY DEF DeleteThreads
<1>2. /\ inbox'.last = inbox.last /\ inbox'.synced = inbox.synced /\ DOMAIN inbox' = InboxFields
      /\ inbox'.raced = inbox.raced \cup
                        (IF cleaning[p].late THEN {Thread[r.urn] : r \in gone} ELSE {})
  BY <1>1 DEF ThreadInv, InboxFields
<1>3. /\ DOMAIN cleaning' = Cleaners /\ \A q \in Cleaners : DOMAIN cleaning'[q] = CleaningFields
      /\ cleaning'[p].at = "idle"
      /\ \A q \in Cleaners \ {p} : /\ cleaning'[q].at = cleaning[q].at
                                   /\ cleaning'[q].doomed = cleaning[q].doomed
                                   /\ cleaning'[q].late = (cleaning[q].late \/ gone # {})
  BY <1>1 DEF ThreadInv, CleaningFields
<1>4. RowsAreKeyed'
  BY <1>1, <1>2 DEF ThreadInv, RowsAreKeyed
<1>5. ASSUME NEW q \in Cleaners PROVE SparesOne(q)'
  <2>1. CASE q = p
    BY <1>3, <2>1 DEF SparesOne
  <2>2. CASE q # p
    <3>1. SparesOne(q)
      BY DEF ThreadInv
    <3>2. gone = {} => threads' = threads
      BY <1>1
    <3> HIDE DEF gone
    <3>3. QED
      BY <1>2, <1>3, <2>2, <3>1, <3>2 DEF SparesOne
  <2>3. QED
    BY <2>1, <2>2
<1>6. ThreadLostNeedsOverlap'
  <2> SUFFICES ASSUME NEW t \in inbox.synced, t \notin inbox'.raced PROVE Rows(t)' # {}
    BY <1>2 DEF ThreadLostNeedsOverlap
  <2>1. PICK r \in threads : Thread[r.urn] = t
    BY <1>2 DEF ThreadInv, ThreadLostNeedsOverlap, Rows
  <2>2. CASE r \notin gone
    <3>1. r \in Rows(t)'
      BY <1>1, <2>1, <2>2 DEF Rows
    <3>2. QED
      BY <3>1
  <2>3. CASE r \in gone
    <3>1. ~ cleaning[p].late
      BY <1>2, <2>1, <2>3
    <3>2. PICK o \in threads : Thread[o.urn] = t /\ o.key \notin cleaning[p].doomed
      BY <1>1, <2>1, <3>1 DEF ThreadInv, SparesOne
    <3>3. o \in Rows(t)'
      BY <1>1, <3>2 DEF Rows
    <3>4. QED
      BY <3>3
  <2>4. QED
    BY <2>2, <2>3
<1>7. QED
  BY <1>2, <1>3, <1>4, <1>5, <1>6 DEF ThreadInv

LEMMA ThreadStep == ThreadInv /\ [InboxNext]_inboxVars => ThreadInv'
<1> SUFFICES ASSUME ThreadInv, [InboxNext]_inboxVars PROVE ThreadInv'
  OBVIOUS
<1>1. CASE UNCHANGED inboxVars
  BY <1>1 DEF inboxVars, ThreadInv, RowsAreKeyed, SparesOne, ThreadLostNeedsOverlap, Rows
<1>2. ASSUME NEW p \in Cleaners, StartCleanup(p) PROVE ThreadInv'
  <2>1. UNCHANGED <<threads, inbox>>
    BY <1>2 DEF StartCleanup
  <2>2. PICK why \in {"asked", "inbox"} : cleaning' = [cleaning EXCEPT ![p].at = why]
    BY <1>2 DEF StartCleanup
  <2>3. /\ DOMAIN cleaning' = Cleaners /\ \A q \in Cleaners : DOMAIN cleaning'[q] = CleaningFields
        /\ cleaning'[p].at = why /\ \A q \in Cleaners \ {p} : cleaning'[q] = cleaning[q]
    BY <2>2 DEF ThreadInv, CleaningFields
  <2>4. \A q \in Cleaners : SparesOne(q)'
    BY <2>1, <2>3 DEF ThreadInv, SparesOne
  <2>5. QED
    BY <2>1, <2>3, <2>4 DEF ThreadInv, RowsAreKeyed, ThreadLostNeedsOverlap, Rows
<1>3. CASE RestartApi
  <2>1. /\ UNCHANGED threads /\ inbox' = [inbox EXCEPT !.done = FALSE]
        /\ cleaning' = [q \in Cleaners |-> [at |-> "idle", doomed |-> {}, late |-> FALSE]]
    BY <1>3 DEF RestartApi
  <2>2. /\ inbox'.last = inbox.last /\ inbox'.synced = inbox.synced
        /\ inbox'.raced = inbox.raced /\ DOMAIN inbox' = InboxFields
    BY <2>1 DEF ThreadInv, InboxFields
  <2>3. /\ DOMAIN cleaning' = Cleaners
        /\ \A q \in Cleaners : DOMAIN cleaning'[q] = CleaningFields /\ cleaning'[q].at = "idle"
    BY <2>1 DEF CleaningFields
  <2>4. QED
    BY <2>1, <2>2, <2>3
       DEF ThreadInv, RowsAreKeyed, SparesOne, ThreadLostNeedsOverlap, Rows
<1>4. QED
  BY <1>1, <1>2, <1>3, SyncKeeps, ReadKeeps, DeleteKeeps DEF InboxNext

\* A synced thread keeps a row unless two clean-ups overlapped: for any syncs, any
\* number of clean-ups and restarts, and whatever the rows say.
THEOREM ThreadsNeedOverlapToGo == InboxSpec => []ThreadLostNeedsOverlap
<1>1. ThreadInv => ThreadLostNeedsOverlap
  BY DEF ThreadInv
<1>2. QED
  BY <1>1, ThreadInitInv, ThreadStep, PTL DEF InboxSpec

-----------------------------------------------------------------------------
(* Who is discovered.                                                      *)

\* A list without its type.
Listed(s) == \E S : s \in Seq(S)

\* Its places are the numbers up to its length.
LEMMA ListedIs ==
    ASSUME NEW s, Listed(s)
    PROVE  Len(s) \in Nat /\ DOMAIN s = 1..Len(s) /\ IsFiniteSet(DOMAIN s)
<1>1. Len(s) \in Nat /\ DOMAIN s = 1..Len(s)
  BY DEF Listed
<1>2. QED
  BY <1>1, FS_Interval

\* Two lists in a row.
LEMMA ListedTogether ==
    ASSUME NEW s, NEW t, Listed(s), Listed(t)
    PROVE  /\ Listed(s \o t) /\ Len(s \o t) = Len(s) + Len(t)
           /\ \A i \in 1..Len(s) : (s \o t)[i] = s[i]
           /\ \A i \in Len(s) + 1..Len(s) + Len(t) : (s \o t)[i] = t[i - Len(s)]
<1>1. PICK S : s \in Seq(S)
  BY DEF Listed
<1>2. PICK T : t \in Seq(T)
  BY DEF Listed
<1>3. s \in Seq(S \cup T) /\ t \in Seq(S \cup T)
  BY <1>1, <1>2
<1>4. s \o t \in Seq(S \cup T)
  BY <1>3
<1>5. QED
  BY <1>3, <1>4 DEF Listed

\* What is at each of so many places is a list.
LEMMA TakenIsListed ==
    ASSUME NEW list, NEW order, NEW n \in Nat, DOMAIN order = 1..n
    PROVE  Listed(Taken(list, order))
<1> DEFINE S == {list[order[k]] : k \in 1..n}
<1>1. Taken(list, order) = [k \in 1..n |-> list[order[k]]]
  BY DEF Taken
<1>2. [k \in 1..n |-> list[order[k]]] \in Seq(S)
  OBVIOUS
<1>3. QED
  BY <1>1, <1>2 DEF Listed

\* An import adds finitely many connections.
LEMMA ImportsKeepFinite ==
    ASSUME IsFiniteSet(conns), NEW batch \in Imports, ImportConnections(batch)
    PROVE  IsFiniteSet(conns')
<1> DEFINE kept == KeptOf(batch)
           stay == {c \in conns : \A e \in kept : e.id # c.id}
           new == {Upsert(e) : e \in kept}
           stored == IF \E e \in kept : e.company \in TooLong THEN conns ELSE stay \cup new
<1>1. IsFiniteSet(kept)
  <2> DEFINE at == {i \in DOMAIN batch :
                      /\ batch[i].id # "none"
                      /\ \A j \in i + 1..Len(batch) : batch[j].id # batch[i].id}
             f == [i \in at |-> batch[i]]
  <2>1. IsFiniteSet(at)
    <3>1. Len(batch) \in Nat /\ DOMAIN batch = 1..Len(batch)
      BY ImportsAssumption
    <3>2. at \in SUBSET (1..Len(batch))
      BY <3>1
    <3> HIDE DEF at
    <3>3. QED
      BY <3>1, <3>2, FiniteBelow
  <2>2. kept = {batch[i] : i \in at}
    BY DEF KeptOf
  <2> HIDE DEF at, kept
  <2>3. DOMAIN f = at /\ kept = {f[i] : i \in DOMAIN f}
    BY <2>2
  <2> HIDE DEF f
  <2>4. QED
    BY <2>1, <2>3, FiniteImage
<1>2. IsFiniteSet(new)
  <2> DEFINE f == [e \in kept |-> Upsert(e)]
  <2> HIDE DEF kept
  <2>1. DOMAIN f = kept /\ new = {f[e] : e \in DOMAIN f}
    OBVIOUS
  <2> HIDE DEF f, new
  <2>2. QED
    BY <1>1, <2>1, FiniteImage
<1>3. IsFiniteSet(stay)
  BY FS_Subset
<1>4. IsFiniteSet(stored)
  <2> HIDE DEF stay, new, kept
  <2>1. QED
    BY <1>2, <1>3, FS_Union
<1>5. conns' = AutoMatch(stored)
  BY DEF ImportConnections
<1> HIDE DEF stored
<1>6. IsFiniteSet(AutoMatch(stored))
  <2> DEFINE apps(c) == {i \in DOMAIN Applications : <<Applications[i], c.company>> \in Within}
             f == [c \in stored |->
                     IF c.app = 0 /\ c.company # "" /\ apps(c) # {}
                     THEN [c EXCEPT !.app = Min(apps(c))] ELSE c]
  <2>1. DOMAIN f = stored /\ AutoMatch(stored) = {f[c] : c \in DOMAIN f}
    BY DEF AutoMatch
  <2> HIDE DEF f
  <2>2. QED
    BY <1>4, <2>1, FiniteImage
<1>7. QED
  BY <1>5, <1>6

\* The network of a company is made of lists.
LEMMA NetworkIsListed ==
    ASSUME IsFiniteSet(conns), NEW company, NEW role, NEW b \in {"direct", "recruiter", "visited"}
    PROVE  Listed(Network(company, role)[b])
<1>1. Network(company, role)[b] = << >> \/ Network(company, role)[b] = Members(company, role, b)
  BY DEF Network
<1>2. Listed(<< >>)
  BY DEF Listed
<1>3. Listed(Members(company, role, b))
  <2> DEFINE rows == SetToSeq(conns)
             here == {i \in DOMAIN rows : MatchesCompany(rows[i], company) /\ Bucket(rows[i]) = b}
             worth(i) == Worth(rows[i], role, b)
             order == InOrder(here, LAMBDA i, j : \/ worth(i) > worth(j)
                                                  \/ worth(i) = worth(j) /\ i < j)
  <2>1. Members(company, role, b) = Taken(rows, order)
    BY DEF Members
  <2>2. IsFiniteSet(here)
    <3>1. Listed(rows)
      BY ListOfSet DEF Listed
    <3>2. IsFiniteSet(DOMAIN rows)
      <4> HIDE DEF rows
      <4>1. QED
        BY <3>1, ListedIs
    <3>3. QED
      BY <3>2, FS_Subset
  <2>3. Cardinality(here) \in Nat
    BY <2>2, FS_CardinalityType
  <2>4. DOMAIN order = 1..Cardinality(here)
    BY DEF InOrder
  <2> HIDE DEF rows, here, order
  <2>5. QED
    BY <2>1, <2>3, <2>4, TakenIsListed
<1>4. QED
  BY <1>1, <1>2, <1>3

\* The fallback is a list, and what is in it was not scored.
LEMMA FallbackIsListed ==
    ASSUME NEW pool, NEW targets, Listed(pool)
    PROVE  LET more == Fallback(Unlisted(pool, targets)) IN
           Listed(more) /\ \A i \in DOMAIN more : more[i].parts = << >>
<1> DEFINE new == {i \in DOMAIN pool : \A j \in DOMAIN targets :
                     <<targets[j].name, targets[j].url>> # <<pool[i].name, pool[i].url>>}
           order == InOrder(new, LAMBDA i, j : i < j)
           people == Unlisted(pool, targets)
<1>1. IsFiniteSet(new)
  BY ListedIs, FS_Subset
<1>2. Cardinality(new) \in Nat
  BY <1>1, FS_CardinalityType
<1>3. people = Taken(pool, order) /\ DOMAIN order = 1..Cardinality(new)
  BY DEF Unlisted, InOrder
<1> HIDE DEF new, order, people
<1>4. Listed(people)
  BY <1>2, <1>3, TakenIsListed
<1> DEFINE more == Fallback(people)
           S == {more[i] : i \in DOMAIN people}
<1>5. DOMAIN more = DOMAIN people /\ \A i \in DOMAIN more : more[i].parts = << >>
  BY DEF Fallback
<1>6. more \in [DOMAIN people -> S]
  BY DEF Fallback
<1> HIDE DEF more, S
<1>7. more \in Seq(S)
  BY <1>4, <1>6, ListedIs
<1>8. QED
  BY <1>5, <1>7 DEF Listed, more, people

\* Topping up leaves who was found where they were, and adds who was not scored.
LEMMA TopUpKeeps ==
    ASSUME NEW f, NEW n, Listed(f), Listed(n["direct"]), Listed(n["recruiter"]),
           Listed(n["visited"]), NEW i \in DOMAIN TopUp(f, n)
    PROVE  /\ i \in Int
           /\ (i \in DOMAIN f /\ TopUp(f, n)[i] = f[i]) \/ TopUp(f, n)[i].parts = << >>
<1> DEFINE pool == n["direct"] \o n["recruiter"] \o n["visited"]
           more == Fallback(Unlisted(pool, f))
           all == f \o more
           k == Min({5, Len(all)})
<1>1. Listed(pool)
  <2> DEFINE both == n["direct"] \o n["recruiter"]
  <2>1. Listed(both)
    BY ListedTogether
  <2> HIDE DEF both
  <2>2. Listed(both \o n["visited"])
    BY <2>1, ListedTogether
  <2>3. QED
    BY <2>2 DEF both
<1>2. Listed(more) /\ \A j \in DOMAIN more : more[j].parts = << >>
  <2> HIDE DEF pool
  <2>1. QED
    BY <1>1, FallbackIsListed
<1>3. CASE Len(f) >= 3
  <2>1. TopUp(f, n) = f
    BY <1>3 DEF TopUp
  <2>2. QED
    BY <2>1, ListedIs
<1>4. CASE ~ (Len(f) >= 3)
  <2>1. TopUp(f, n) = SubSeq(all, 1, k)
    BY <1>4 DEF TopUp, FirstFive
  <2> HIDE DEF more
  <2>2. /\ Listed(all) /\ Len(all) = Len(f) + Len(more)
        /\ \A j \in 1..Len(f) : all[j] = f[j]
        /\ \A j \in Len(f) + 1..Len(f) + Len(more) : all[j] = more[j - Len(f)]
    BY <1>2, ListedTogether
  <2>3. /\ Len(all) \in Nat /\ DOMAIN all = 1..Len(all)
        /\ Len(f) \in Nat /\ DOMAIN f = 1..Len(f)
        /\ Len(more) \in Nat /\ DOMAIN more = 1..Len(more)
    BY <1>2, <2>2, ListedIs
  <2> HIDE DEF all
  <2>4. k \in Nat /\ k <= Len(all)
    BY <2>3, SmallerOfTwo
  <2> HIDE DEF k
  <2>5. i \in 1..k /\ TopUp(f, n)[i] = all[i]
    <3>1. PICK S : all \in Seq(S)
      BY <2>2 DEF Listed
    <3>2. /\ SubSeq(all, 1, k) \in Seq(S) /\ Len(SubSeq(all, 1, k)) = k
          /\ \A j \in 1..k : SubSeq(all, 1, k)[j] = all[j]
      BY <2>3, <2>4, <3>1
    <3>3. QED
      BY <2>1, <3>2
  <2>6. CASE i <= Len(f)
    BY <2>2, <2>3, <2>4, <2>5, <2>6
  <2>7. CASE ~ (i <= Len(f))
    <3>1. i \in Len(f) + 1..Len(f) + Len(more) /\ i - Len(f) \in DOMAIN more
      BY <2>2, <2>3, <2>4, <2>5, <2>7
    <3>2. QED
      BY <1>2, <2>2, <2>5, <3>1
  <2>8. QED
    BY <2>6, <2>7
<1>5. QED
  BY <1>3, <1>4

\* What a scored profile is.
PartsOK(k) ==
  /\ k.company \in Int /\ k.recruiter \in Int /\ k.hiring \in Int
  /\ k.role \in Int /\ k.seniority \in 0..400 /\ k.region \in Int
ScoredOK(k) == PartsOK(k.parts) /\ k.degree \in {"1st", "2nd", "none"}

\* So many places.
LEMMA IntervalSize ==
    ASSUME NEW n \in Nat
    PROVE  Cardinality(1..n) = n
BY FS_Interval

\* No title counts more than a hundred.
LEMMA SeniorityIs == \A title : DetectSeniority(title) \in 0..100
BY DEF DetectSeniority

\* What a profile scores is in these bounds.
LEMMA ComponentsOK ==
    ASSUME NEW p, NEW company, NEW role
    PROVE  PartsOK(Components(p, company, role))
<1>1. CompanyScore(p, company) \in Int /\ RoleScore(p, role) \in Int
  BY DEF CompanyScore, RoleScore
<1>2. DetectSeniority(p.title) \in 0..100
  BY SeniorityIs
<1>3. 4 * DetectSeniority(p.title) \in 0..400
  BY <1>2
<1>4. QED
  BY <1>1, <1>3 DEF PartsOK, Components

\* A list of profiles is scored to a list of scored ones.
LEMMA ScoredIs ==
    ASSUME NEW raw, Listed(raw), NEW company, NEW role
    PROVE  LET s == Scored(raw, company, role) IN
           Listed(s) /\ \A i \in DOMAIN s : ScoredOK(s[i])
<1> DEFINE ok == {i \in DOMAIN raw : /\ Accepted(raw[i], company) /\ raw[i].name # ""
                                     /\ \A j \in 1..i - 1 : raw[j].url # raw[i].url}
           order == InOrder(ok, LAMBDA i, j : i < j)
           of(p) == [who |-> p, degree |-> Degree(p), parts |-> Components(p, company, role)]
           s == Scored(raw, company, role)
           S == {of(p) : p \in {raw[order[n]] : n \in DOMAIN order}}
<1>1. IsFiniteSet(ok)
  BY ListedIs, FS_Subset
<1>2. Cardinality(ok) \in Nat
  BY <1>1, FS_CardinalityType
<1>3. s = [n \in DOMAIN order |-> of(raw[order[n]])] /\ DOMAIN order = 1..Cardinality(ok)
  BY DEF Scored, InOrder
<1>4. \A p : ScoredOK(of(p))
  BY ComponentsOK DEF ScoredOK, Degree
<1> HIDE DEF ok, order, of, s
<1>5. s \in [1..Cardinality(ok) -> S]
  BY <1>3
<1>6. \A x \in S : ScoredOK(x)
  BY <1>4
<1> HIDE DEF S
<1>7. s \in Seq(S)
  BY <1>2, <1>5
<1>8. QED
  BY <1>6, <1>7 DEF Listed, s

\* The degree adds its bonus to the rest.
LEMMA ScoresAre ==
    ASSUME NEW k, ScoredOK(k)
    PROVE  /\ Base(k) \in Int /\ Score(k) \in Int
           /\ k.degree = "1st" => Score(k) = Base(k) + 500
           /\ k.degree = "none" => Score(k) = Base(k)
           /\ Base(k) = k.parts.company + k.parts.recruiter + k.parts.hiring + k.parts.role
                        + k.parts.seniority + k.parts.region
<1> DEFINE p == k.parts
<1>1. Base(k) = p.company + p.recruiter + p.hiring + p.role + p.seniority + p.region
  BY DEF Base, Total
<1>2. /\ p.company \in Int /\ p.recruiter \in Int /\ p.hiring \in Int
      /\ p.role \in Int /\ p.seniority \in 0..400 /\ p.region \in Int
  <2>1. PartsOK(p)
    BY DEF ScoredOK
  <2> HIDE DEF p
  <2>2. QED
    BY <2>1, Zenon DEF PartsOK
<1>3. Base(k) \in Int
  BY <1>1, <1>2
<1>4. DegreeBonus(k.degree) \in Int
  BY DEF DegreeBonus
<1>5. Score(k) = Base(k) + DegreeBonus(k.degree)
  BY DEF Score
<1>6. /\ k.degree = "1st" => DegreeBonus(k.degree) = 500
      /\ k.degree = "none" => DegreeBonus(k.degree) = 0
  BY DEF DegreeBonus
<1>7. QED
  BY <1>1, <1>3, <1>4, <1>5, <1>6

\* The listing has the scored profiles, and of two of them the one with the higher
\* score comes first.
LEMMA OverlaidByScore ==
    ASSUME NEW l, Listed(l), \A k \in DOMAIN l : ScoredOK(l[k]),
           NEW i \in DOMAIN Overlaid(l), NEW j \in DOMAIN Overlaid(l)
    PROVE  \E m, n \in DOMAIN l :
             /\ Overlaid(l)[i].parts = l[m].parts /\ Overlaid(l)[i].degree = l[m].degree
             /\ Overlaid(l)[j].parts = l[n].parts /\ Overlaid(l)[j].degree = l[n].degree
             /\ Score(l[n]) > Score(l[m]) => j < i
<1> DEFINE D == DOMAIN l
           at == InOrder(D, LAMBDA m, n : Leads(l, m, n))
           R == {p \in D \X D : Leads(l, p[1], p[2])}
           top == Min({5, Len(l)})
<1>1. D \subseteq Int /\ IsFiniteSet(D) /\ Len(l) \in Nat /\ D = 1..Len(l)
  BY ListedIs
<1>2. \A m, n \in D : <<m, n>> \in R <=> Leads(l, m, n)
  OBVIOUS
<1>3. \A n \in D : Score(l[n]) \in Int /\ Base(l[n]) \in Int
  BY ScoresAre
<1>4. Overlaid(l) = [n \in 1..top |->
         LET k == l[at[n]]
         IN  [name |-> k.who.name, url |-> k.who.url, degree |-> k.degree,
              message |-> Message(k.degree), parts |-> k.parts]]
  BY DEF Overlaid
<1>5. at = [n \in 1..Cardinality(D) |-> CHOOSE a \in D :
              Cardinality({b \in D : b = a \/ Leads(l, b, a)}) = n]
  BY DEF InOrder
<1> HIDE DEF D, R, at
<1>6. TotalOrder(R, D)
  <2> DEFINE score(n) == Score(l[n])  base(n) == Base(l[n])
  <2>0. \A m, n \in D : Leads(l, m, n) <=>
          \/ score(m) > score(n)
          \/ score(m) = score(n) /\ base(m) > base(n)
          \/ score(m) = score(n) /\ base(m) = base(n) /\ m < n
    BY Zenon DEF Leads
  <2>a. \A n \in D : score(n) \in Int /\ base(n) \in Int /\ n \in Int
    BY <1>1, <1>3
  <2> HIDE DEF score, base
  <2>1. ASSUME NEW m \in D, NEW n \in D, m # n
        PROVE  Leads(l, m, n) \/ Leads(l, n, m)
    BY <2>0, <2>a, <2>1
  <2>2. ASSUME NEW n \in D PROVE ~ Leads(l, n, n)
    BY <2>0, <2>a
  <2>3. ASSUME NEW a \in D, NEW b \in D, NEW c \in D, Leads(l, a, b), Leads(l, b, c)
        PROVE  Leads(l, a, c)
    BY <2>0, <2>a, <2>3
  <2>4. QED
    BY <1>2, <2>1, <2>2, <2>3 DEF TotalOrder
<1>7. \A a \in D : {b \in D : b = a \/ Leads(l, b, a)} = UpTo(D, R, a)
  BY <1>2 DEF UpTo
<1>8. \A n \in 1..Cardinality(D) : at[n] \in D /\ Cardinality(UpTo(D, R, at[n])) = n
  <2> SUFFICES ASSUME NEW n \in 1..Cardinality(D)
               PROVE  at[n] \in D /\ Cardinality(UpTo(D, R, at[n])) = n
    OBVIOUS
  <2>1. PICK a \in D : Cardinality({b \in D : b = a \/ Leads(l, b, a)}) = n
    <3>1. PICK a \in D : Cardinality(UpTo(D, R, a)) = n
      BY <1>1, <1>6, EachPlaceIsTaken
    <3>2. QED
      BY <1>7, <3>1
  <2>2. at[n] \in D /\ Cardinality({b \in D : b = at[n] \/ Leads(l, b, at[n])}) = n
    BY <1>5, <2>1
  <2>3. QED
    BY <1>7, <2>2
<1>9. at \in [1..Cardinality(D) -> D]
  BY <1>5, <1>8
<1>10. Lists(at, D, R)
  BY <1>1, <1>6, <1>8, <1>9, RankedLists
<1>11. Cardinality(D) = Len(l)
  <2>1. Cardinality(1..Len(l)) = Len(l)
    BY <1>1, IntervalSize
  <2>2. QED
    BY <1>1, <2>1
<1>12. top \in Nat /\ top <= Len(l)
  BY <1>1, SmallerOfTwo
<1> HIDE DEF top
<1>13. /\ i \in 1..top /\ j \in 1..top
       /\ Overlaid(l)[i].parts = l[at[i]].parts /\ Overlaid(l)[i].degree = l[at[i]].degree
       /\ Overlaid(l)[j].parts = l[at[j]].parts /\ Overlaid(l)[j].degree = l[at[j]].degree
  BY <1>4
<1>14. /\ i \in 1..Cardinality(D) /\ j \in 1..Cardinality(D)
       /\ at[i] \in D /\ at[j] \in D /\ i \in Int /\ j \in Int
  BY <1>1, <1>9, <1>11, <1>12, <1>13
<1>15. ASSUME Score(l[at[j]]) > Score(l[at[i]]) PROVE j < i
  <2>1. ~ Leads(l, at[i], at[j]) /\ i # j
    BY <1>3, <1>14, <1>15 DEF Leads
  <2>2. ~ (i < j)
    BY <1>2, <1>10, <1>14, <2>1 DEF Lists
  <2>3. QED
    BY <1>14, <2>1, <2>2
<1>16. at[i] \in DOMAIN l /\ at[j] \in DOMAIN l
  BY <1>14 DEF D
<1>17. QED
  BY <1>13, <1>15, <1>16

\* One who should stand before another.
Ahead(b, a) ==
  /\ a.degree = "none" /\ b.degree = "1st"
  /\ \A k \in {"company", "recruiter", "hiring", "region"} : a.parts[k] = b.parts[k]
  /\ \/ a.parts.role = b.parts.role
     \/ a.parts.seniority = b.parts.seniority /\ a.parts.role - b.parts.role <= 300

\* The bonus is more than what the other is ahead by.
LEMMA AheadScoresMore ==
    ASSUME NEW a, NEW b, ScoredOK(a), ScoredOK(b), Ahead(b, a)
    PROVE  Score(b) > Score(a)
<1> DEFINE p == a.parts  q == b.parts
<1>1. /\ Score(a) = p.company + p.recruiter + p.hiring + p.role + p.seniority + p.region
      /\ Score(b) = q.company + q.recruiter + q.hiring + q.role + q.seniority + q.region + 500
  BY ScoresAre DEF Ahead
<1>2. /\ p.company = q.company /\ p.recruiter = q.recruiter
      /\ p.hiring = q.hiring /\ p.region = q.region
  BY DEF Ahead
<1>3. /\ p.role = q.role \/ (p.seniority = q.seniority /\ p.role - q.role <= 300)
  BY DEF Ahead
<1>4. /\ p.company \in Int /\ p.recruiter \in Int /\ p.hiring \in Int /\ p.region \in Int
      /\ p.role \in Int /\ q.role \in Int /\ p.seniority \in 0..400 /\ q.seniority \in 0..400
  <2>1. PartsOK(p) /\ PartsOK(q)
    BY DEF ScoredOK
  <2> HIDE DEF p, q
  <2>2. QED
    BY <2>1, Zenon DEF PartsOK
<1> HIDE DEF p, q
<1> DEFINE pr == p.role  ps == p.seniority  qr == q.role  qs == q.seniority
<1>5. /\ pr = qr \/ (ps = qs /\ pr - qr <= 300)
      /\ pr \in Int /\ qr \in Int /\ ps \in 0..400 /\ qs \in 0..400
  BY <1>3, <1>4
<1> DEFINE c == p.company + p.recruiter + p.hiring  d == p.region
<1>6. c \in Int /\ d \in Int /\ Score(a) = c + pr + ps + d /\ Score(b) = c + qr + qs + d + 500
  BY <1>1, <1>2, <1>4
<1> HIDE DEF pr, ps, qr, qs, c, d
<1>7. QED
  BY <1>5, <1>6

\* With finitely many connections every list of them is one.
DiscoverInv == IsFiniteSet(conns) /\ FirstDegreeLeads

\* Every answer is in this order.
LEMMA FindKeeps ==
    ASSUME DiscoverInv, NEW p \in Askers, NEW q \in Queries, FindWayIn(p, q)
    PROVE  FirstDegreeLeads'
<1>1. PICK company, paths : \E raw \in Discover(company) :
        answer' = Answer(company, paths, Network(company, q.role),
                         Overlaid(Scored(raw, company, q.role)))
  BY Zenon DEF FindWayIn
<1>2. PICK raw \in Discover(company) :
        answer' = Answer(company, paths, Network(company, q.role),
                         Overlaid(Scored(raw, company, q.role)))
  BY <1>1
<1> DEFINE l == Scored(raw, company, q.role)
           f == Overlaid(l)
           n == Network(company, q.role)
<1>3. answer'.targets = TopUp(f, n)
  BY <1>2 DEF Answer
<1>4. Listed(raw)
  <2>1. Listed(<< >>)
    BY DEF Listed
  <2>2. \A x \in Found : Listed(x)
    BY FoundAssumption DEF Listed
  <2>3. QED
    BY <2>1, <2>2 DEF Discover
<1>5. Listed(l) /\ \A k \in DOMAIN l : ScoredOK(l[k])
  BY <1>4, ScoredIs
<1>6. Listed(n["direct"]) /\ Listed(n["recruiter"]) /\ Listed(n["visited"])
  BY NetworkIsListed DEF DiscoverInv
<1> HIDE DEF l, n
<1>7. Listed(f)
  <2> DEFINE S == {f[k] : k \in DOMAIN f}
  <2>1. Len(l) \in Nat
    BY <1>5, ListedIs
  <2> DEFINE top == Min({5, Len(l)})
  <2>2. top \in Nat
    BY <2>1, SmallerOfTwo
  <2>3. DOMAIN f = 1..top /\ f = [k \in DOMAIN f |-> f[k]]
    BY DEF Overlaid
  <2> HIDE DEF f, top
  <2>4. f \in [1..top -> S]
    BY <2>3
  <2> HIDE DEF S
  <2>a. f \in Seq(S)
    BY <2>2, <2>4
  <2>5. QED
    BY <2>a DEF Listed
<1> SUFFICES ASSUME NEW i \in DOMAIN answer'.targets, NEW j \in DOMAIN answer'.targets,
                    answer'.targets[i].parts # << >>, answer'.targets[j].parts # << >>,
                    Ahead(answer'.targets[j], answer'.targets[i])
             PROVE  j < i
  BY Zenon DEF FirstDegreeLeads, Ahead
<1>8. /\ i \in DOMAIN f /\ answer'.targets[i] = f[i]
      /\ j \in DOMAIN f /\ answer'.targets[j] = f[j]
  <2> HIDE DEF f
  <2>1. QED
    BY <1>3, <1>6, <1>7, TopUpKeeps
<1>9. PICK x \in DOMAIN l, y \in DOMAIN l :
        /\ f[i].parts = l[x].parts /\ f[i].degree = l[x].degree
        /\ f[j].parts = l[y].parts /\ f[j].degree = l[y].degree
        /\ Score(l[y]) > Score(l[x]) => j < i
  BY <1>5, <1>8, OverlaidByScore
<1>10. Ahead(l[y], l[x])
  BY <1>8, <1>9, Zenon DEF Ahead
<1>11. QED
  BY <1>5, <1>9, <1>10, AheadScoresMore

\* At first there is no answer.
LEMMA DiscoverInitInv == NetworkInit /\ WayInInit => DiscoverInv
<1> SUFFICES ASSUME NetworkInit, WayInInit PROVE DiscoverInv
  OBVIOUS
<1>1. conns = {} /\ answer.targets = << >>
  BY DEF NetworkInit, WayInInit, NoAnswer
<1>2. IsFiniteSet(conns)
  BY <1>1, FS_EmptySet
<1>3. DOMAIN answer.targets = {}
  BY <1>1
<1>4. FirstDegreeLeads
  BY <1>3 DEF FirstDegreeLeads
<1>5. QED
  BY <1>2, <1>4 DEF DiscoverInv

\* Only an answer changes the people shown.
LEMMA DiscoverStep == DiscoverInv /\ [WayInNext]_<<peopleVars, wayInVars>> => DiscoverInv'
<1> SUFFICES ASSUME DiscoverInv, [WayInNext]_<<peopleVars, wayInVars>> PROVE DiscoverInv'
  OBVIOUS
<1>1. UNCHANGED answer => FirstDegreeLeads'
  BY DEF DiscoverInv, FirstDegreeLeads
<1>2. UNCHANGED conns => IsFiniteSet(conns')
  BY DEF DiscoverInv
<1>3. CASE IntroNext /\ UNCHANGED peopleVars
  <2>1. UNCHANGED answer
    BY <1>3 DEF IntroNext, BeginRequestIntro, CommitRequestIntro, BeginIdentify, Identify,
                CommitIdentify, UpdateIntroStatus
  <2>2. QED
    BY <1>1, <1>2, <1>3, <2>1 DEF DiscoverInv, peopleVars
<1>4. ASSUME NEW p \in Askers, NEW q \in Queries, FindWayIn(p, q), UNCHANGED peopleVars
      PROVE  DiscoverInv'
  BY <1>2, <1>4, FindKeeps DEF DiscoverInv, peopleVars
<1>5. CASE PeopleNext /\ UNCHANGED wayInVars
  <2>1. UNCHANGED answer
    BY <1>5 DEF wayInVars
  <2>2. ASSUME NEW batch \in Imports, ImportConnections(batch) \/ ImportCsv(batch)
        PROVE  IsFiniteSet(conns')
    BY <2>2, ImportsKeepFinite DEF DiscoverInv, ImportCsv
  <2>3. IsFiniteSet(conns')
    BY <1>2, <1>5, <2>2 DEF PeopleNext
  <2>4. QED
    BY <1>1, <2>1, <2>3 DEF DiscoverInv
<1>6. CASE UNCHANGED <<peopleVars, wayInVars>>
  BY <1>1, <1>2, <1>6 DEF DiscoverInv, peopleVars, wayInVars
<1>7. QED
  BY <1>3, <1>4, <1>5, <1>6 DEF WayInNext

\* A connection stands before a stranger who beats it by the function or by the
\* seniority alone: whatever is imported, scraped and found.
THEOREM ConnectionsLead == WayInSpec => []FirstDegreeLeads
<1>1. DiscoverInv => FirstDegreeLeads
  BY DEF DiscoverInv
<1>2. QED
  BY <1>1, DiscoverInitInv, DiscoverStep, PTL DEF WayInSpec
=============================================================================
