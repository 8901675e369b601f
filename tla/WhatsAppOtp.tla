----------------------------- MODULE WhatsAppOtp ------------------------------
(* Verification of a WhatsApp number by a code (services/whatsapp and       *)
(* api/routes/whatsapp.py) for one user: the keys in Redis belong to the    *)
(* user, the number that waits for its code is a column of the users row.   *)
EXTENDS Naturals, Sequences

CONSTANTS Numbers,          \* the numbers the user types
          NoNumber,         \* no number
          MaxVerifyAttempts,  \* MAX_VERIFY_ATTEMPTS
          MaxConfirmAttempts, \* MAX_CONFIRM_ATTEMPTS
          MaxCodes          \* bound: codes generated

VARIABLES wa,       \* the row: number, verified, alert mode
          redis,    \* otp (0: no key), rate, attempts of the user
          sending,  \* the verify request in flight
          confirming, \* the confirm request in flight
          codes,    \* the number each generated code went to
          proven,   \* history: the number whose code was confirmed last
          blurred   \* history: requests overlapped, or a failed send arrived

otpVars == <<wa, redis, sending, confirming, codes, proven, blurred>>

Row == [number : Numbers \cup {NoNumber}, verified : BOOLEAN, mode : {"OFF", "CASUAL"}]

OtpInit ==
  /\ wa = [number |-> NoNumber, verified |-> FALSE, mode |-> "OFF"]
  /\ redis = [otp |-> 0, rate |-> 0, attempts |-> 0]
  /\ sending = [pc |-> "idle", number |-> NoNumber, verified |-> FALSE]
  /\ confirming = [pc |-> "idle", number |-> NoNumber]
  /\ codes = <<>> /\ proven = NoNumber /\ blurred = FALSE

InFlight == sending.pc # "idle" \/ confirming.pc # "idle"

\* POST /verify, send_code: the limit is read, the hash stored, the limit
\* raised and the attempts reset; then Twilio is called.
SendCode(n) ==
  /\ sending.pc = "idle" /\ Len(codes) < MaxCodes
  /\ redis.rate < MaxVerifyAttempts
  /\ codes' = Append(codes, n)
  /\ redis' = [otp |-> Len(codes) + 1, rate |-> redis.rate + 1, attempts |-> 0]
  /\ sending' = [pc |-> "twilio", number |-> n, verified |-> wa.verified]
  /\ blurred' = (blurred \/ InFlight)
  /\ UNCHANGED <<wa, confirming, proven>>

\* send_message answers, or raises: VerificationError, the number is not kept,
\* and nobody knows whether the message went out.
SendMessage ==
  /\ sending.pc = "twilio"
  /\ \/ sending' = [sending EXCEPT !.pc = "sent"] /\ UNCHANGED blurred
     \/ sending' = [sending EXCEPT !.pc = "idle"] /\ blurred' = TRUE
  /\ UNCHANGED <<wa, redis, confirming, codes, proven>>

\* Mistake: the number is changed and the flag of the old one kept.
PersistNumberOnly ==
  /\ sending.pc = "sent"
  /\ wa' = [wa EXCEPT !.number = sending.number]
  /\ sending' = [sending EXCEPT !.pc = "idle"]
  /\ UNCHANGED <<redis, confirming, codes, proven, blurred>>

\* The number that waits, unverified; the flag is written if the request had
\* read it set.
PersistNumber ==
  /\ sending.pc = "sent"
  /\ wa' = [wa EXCEPT !.number = sending.number,
                      !.verified = IF sending.verified THEN FALSE ELSE @]
  /\ sending' = [sending EXCEPT !.pc = "idle"]
  /\ UNCHANGED <<redis, confirming, codes, proven, blurred>>

\* POST /confirm with the number that waits and the code that was received last.
\* Too many attempts delete the code; a wrong one counts; a match deletes both.
ConfirmCode(code) ==
  /\ confirming.pc = "idle" /\ wa.number # NoNumber
  /\ code \in 0..Len(codes)
  /\ blurred' = (blurred \/ InFlight)
  /\ \/ /\ redis.attempts >= MaxConfirmAttempts
        /\ redis' = [redis EXCEPT !.otp = 0]
        /\ UNCHANGED <<confirming, proven>>
     \/ /\ redis.attempts < MaxConfirmAttempts /\ redis.otp # 0 /\ code # redis.otp
        /\ redis' = [redis EXCEPT !.attempts = @ + 1]
        /\ UNCHANGED <<confirming, proven>>
     \/ /\ redis.attempts < MaxConfirmAttempts /\ redis.otp # 0 /\ code = redis.otp
        /\ redis' = [redis EXCEPT !.otp = 0, !.attempts = 0]
        /\ confirming' = [pc |-> "matched", number |-> wa.number]
        /\ proven' = codes[code]
  /\ UNCHANGED <<wa, sending, codes>>

\* The flag and the default alert mode are committed.
MarkVerified ==
  /\ confirming.pc = "matched"
  /\ wa' = [wa EXCEPT !.verified = TRUE, !.mode = "CASUAL"]
  /\ confirming' = [confirming EXCEPT !.pc = "idle"]
  /\ UNCHANGED <<redis, sending, codes, proven, blurred>>

\* setex and expire: each key goes when its time is up.
KeyExpires ==
  /\ \E k \in DOMAIN redis : redis[k] # 0 /\ redis' = [redis EXCEPT ![k] = 0]
  /\ UNCHANGED <<wa, sending, confirming, codes, proven, blurred>>

OtpNext ==
  \/ \E n \in Numbers : SendCode(n)
  \/ SendMessage \/ PersistNumber
  \/ \E c \in 0..MaxCodes : ConfirmCode(c)
  \/ MarkVerified \/ KeyExpires

OtpSpec == OtpInit /\ [][OtpNext]_otpVars

-----------------------------------------------------------------------------
OtpTypeOK ==
  /\ wa \in Row
  /\ redis \in [otp : 0..MaxCodes, rate : 0..MaxVerifyAttempts,
                attempts : 0..MaxConfirmAttempts]
  /\ sending \in [pc : {"idle", "twilio", "sent"}, number : Numbers \cup {NoNumber},
                  verified : BOOLEAN]
  /\ confirming \in [pc : {"idle", "matched"}, number : Numbers \cup {NoNumber}]
  /\ proven \in Numbers \cup {NoNumber} /\ blurred \in BOOLEAN
  /\ codes \in Seq(Numbers)

\* The number that is marked verified is the one the confirmed code went to,
\* through any sequence of changed numbers, wrong codes and expired keys: unless
\* two requests of the user overlapped or a send that failed had got through
\* (routes/whatsapp.py:117-126, 139-157; verification.py:60-132).
VerifiedGotTheCode ==
  wa.verified => blurred \/ wa.number = proven
=============================================================================
