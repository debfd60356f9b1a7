-------------------------- MODULE SearchTermsProofs ---------------------------
(***************************************************************************)
(* Proofs about the way of a search term: SearchTermsPipeline, for any number  *)
(* of terms, any kinds of them and any sizes of batches and queues, and the    *)
(* worker that takes up what Merino published instead, FleeceQueueWorker, for  *)
(* any messages, streams, deliveries and failures.                           *)
(***************************************************************************)
EXTENDS SearchTermsPipeline, FleeceQueueWorker, SequenceTheorems, TLAPS

(* The terms are put in the order 1, 2, ... and handed over in that order.     *)
Numbered(s) == s \in Seq(Term) /\ \A i \in 1..Len(s) : s[i] = i

(* Merino's queue and its callback agree on whether a batch is being processed,*)
(* and only a consumer that is active has one.                               *)
QueueInv ==
    /\ Numbered(mAccepted) /\ Numbered(mHanded) /\ Len(mHanded) <= Len(mAccepted)
    /\ mBusy \in 0..Len(mHanded)
    /\ fAccepted \in Seq(Term) /\ network \subseteq Seq(Term)
    /\ submit \in {"none", "post", "publish", "done"}
    /\ answer \in {"none", "created", "unavailable"}
    /\ submit = "none" <=> mBusy = 0
    /\ submit # "none" => mConsumer = "active"
    /\ submit # "post" => answer = "none"

(* The terms of the batch that Merino is submitting, those that merino-fleece  *)
(* has or may still receive, and those that were backed up or given up, or may *)
(* still be backed up by a publish that outlived its task.                    *)
Current == Elements(Submission)

Sent == Elements(fAccepted) \cup UNION {Elements(batch) : batch \in network}

Elsewhere == backup \cup failed \cup late

(* RejectedIsNotQueued, for what is on its way too, and what it needs: while a *)
(* submission may still be rejected, nothing of it is queued, and one that was *)
(* rejected is not on its way any more.                                      *)
SentOnce ==
    /\ Sent \cup Elsewhere \subseteq 1..Len(mHanded)
    /\ Sent \cap Elsewhere \subseteq gaveUp
    /\ \A batch \in network : batch = Submission \/ Elements(batch) \cap Current = {}
    /\ submit = "post" /\ Submission \in network =>
           answer = "none" /\ Current \cap Elements(fAccepted) = {}
    /\ answer = "unavailable" => Current \cap Sent = {}
    /\ submit = "publish" => Current \subseteq gaveUp \/ Current \cap Sent = {}

(* NothingSilentlyDropped, and what becomes of the current batch before it is *)
(* settled.                                                                  *)
Known == Elements(fAccepted) \cup backup \cup filtered \cup failed

Accounted ==
    /\ NothingSilentlyDropped
    /\ answer = "created" => Current \subseteq Elements(fAccepted)
    /\ submit = "publish" => Current \ Publishing \subseteq filtered
    /\ submit = "done" => Current \subseteq Known

(* Only terms that may be logged are cleared, and only terms without an at     *)
(* sign wait for the detector.                                               *)
ClearedInv ==
    /\ OnlyClearedIsLogged
    /\ cleared \cap (Email \cup Person) \subseteq wasExempt
    /\ candidates \cap Email = {}

(* Each service is up as long as its consumer is active.                     *)
UpInv ==
    /\ clients \in BOOLEAN /\ (~clients => Drained)
    /\ sanitize # "none" => fConsumer = "active"
    /\ fleece = "down" => QueueEnded /\ ~inPool

IndInv == QueueInv /\ SentOnce /\ Accounted /\ ClearedInv /\ UpInv

-----------------------------------------------------------------------------
(* What is appended is added to the elements.                                *)
LEMMA ElementsConcat ==
  ASSUME NEW s \in Seq(Term), NEW t \in Seq(Term)
  PROVE  /\ s \o t \in Seq(Term)
         /\ Elements(s \o t) = Elements(s) \cup Elements(t)
<1>1. /\ s \o t \in Seq(Term) /\ Len(s \o t) = Len(s) + Len(t)
      /\ \A i \in 1..Len(s) + Len(t) : (s \o t)[i] = IF i <= Len(s) THEN s[i] ELSE t[i - Len(s)]
  BY ConcatProperties
<1>2. /\ Len(s) \in Nat /\ DOMAIN s = 1..Len(s) /\ Len(t) \in Nat /\ DOMAIN t = 1..Len(t)
      /\ DOMAIN (s \o t) = 1..Len(s) + Len(t)
  BY <1>1, LenProperties
<1>3. \A i \in 1..Len(s) : i \in 1..Len(s) + Len(t) /\ (s \o t)[i] = s[i]
  BY <1>1, <1>2
<1>4. \A i \in 1..Len(t) : Len(s) + i \in 1..Len(s) + Len(t) /\ (s \o t)[Len(s) + i] = t[i]
  BY <1>1, <1>2
<1>5. \A i \in 1..Len(s) + Len(t) : i \notin 1..Len(s) => i - Len(s) \in 1..Len(t) /\ (s \o t)[i] = t[i - Len(s)]
  BY <1>1, <1>2
<1>6. \A x \in Elements(s \o t) : x \in Elements(s) \cup Elements(t)
  BY <1>2, <1>3, <1>5 DEF Elements
<1>7. \A x \in Elements(s) \cup Elements(t) : x \in Elements(s \o t)
  BY <1>2, <1>3, <1>4 DEF Elements
<1> QED BY <1>1, <1>6, <1>7

(* The last batch of a numbered sequence, and what precedes it.              *)
LEMMA NumberedBatch ==
  ASSUME NEW h, Numbered(h), NEW n \in 0..Len(h)
  PROVE  /\ LastBatch(h, n) \in Seq(Term) /\ Len(LastBatch(h, n)) = n
         /\ Elements(LastBatch(h, n)) = (Len(h) - n + 1)..Len(h)
         /\ Elements(SubSeq(h, 1, Len(h) - n)) = 1..(Len(h) - n)
         /\ Len(h) \in Nat
<1> DEFINE b == LastBatch(h, n)
           a == SubSeq(h, 1, Len(h) - n)
<1>1. h \in Seq(Term) /\ Len(h) \in Nat /\ \A i \in 1..Len(h) : h[i] = i /\ i \in Term
  BY LenProperties, ElementOfSeq DEF Numbered
<1>2. /\ b \in Seq(Term) /\ Len(b) = n
      /\ \A i \in 1..n : b[i] = h[Len(h) - n + i]
  <2>1. \A i \in Len(h) - n + 1..Len(h) : h[i] \in Term
    BY <1>1
  <2> DEFINE m == Len(h) - n + 1
  <2>2. m \in Int /\ Len(h) \in Int /\ Len(h) - m + 1 = n /\ (m <= Len(h) \/ n = 0)
    BY <1>1
  <2> HIDE DEF m
  <2>3. SubSeq(h, m, Len(h)) \in Seq(Term) /\ Len(SubSeq(h, m, Len(h))) = n
        /\ \A i \in 1..n : SubSeq(h, m, Len(h))[i] = h[m + i - 1]
    BY <2>1, <2>2, SubSeqProperties DEF m
  <2> QED BY <1>1, <2>3 DEF m, LastBatch
<1>3. /\ a \in Seq(Term) /\ Len(a) = Len(h) - n
      /\ \A i \in 1..Len(h) - n : a[i] = h[i]
  <2> DEFINE m == Len(h) - n
  <2>1. m \in Nat /\ m <= Len(h) /\ \A i \in 1..m : h[i] \in Term
    BY <1>1
  <2> HIDE DEF m
  <2>2. SubSeq(h, 1, m) \in Seq(Term) /\ Len(SubSeq(h, 1, m)) = m
        /\ \A i \in 1..m : SubSeq(h, 1, m)[i] = h[i]
    BY <2>1, SubSeqProperties, 1 \in Int
  <2> QED BY <2>2 DEF m
<1> HIDE DEF a, b
<1>4. DOMAIN b = 1..n /\ DOMAIN a = 1..Len(h) - n
  BY <1>2, <1>3, LenProperties
<1>5. Elements(b) = (Len(h) - n + 1)..Len(h)
  <2>1. \A i \in 1..n : b[i] = Len(h) - n + i
    BY <1>1, <1>2
  <2>2. \A x \in (Len(h) - n + 1)..Len(h) : x - (Len(h) - n) \in 1..n /\ b[x - (Len(h) - n)] = x
    BY <1>1, <2>1
  <2>3. \A i \in 1..n : Len(h) - n + i \in (Len(h) - n + 1)..Len(h)
    BY <1>1
  <2>4. Elements(b) = {b[i] : i \in 1..n}
    BY <1>4 DEF Elements
  <2> QED BY <2>1, <2>2, <2>3, <2>4
<1>6. Elements(a) = 1..(Len(h) - n)
  BY <1>1, <1>3, <1>4 DEF Elements
<1> QED BY <1>1, <1>2, <1>5, <1>6 DEF a, b

(* The batch being submitted and what was settled, in numbers.               *)
LEMMA BatchInNumbers ==
  ASSUME QueueInv
  PROVE  /\ Len(mHanded) \in Nat /\ mBusy \in Nat /\ mBusy <= Len(mHanded)
         /\ Submission \in Seq(Term) /\ Len(Submission) = mBusy
         /\ Current = (Len(mHanded) - mBusy + 1)..Len(mHanded)
         /\ Elements(Settled) = 1..(Len(mHanded) - mBusy)
<1>1. Len(mHanded) \in Nat /\ mBusy \in Nat /\ mBusy <= Len(mHanded)
  BY LenProperties DEF QueueInv, Numbered
<1> QED BY <1>1, NumberedBatch DEF QueueInv, Current, Submission, Settled

(* The same of the next state.                                               *)
LEMMA BatchInNumbersPrime ==
  ASSUME QueueInv'
  PROVE  /\ Len(mHanded') \in Nat /\ mBusy' \in Nat /\ mBusy' <= Len(mHanded')
         /\ Submission' \in Seq(Term) /\ Len(Submission') = mBusy'
         /\ Current' = (Len(mHanded') - mBusy' + 1)..Len(mHanded')
         /\ Elements(Settled') = 1..(Len(mHanded') - mBusy')
<1>1. Numbered(mHanded') /\ mBusy' \in 0..Len(mHanded')
  BY DEF QueueInv, Numbered
<1>2. Len(mHanded') \in Nat /\ mBusy' \in Nat /\ mBusy' <= Len(mHanded')
  BY <1>1, LenProperties DEF Numbered
<1> QED BY <1>1, <1>2, NumberedBatch DEF Current, Submission, Settled

(* Nothing has been put.                                                     *)
LEMMA InitInv == Init => IndInv
<1> SUFFICES ASSUME Init PROVE IndInv
  OBVIOUS
<1>1. QueueInv
  BY EmptySeq DEF Init, QueueInv, Numbered
<1>2. Current = {} /\ Elements(Settled) = {} /\ Elements(fAccepted) = {}
  BY <1>1, BatchInNumbers DEF Init, Elements
<1>3. SentOnce /\ Accounted
  BY <1>2 DEF Init, SentOnce, Sent, Elsewhere, Accounted, NothingSilentlyDropped
<1>4. ClearedInv /\ UpInv
  BY DEF Init, ClearedInv, OnlyClearedIsLogged, UpInv
<1> QED BY <1>1, <1>3, <1>4 DEF IndInv

(* What concerns the submission is as it was.                                *)
LEMMA SubmissionUnchanged ==
  ASSUME QueueInv, SentOnce, Accounted,
         UNCHANGED <<mAccepted, mHanded, mBusy, mConsumer, fAccepted, submitVars, network>>
  PROVE  QueueInv' /\ SentOnce' /\ Accounted'
<1> USE DEF submitVars, sinkVars
<1>1. QueueInv'
  BY DEF QueueInv
<1>2. Current' = Current /\ Sent' = Sent /\ Elsewhere' = Elsewhere /\ Known' = Known
      /\ Settled' = Settled /\ Submission' = Submission /\ Publishing' = Publishing
  BY DEF Current, Sent, Elsewhere, Known, Settled, Submission, Publishing
<1> QED BY <1>1, <1>2 DEF SentOnce, Accounted, NothingSilentlyDropped, Known

(* What concerns the sanitization is as it was.                              *)
LEMMA SanitizationUnchanged ==
  ASSUME ClearedInv, UNCHANGED sanitizeVars
  PROVE  ClearedInv'
BY DEF ClearedInv, OnlyClearedIsLogged, sanitizeVars

(* What concerns the two lifespans is as it was.                             *)
LEMMA UpUnchanged ==
  ASSUME UpInv, UNCHANGED <<clients, sanitize, fConsumer, inPool, fleece>>,
         Drained => Drained'
  PROVE  UpInv'
BY DEF UpInv, QueueEnded

(* Merino posts the next batch.                                              *)
LEMMA PostInv ==
  ASSUME QueueInv, SentOnce, Accounted, submit \in {"none", "done"},
         mConsumer = "active", mConsumer' = "active", mAccepted' = mAccepted,
         NEW n \in Nat \ {0}, n <= MerinoQueue!Waiting, mBusy' = n,
         mHanded' = SubSeq(mAccepted, 1, Len(mHanded) + n),
         Post, UNCHANGED <<fAccepted, sinkVars>>
  PROVE  QueueInv' /\ SentOnce' /\ Accounted'
<1> DEFINE h == Len(mHanded)
<1>1. h \in Nat /\ Len(mAccepted) \in Nat /\ h + n <= Len(mAccepted) /\ mBusy \in Nat
  BY BatchInNumbers, LenProperties DEF QueueInv, Numbered, MerinoQueue!Waiting
<1>2. Numbered(mHanded') /\ Len(mHanded') = h + n
  <2> DEFINE m == h + n
  <2>1. m \in 1..Len(mAccepted) /\ m \in Int /\ 1 \in Int /\ \A i \in 1..m : i \in 1..Len(mAccepted)
    BY <1>1
  <2>2. \A i \in 1..m : mAccepted[i] = i /\ i \in Term
    BY <2>1, ElementOfSeq DEF QueueInv, Numbered
  <2> HIDE DEF m
  <2>3. SubSeq(mAccepted, 1, m) \in Seq(Term) /\ Len(SubSeq(mAccepted, 1, m)) = m
        /\ \A i \in 1..m : SubSeq(mAccepted, 1, m)[i] = mAccepted[i]
    BY <2>1, <2>2, SubSeqProperties
  <2> QED BY <2>2, <2>3 DEF m, Numbered
<1>3. submit' = "post" /\ answer' = "none" /\ network' = network \cup {Submission'}
  BY DEF Post, Submission
<1>4. Submission' \in Seq(Term)
  <2>1. mBusy' \in 0..Len(mHanded')
    BY <1>1, <1>2
  <2> QED BY <1>2, <2>1, NumberedBatch DEF Submission
<1>5. QueueInv'
  <2>1. mBusy' \in 0..Len(mHanded') /\ Len(mHanded') <= Len(mAccepted')
    BY <1>1, <1>2
  <2> QED BY <1>2, <1>3, <1>4, <2>1 DEF QueueInv
<1>6. Current' = (h + 1)..(h + n) /\ Elements(Settled') = 1..h
  BY <1>1, <1>2, <1>5, BatchInNumbersPrime
<1>7. Sent' = Sent \cup Current' /\ Elsewhere' = Elsewhere
  BY <1>3 DEF Sent, Elsewhere, Current, sinkVars
<1>8. /\ Sent \cup Elsewhere \subseteq 1..h /\ Sent \cap Elsewhere \subseteq gaveUp
      /\ \A b \in network : Elements(b) \subseteq 1..h
      /\ Elements(fAccepted) \subseteq 1..h
  BY DEF SentOnce, Sent
<1>9. SentOnce'
  <2>1. Current' \cap 1..h = {} /\ 1..h \subseteq 1..(h + n) /\ Current' \subseteq 1..(h + n)
    BY <1>1, <1>6
  <2>2. (Sent \cup Elsewhere)' \subseteq 1..Len(mHanded') /\ (Sent \cap Elsewhere)' \subseteq gaveUp'
    BY <1>2, <1>7, <1>8, <2>1 DEF sinkVars
  <2>3. \A b \in network' : b = Submission' \/ Elements(b) \cap Current' = {}
    BY <1>3, <1>8, <2>1
  <2> QED BY <1>3, <1>8, <2>1, <2>2, <2>3 DEF SentOnce
<1>10. Accounted'
  <2>1. 1..h \subseteq Elements(Settled) \cup Current /\ (submit = "none" => 1..h = Elements(Settled))
    BY <1>1, BatchInNumbers DEF QueueInv
  <2>2. Known' = Known
    BY DEF Known, sinkVars
  <2> QED BY <1>3, <1>6, <2>1, <2>2 DEF Accounted, NothingSilentlyDropped, Known
<1> QED BY <1>5, <1>9, <1>10

(* Merino's queue hands over a batch.                                        *)
LEMMA MerinoHandsInv ==
  ASSUME IndInv, NEW n \in 1..BatchSize, MerinoHands(n)
  PROVE  IndInv'
<1>1. /\ submit = "none" /\ mConsumer = "active" /\ n <= MerinoQueue!Waiting /\ mBusy' = n
      /\ mHanded' = SubSeq(mAccepted, 1, Len(mHanded) + n) /\ Post
      /\ UNCHANGED <<mAccepted, mConsumer, fAccepted, sinkVars>> /\ n \in Nat \ {0}
  BY DEF MerinoHands, MerinoQueue!Hand, fVars
<1>2. QueueInv' /\ SentOnce' /\ Accounted'
  BY <1>1, PostInv DEF IndInv
<1>3. ClearedInv' /\ UpInv'
  BY <1>1, SanitizationUnchanged, UpUnchanged DEF IndInv, MerinoHands, fVars, sanitizeVars, Drained
<1> QED BY <1>2, <1>3 DEF IndInv

(* A batch of Merino's queue has ended.                                      *)
LEMMA MerinoSettlesInv ==
  ASSUME IndInv, MerinoSettles
  PROVE  IndInv'
<1>1. /\ submit = "done" /\ mBusy > 0 /\ mConsumer = "active" /\ answer = "none"
      /\ UNCHANGED <<pubsub, mAccepted, fVars, sinkVars, clients, sanitizeVars, inPool, fleece>>
  BY DEF MerinoSettles, MerinoQueue!Settle, IndInv, QueueInv
<1>2. ASSUME mBusy' > 0 PROVE QueueInv' /\ SentOnce' /\ Accounted'
  <2>1. PICK n \in 1..BatchSize :
            /\ n <= MerinoQueue!Waiting /\ mBusy' = n /\ mConsumer' = mConsumer
            /\ mHanded' = SubSeq(mAccepted, 1, Len(mHanded) + n)
    BY <1>2 DEF MerinoSettles, MerinoQueue!Settle
  <2>2. Post /\ n \in Nat \ {0}
    BY <1>2 DEF MerinoSettles
  <2>3. mConsumer' = "active" /\ mAccepted' = mAccepted /\ UNCHANGED <<fAccepted, sinkVars>>
    BY <1>1, <2>1 DEF fVars
  <2> QED BY <1>1, <2>1, <2>2, <2>3, PostInv DEF IndInv
<1>3. ASSUME ~(mBusy' > 0) PROVE QueueInv' /\ SentOnce' /\ Accounted'
  <2>1. mBusy' = 0 /\ mHanded' = mHanded /\ submit' = "none" /\ UNCHANGED <<network, answer>>
        /\ mConsumer' \in {"active", "finished"}
    BY <1>1, <1>3 DEF MerinoSettles, MerinoQueue!Settle
  <2>2. QueueInv'
    <3>1. 0 \in 0..Len(mHanded)
      BY BatchInNumbers DEF IndInv
    <3> QED BY <1>1, <2>1, <3>1 DEF IndInv, QueueInv, fVars, Numbered
  <2>3. Current' = {} /\ Elements(Settled') = 1..Len(mHanded)
    BY <2>1, <2>2, BatchInNumbersPrime
  <2>4. Elements(Settled) \cup Current = 1..Len(mHanded)
    BY BatchInNumbers DEF IndInv
  <2>5. Sent' = Sent /\ Elsewhere' = Elsewhere /\ Known' = Known
    BY <1>1, <2>1 DEF Sent, Elsewhere, Known, fVars, sinkVars
  <2>6. SentOnce'
    BY <1>1, <2>1, <2>3, <2>5 DEF IndInv, SentOnce, sinkVars
  <2>7. Accounted'
    <3>1. Elements(Settled) \subseteq Known /\ Current \subseteq Known
      BY <1>1 DEF IndInv, Accounted, NothingSilentlyDropped, Known
    <3>2. Elements(Settled') \subseteq Known' /\ answer' = "none" /\ Current' \subseteq Known'
      BY <1>1, <2>1, <2>3, <2>4, <2>5, <3>1
    <3> QED BY <2>1, <3>2 DEF Accounted, NothingSilentlyDropped, Known
  <2> QED BY <2>2, <2>6, <2>7
<1>4. ClearedInv' /\ UpInv'
  BY <1>1, SanitizationUnchanged, UpUnchanged DEF IndInv, fVars, sanitizeVars, Drained
<1> QED BY <1>2, <1>3, <1>4 DEF IndInv

(* submit() returns, or raises.                                              *)
LEMMA SubmitEndsInv ==
  ASSUME IndInv, Created \/ SubmitRaises
  PROVE  IndInv'
<1>1. /\ submit = "post" /\ submit' \in {"done", "publish"} /\ answer' = "none"
      /\ UNCHANGED <<pubsub, mVars, fVars, backup, late, network, clients, sanitizeVars, inPool, fleece>>
  BY DEF Created, SubmitRaises, sinkVars
<1>2. /\ QueueInv' /\ Submission' = Submission /\ Current' = Current /\ Sent' = Sent
      /\ Settled' = Settled /\ Publishing' = Publishing
  BY <1>1 DEF mVars, fVars, IndInv, QueueInv, Submission, Current, Sent, Settled, Publishing
<1>3. ASSUME Created PROVE SentOnce' /\ Accounted'
  <2>1. Elsewhere' = Elsewhere /\ Known' = Known /\ submit' = "done" /\ gaveUp' = gaveUp
    BY <1>1, <1>3 DEF Created, sinkVars, fVars, Elsewhere, Known
  <2>2. Current \subseteq Known
    BY <1>3 DEF Created, IndInv, Accounted, Known
  <2>3. SentOnce'
    BY <1>1, <1>2, <2>1 DEF mVars, IndInv, SentOnce
  <2>4. Accounted'
    BY <1>1, <1>2, <2>1, <2>2 DEF mVars, IndInv, Accounted, NothingSilentlyDropped, Known
  <2> QED BY <2>3, <2>4
<1>4. ASSUME SubmitRaises PROVE SentOnce' /\ Accounted'
  <2>1. /\ gaveUp' = IF answer = "unavailable" THEN gaveUp ELSE gaveUp \cup Current
        /\ \/ submit' = "publish" /\ failed' = failed /\ filtered' = filtered \cup (Current \ Publishing)
           \/ submit' = "done" /\ failed' = failed /\ filtered' = filtered \cup Current
           \/ submit' = "done" /\ failed' = failed \cup Current /\ filtered' = filtered
    BY <1>4 DEF SubmitRaises, Current, Publishing, Unrescued
  <2>2. Current \subseteq gaveUp' \/ Current \cap Sent = {}
    BY <2>1 DEF IndInv, SentOnce
  <2>3. Current \subseteq 1..Len(mHanded)
    BY BatchInNumbers DEF IndInv
  <2>4. Elsewhere' \in {Elsewhere, Elsewhere \cup Current}
    BY <1>1, <2>1 DEF Elsewhere
  <2>5. SentOnce'
    BY <1>1, <1>2, <2>1, <2>2, <2>3, <2>4 DEF IndInv, SentOnce, mVars
  <2>6. Accounted'
    <3>1. /\ Known \subseteq Known' /\ mConsumer' = mConsumer
          /\ submit' = "done" => Current \subseteq Known'
          /\ submit' = "publish" => Current \ Publishing \subseteq filtered'
      BY <1>1, <2>1 DEF Known, mVars, fVars
    <3> QED BY <1>1, <1>2, <3>1 DEF IndInv, Accounted, NothingSilentlyDropped, Known
  <2> QED BY <2>5, <2>6
<1>5. ClearedInv' /\ UpInv'
  BY <1>1, SanitizationUnchanged, UpUnchanged DEF IndInv, mVars, fVars, sanitizeVars, Drained
<1> QED BY <1>2, <1>3, <1>4, <1>5 DEF IndInv

(* publish() ends.                                                           *)
LEMMA PublishInv ==
  ASSUME IndInv, Publish
  PROVE  IndInv'
<1>1. /\ submit = "publish" /\ submit' = "done"
      /\ UNCHANGED <<pubsub, mVars, fVars, answer, filtered, gaveUp, late, network, clients,
                     sanitizeVars, inPool, fleece>>
  BY DEF Publish
<1>2. QueueInv' /\ Submission' = Submission /\ Current' = Current /\ Sent' = Sent /\ Settled' = Settled
  BY <1>1 DEF mVars, fVars, IndInv, QueueInv, Submission, Current, Sent, Settled
<1>3. /\ backup \subseteq backup' /\ failed \subseteq failed'
      /\ backup' \subseteq backup \cup Current /\ failed' \subseteq failed \cup Current
      /\ Current \subseteq backup' \cup failed' \cup filtered
  <2>1. /\ Publishing \subseteq Current /\ Current \ Publishing \subseteq filtered
    BY <1>1 DEF Publishing, Current, IndInv, Accounted
  <2> QED BY <2>1 DEF Publish, Current, Unrescued
<1>4. SentOnce'
  <2>1. Current \subseteq 1..Len(mHanded)
    BY BatchInNumbers DEF IndInv
  <2> QED BY <1>1, <1>2, <1>3, <2>1 DEF IndInv, SentOnce, Elsewhere, mVars
<1>5. Accounted'
  BY <1>1, <1>2, <1>3 DEF IndInv, QueueInv, Accounted, NothingSilentlyDropped, Known, mVars, fVars
<1>6. ClearedInv' /\ UpInv'
  BY <1>1, SanitizationUnchanged, UpUnchanged DEF IndInv, mVars, fVars, sanitizeVars, Drained
<1> QED BY <1>2, <1>4, <1>5, <1>6 DEF IndInv

(* stop() of Merino ends at its deadline; a publish goes on.                  *)
LEMMA MerinoDeadlineInv ==
  ASSUME IndInv, MerinoDeadline
  PROVE  IndInv'
<1>1. /\ mConsumer' = "abandoned" /\ mBusy' = 0 /\ submit' = "none" /\ answer' = "none"
      /\ UNCHANGED <<mAccepted, mHanded, fVars, backup, filtered, failed, gaveUp, network, clients,
                     sanitizeVars, inPool, fleece>>
  BY DEF MerinoDeadline, MerinoQueue!Abandon
<1>2. QueueInv'
  <2>1. 0 \in 0..Len(mHanded)
    BY BatchInNumbers DEF IndInv
  <2> QED BY <1>1, <2>1 DEF IndInv, QueueInv, fVars, Numbered
<1>3. Current' = {} /\ Sent' = Sent
  BY <1>1, <1>2, BatchInNumbersPrime DEF Sent, fVars
<1>4. late' = {} \/ (submit = "publish" /\ late' \subseteq Current)
  BY DEF MerinoDeadline, Publishing, Current
<1>5. SentOnce'
  <2>1. Current \subseteq 1..Len(mHanded)
    BY BatchInNumbers DEF IndInv
  <2> QED BY <1>1, <1>3, <1>4, <2>1 DEF IndInv, SentOnce, Elsewhere
<1>6. Accounted'
  BY <1>1 DEF Accounted, NothingSilentlyDropped
<1>7. ClearedInv' /\ UpInv'
  BY <1>1, SanitizationUnchanged, UpUnchanged DEF IndInv, fVars, sanitizeVars, Drained
<1> QED BY <1>2, <1>5, <1>6, <1>7 DEF IndInv

(* A publish that outlived its task ends.                                    *)
LEMMA LatePublishInv ==
  ASSUME IndInv, LatePublishEnds
  PROVE  IndInv'
<1>1. /\ backup \subseteq backup' /\ backup' \subseteq backup \cup late /\ late' = {}
      /\ UNCHANGED <<pubsub, mVars, fVars, submit, answer, filtered, failed, gaveUp, network,
                     clients, sanitizeVars, inPool, fleece>>
  BY DEF LatePublishEnds
<1>2. QueueInv' /\ Submission' = Submission /\ Current' = Current /\ Sent' = Sent
      /\ Settled' = Settled /\ Publishing' = Publishing
  BY <1>1 DEF mVars, fVars, IndInv, QueueInv, Submission, Current, Sent, Settled, Publishing
<1>3. Elsewhere' \subseteq Elsewhere /\ Known \subseteq Known'
  BY <1>1 DEF Elsewhere, Known, fVars
<1>4. SentOnce'
  BY <1>1, <1>2, <1>3 DEF IndInv, SentOnce, mVars, fVars
<1>5. Accounted'
  BY <1>1, <1>2, <1>3 DEF IndInv, Accounted, NothingSilentlyDropped, Known, mVars, fVars
<1>6. ClearedInv' /\ UpInv'
  BY <1>1, SanitizationUnchanged, UpUnchanged DEF IndInv, mVars, fVars, sanitizeVars, Drained
<1> QED BY <1>2, <1>4, <1>5, <1>6 DEF IndInv

(* A submission arrives: all of it is queued, or none.                       *)
LEMMA ReceiveInv ==
  ASSUME IndInv, NEW batch \in network, Receive(batch)
  PROVE  IndInv'
<1>1. PICK capacity \in Remaining :
          LET queued == Queued(batch, capacity) IN
          /\ fAccepted' = fAccepted \o queued
          /\ answer' = IF submit = "post" /\ batch = Submission
                       THEN Answer(batch, queued) ELSE answer
  BY DEF Receive
<1> DEFINE queued == Queued(batch, capacity)
<1>2. /\ network' = network \ {batch}
      /\ UNCHANGED <<pubsub, mVars, fConsumer, submit, sinkVars, clients, sanitizeVars, inPool, fleece>>
  BY DEF Receive
<1>3. queued \in {<<>>, batch}
  BY DEF Queued, Fits
<1>4. batch \in Seq(Term) /\ fAccepted \in Seq(Term) /\ queued \in Seq(Term)
  BY <1>3, EmptySeq DEF IndInv, QueueInv
<1>5. Elements(fAccepted') = Elements(fAccepted) \cup Elements(queued) /\ fAccepted' \in Seq(Term)
  BY <1>1, <1>4, ElementsConcat
<1>6. queued = <<>> => Elements(queued) = {}
  BY DEF Elements
<1> HIDE DEF queued
<1>7. answer' = IF submit = "post" /\ batch = Submission
                THEN (IF queued = batch THEN "created" ELSE "unavailable") ELSE answer
  BY <1>1 DEF Answer, queued
<1>8. QueueInv'
  BY <1>2, <1>5, <1>7 DEF IndInv, QueueInv, mVars
<1>9. /\ Submission' = Submission /\ Current' = Current /\ Settled' = Settled /\ Elsewhere' = Elsewhere
      /\ Elements(fAccepted) \subseteq Elements(fAccepted') /\ Sent' \subseteq Sent
      /\ Current = Elements(Submission) /\ Publishing' = Publishing
  BY <1>2, <1>3, <1>5, <1>6 DEF mVars, sinkVars, Submission, Current, Publishing, Settled, Elsewhere, Sent
<1>10. SentOnce'
  <2>1. (Sent \cup Elsewhere)' \subseteq 1..Len(mHanded') /\ (Sent \cap Elsewhere)' \subseteq gaveUp'
    BY <1>2, <1>9 DEF IndInv, SentOnce, mVars, sinkVars
  <2>2. \A b \in network' : b = Submission' \/ Elements(b) \cap Current' = {}
    BY <1>2, <1>9 DEF IndInv, SentOnce
  <2>3. batch # Submission => Elements(queued) \cap Current = {}
    BY <1>3, <1>6 DEF IndInv, SentOnce
  <2>4. submit' = "post" /\ Submission' \in network' =>
            answer' = "none" /\ Current' \cap Elements(fAccepted') = {}
    BY <1>2, <1>5, <1>7, <1>9, <2>3 DEF IndInv, SentOnce
  <2>5. answer' = "unavailable" => Current' \cap Sent' = {}
    <3>1. CASE submit = "post" /\ batch = Submission /\ queued # batch
      <4>1. Elements(fAccepted') = Elements(fAccepted) /\ Current \cap Elements(fAccepted) = {}
        BY <1>3, <1>5, <1>6, <3>1 DEF IndInv, SentOnce
      <4>2. \A b \in network' : Elements(b) \cap Current = {}
        BY <1>2, <2>2, <1>9, <3>1
      <4> QED BY <1>9, <4>1, <4>2 DEF Sent
    <3>2. CASE ~(submit = "post" /\ batch = Submission /\ queued # batch)
      BY <1>7, <1>9, <3>2 DEF IndInv, SentOnce
    <3> QED BY <3>1, <3>2
  <2>6. submit' = "publish" => Current' \subseteq gaveUp' \/ Current' \cap Sent' = {}
    BY <1>2, <1>9 DEF IndInv, SentOnce, sinkVars
  <2> QED BY <2>1, <2>2, <2>4, <2>5, <2>6 DEF SentOnce
<1>11. Accounted'
  <2>1. answer' = "created" => Current' \subseteq Elements(fAccepted')
    BY <1>5, <1>7, <1>9 DEF IndInv, Accounted
  <2>2. Known \subseteq Known' /\ mConsumer' = mConsumer
    BY <1>2, <1>9 DEF Known, mVars, sinkVars
  <2> QED BY <1>2, <1>9, <2>1, <2>2 DEF IndInv, Accounted, NothingSilentlyDropped, Known, sinkVars
<1>12. ClearedInv' /\ UpInv'
  BY <1>2, SanitizationUnchanged, UpUnchanged DEF IndInv, mVars, sanitizeVars, Drained
<1> QED BY <1>8, <1>10, <1>11, <1>12 DEF IndInv

(* The network loses a submission.                                           *)
LEMMA LoseInv ==
  ASSUME IndInv, NEW batch \in network, Lose(batch)
  PROVE  IndInv'
<1>1. /\ network' = network \ {batch}
      /\ UNCHANGED <<mVars, fVars, submitVars, clients, sanitizeVars, inPool, fleece>>
  BY DEF Lose
<1> USE DEF mVars, fVars, submitVars, sinkVars
<1>2. QueueInv'
  BY <1>1 DEF IndInv, QueueInv
<1>3. Submission' = Submission /\ Current' = Current /\ Settled' = Settled /\ Elsewhere' = Elsewhere
      /\ Sent' \subseteq Sent /\ Known' = Known /\ Publishing' = Publishing
  BY <1>1 DEF Submission, Current, Publishing, Settled, Elsewhere, Sent, Known
<1>4. SentOnce'
  BY <1>1, <1>3 DEF IndInv, SentOnce
<1>5. Accounted'
  BY <1>1, <1>3 DEF IndInv, Accounted, NothingSilentlyDropped, Known
<1>6. ClearedInv' /\ UpInv'
  BY <1>1, SanitizationUnchanged, UpUnchanged DEF IndInv, sanitizeVars, Drained
<1> QED BY <1>2, <1>4, <1>5, <1>6 DEF IndInv

(* A term is put, and Merino shuts down.                                     *)
LEMMA MerinoRestInv ==
  ASSUME IndInv, Put \/ MerinoStops \/ MerinoFinishes \/ CloseClients
  PROVE  IndInv'
<1> USE DEF fVars, submitVars, sinkVars
<1>1. CASE Put
  <2>1. mAccepted' = Append(mAccepted, Len(mAccepted) + 1) /\ Len(mAccepted) < Terms
        /\ UNCHANGED <<mHanded, mBusy, mConsumer, fVars, submitVars, network, clients, sanitizeVars, inPool, fleece>>
    BY <1>1 DEF Put, MerinoQueue!Accept
  <2>2. mAccepted \in Seq(Term) /\ Len(mAccepted) \in Nat /\ Len(mAccepted) + 1 \in Term
    BY <2>1, LenProperties, PipelineAssumption DEF PipelineAssumption, IndInv, QueueInv, Numbered, Term
  <2>3. Numbered(mAccepted') /\ Len(mAccepted') = Len(mAccepted) + 1
    BY <2>1, <2>2, AppendProperties DEF IndInv, QueueInv, Numbered
  <2>4. QueueInv'
    BY <2>1, <2>2, <2>3, BatchInNumbers DEF IndInv, QueueInv, Numbered
  <2>5. Current' = Current /\ Sent' = Sent /\ Elsewhere' = Elsewhere /\ Known' = Known
        /\ Settled' = Settled /\ Submission' = Submission /\ Publishing' = Publishing
    BY <2>1 DEF Current, Sent, Elsewhere, Known, Settled, Submission, Publishing
  <2>6. SentOnce' /\ Accounted'
    BY <2>1, <2>5 DEF IndInv, SentOnce, Accounted, NothingSilentlyDropped, Known
  <2>7. ClearedInv' /\ UpInv'
    BY <2>1, SanitizationUnchanged, UpUnchanged DEF IndInv, sanitizeVars, Drained
  <2> QED BY <2>4, <2>6, <2>7 DEF IndInv
<1>2. CASE MerinoStops \/ CloseClients
  <2>1. UNCHANGED <<mAccepted, mHanded, mBusy, mConsumer, fVars, submitVars, network, sanitizeVars, inPool, fleece>>
    BY <1>2 DEF MerinoStops, CloseClients, MerinoQueue!Close, mVars
  <2>2. QueueInv' /\ SentOnce' /\ Accounted'
    BY <2>1, SubmissionUnchanged DEF IndInv
  <2>3. ClearedInv'
    BY <2>1, SanitizationUnchanged DEF IndInv
  <2>4. UpInv'
    BY <1>2, <2>1 DEF IndInv, UpInv, MerinoStops, CloseClients, Drained, QueueEnded, sanitizeVars
  <2> QED BY <2>2, <2>3, <2>4 DEF IndInv
<1>3. CASE MerinoFinishes
  <2>1. /\ submit = "none" /\ mConsumer = "active" /\ mConsumer' = "finished"
        /\ UNCHANGED <<mAccepted, mHanded, mBusy, fVars, submitVars, network, clients, sanitizeVars, inPool, fleece>>
    BY <1>3 DEF MerinoFinishes, MerinoQueue!Finish
  <2>2. QueueInv'
    BY <2>1 DEF IndInv, QueueInv
  <2>3. Current' = Current /\ Sent' = Sent /\ Elsewhere' = Elsewhere /\ Known' = Known
        /\ Settled' = Settled /\ Submission' = Submission /\ Publishing' = Publishing
    BY <2>1 DEF Current, Sent, Elsewhere, Known, Settled, Submission, Publishing
  <2>4. SentOnce' /\ Accounted'
    BY <2>1, <2>3 DEF IndInv, SentOnce, Accounted, NothingSilentlyDropped, Known
  <2>5. ClearedInv' /\ UpInv'
    BY <2>1, SanitizationUnchanged, UpUnchanged DEF IndInv, sanitizeVars, Drained
  <2> QED BY <2>2, <2>4, <2>5 DEF IndInv
<1> QED BY <1>1, <1>2, <1>3

(* sanitize_batch begins with a batch.                                       *)
LEMMA ClassifyInv ==
  ASSUME ClearedInv, Classify, logged' = logged
  PROVE  ClearedInv'
<1>1. PICK covered \in Covered(Elements(LastBatch(fHanded', fBusy'))) :
          /\ wasExempt' = wasExempt \cup covered
          /\ cleared' = covered
          /\ candidates' = Elements(LastBatch(fHanded', fBusy')) \ (covered \cup Email)
  BY DEF Classify
<1> QED BY <1>1 DEF ClearedInv, OnlyClearedIsLogged

(* The sanitization of a batch, and the end of merino-fleece's lifespan.       *)
LEMMA FleeceInv ==
  ASSUME IndInv,
         Fleece \/ FleeceStops \/ FleeceDeadline \/ LateChunkEnds \/ Teardown
  PROVE  IndInv'
<1>1. UNCHANGED <<mVars, fAccepted, submitVars, network, clients>>
  BY DEF Fleece, FleeceHands, FleeceSettles, DetectChunk, DetectRaises, Log, FleeceStops,
         FleeceFinishes, FleeceDeadline, LateChunkEnds, Teardown, fVars, FleeceQueue!Hand, FleeceQueue!Settle,
         FleeceQueue!Close, FleeceQueue!Finish, FleeceQueue!Abandon
<1>2. QueueInv' /\ SentOnce' /\ Accounted' /\ clients' \in BOOLEAN /\ (~clients' => Drained')
  BY <1>1, SubmissionUnchanged DEF IndInv, UpInv, Drained, mVars
<1>3. /\ ClearedInv' /\ (sanitize' # "none" => fConsumer' = "active")
      /\ fleece' = "down" => QueueEnded' /\ ~inPool'
  <2> USE DEF IndInv, UpInv, QueueEnded
  <2>1. CASE \E n \in 1..BatchSize : FleeceHands(n)
    BY <2>1, ClassifyInv DEF FleeceHands, FleeceQueue!Hand
  <2>2. CASE FleeceSettles
    <3>1. fConsumer = "active" /\ fleece' = fleece /\ logged' = logged
      BY <2>2 DEF FleeceSettles
    <3>2. CASE fBusy' > 0
      BY <2>2, <3>1, <3>2, ClassifyInv DEF FleeceSettles, FleeceQueue!Settle
    <3>3. CASE ~(fBusy' > 0)
      BY <2>2, <3>1, <3>3 DEF FleeceSettles, ClearedInv, OnlyClearedIsLogged
    <3> QED BY <3>2, <3>3
  <2>3. CASE DetectChunk \/ DetectRaises \/ Log
    BY <2>3 DEF DetectChunk, DetectRaises, Log, NotPerson, ClearedInv, OnlyClearedIsLogged, fVars
  <2>4. CASE FleeceFinishes \/ FleeceStops \/ FleeceDeadline \/ LateChunkEnds \/ Teardown
    <3> USE DEF FleeceFinishes, FleeceStops, FleeceDeadline, LateChunkEnds, Teardown, sanitizeVars,
                fVars, FleeceQueue!Finish, FleeceQueue!Close, FleeceQueue!Abandon
    <3>1. /\ cleared' \in {cleared, {}} /\ candidates' \in {candidates, {}}
          /\ UNCHANGED <<wasExempt, logged>>
      BY <2>4
    <3>2. ClearedInv'
      BY <3>1 DEF ClearedInv, OnlyClearedIsLogged
    <3>3. sanitize' # "none" => fConsumer' = "active"
      BY <2>4
    <3>4. fleece' = "down" => QueueEnded'
      BY <2>4
    <3>5. fleece' = "down" => ~inPool'
      BY <2>4 DEF PoolIdle
    <3> QED BY <3>2, <3>3, <3>4, <3>5
  <2> QED BY <2>1, <2>2, <2>3, <2>4 DEF Fleece
<1> QED BY <1>2, <1>3 DEF IndInv, UpInv

(* What holds of the way of a term at every moment.                          *)
THEOREM Inductive == Spec => []IndInv
<1>1. ASSUME IndInv, [Next]_vars PROVE IndInv'
  <2>1. CASE UNCHANGED vars
    BY <1>1, <2>1, SubmissionUnchanged, SanitizationUnchanged, UpUnchanged
       DEF vars, mVars, fVars, sanitizeVars, IndInv, Drained
  <2>2. CASE Put \/ MerinoStops \/ MerinoFinishes \/ CloseClients
    BY <1>1, <2>2, MerinoRestInv
  <2>3. CASE Created \/ SubmitRaises \/ Publish \/ MerinoSettles \/ MerinoDeadline \/ LatePublishEnds
    BY <1>1, <2>3, SubmitEndsInv, PublishInv, MerinoSettlesInv, MerinoDeadlineInv, LatePublishInv
  <2>4. CASE \E n \in 1..BatchSize : MerinoHands(n)
    BY <1>1, <2>4, MerinoHandsInv
  <2>5. CASE \E batch \in network : Receive(batch) \/ Lose(batch)
    BY <1>1, <2>5, ReceiveInv, LoseInv
  <2>6. CASE Fleece \/ FleeceStops \/ FleeceDeadline \/ LateChunkEnds \/ Teardown
    BY <1>1, <2>6, FleeceInv
  <2> QED BY <1>1, <2>1, <2>2, <2>3, <2>4, <2>5, <2>6 DEF Next, Merino
<1> QED BY <1>1, InitInv, PTL DEF Spec

(* "Terms of any other PII type are never logged": whatever is logged was      *)
(* cleared by both detectors, or covered by an exempt when it was consulted.   *)
THEOREM OnlyCleared == Spec => []OnlyClearedIsLogged
<1>1. IndInv => OnlyClearedIsLogged
  BY DEF IndInv, ClearedInv
<1> QED BY <1>1, Inductive, PTL

(* A submission is admitted as a whole or not at all, and only a submitter     *)
(* that gave up on an answer backs up what may be queued.                     *)
THEOREM AllOrNone == Spec => []RejectedIsNotQueued
<1>1. IndInv => RejectedIsNotQueued
  BY DEF IndInv, SentOnce, Sent, Elsewhere, RejectedIsNotQueued
<1> QED BY <1>1, Inductive, PTL

(* Each term that Merino's queue settled is queued for sanitization, backed    *)
(* up, held back as sensitive or counted, unless the deadline of stop()       *)
(* abandoned the queue.                                                      *)
THEOREM NothingDropped == Spec => []NothingSilentlyDropped
<1>1. IndInv => NothingSilentlyDropped
  BY DEF IndInv, Accounted
<1> QED BY <1>1, Inductive, PTL

(* The clients, the detector and the exempts are there as long as a callback   *)
(* of the queue uses them, and the detector and its pool for a chunk that      *)
(* outlives its callback; a publish that does so may lose its client.         *)
THEOREM ClosedAfterUse == Spec => []NothingClosedInUse
<1>1. IndInv => NothingClosedInUse
  <2> SUFFICES ASSUME IndInv PROVE ClosedAfterTheQueue /\ TornDownAfterTheQueue
    BY DEF NothingClosedInUse
  <2>1. ClosedAfterTheQueue
    BY DEF IndInv, QueueInv, UpInv, Drained, ClosedAfterTheQueue
  <2>2. TornDownAfterTheQueue
    BY DEF IndInv, UpInv, QueueEnded, TornDownAfterTheQueue
  <2> QED BY <2>1, <2>2
<1> QED BY <1>1, Inductive, PTL

-----------------------------------------------------------------------------
(* The types of what IndInv does not speak of.                               *)
FleeceTypes ==
    /\ fHanded \in Seq(Term) /\ fBusy \in 0..BatchSize /\ fOpen \in BOOLEAN
    /\ fConsumer \in {"active", "finished", "abandoned"}
    /\ sanitize \in {"none", "detect", "done"}
    /\ candidates \subseteq Term /\ cleared \subseteq Term
    /\ wasExempt \subseteq Term /\ logged \subseteq Term
    /\ fleece \in {"serving", "stopping", "down"}
    /\ inPool \in BOOLEAN

MerinoTypes ==
    /\ mBusy \in 0..BatchSize /\ mOpen \in BOOLEAN /\ pubsub \in BOOLEAN
    /\ mConsumer \in {"active", "finished", "abandoned"}
    /\ backup \subseteq Term /\ filtered \subseteq Term
    /\ failed \subseteq Term /\ gaveUp \subseteq Term /\ late \subseteq Term

(* What a queue has handed over is of what it accepted.                       *)
LEMMA BatchTypes ==
  ASSUME NEW s \in Seq(Term), NEW h \in Seq(Term), NEW n \in Nat, n <= Len(s) - Len(h)
  PROVE  SubSeq(s, 1, Len(h) + n) \in Seq(Term) /\ n <= Len(SubSeq(s, 1, Len(h) + n))
<1>1. Len(s) \in Nat /\ Len(h) \in Nat /\ \A i \in 1..Len(s) : s[i] \in Term
  BY LenProperties, ElementOfSeq
<1> DEFINE k == Len(h) + n
<1>2. k \in Nat /\ k <= Len(s) /\ \A i \in 1..k : s[i] \in Term
  BY <1>1
<1> HIDE DEF k
<1>3. SubSeq(s, 1, k) \in Seq(Term) /\ Len(SubSeq(s, 1, k)) = k
  BY <1>2, SubSeqProperties, 1 \in Int
<1>4. n <= k
  BY <1>1 DEF k
<1> QED BY <1>3, <1>4 DEF k

(* sanitize_batch begins with terms.                                         *)
LEMMA ClassifyTypes ==
  ASSUME FleeceTypes, Classify, fHanded' \in Seq(Term), fBusy' \in Nat, fBusy' <= Len(fHanded')
  PROVE  /\ sanitize' = "detect" /\ cleared' \subseteq Term /\ candidates' \subseteq Term
         /\ wasExempt' \subseteq Term
<1> DEFINE b == LastBatch(fHanded', fBusy')
<1>1. Elements(b) \subseteq Term
  <2> DEFINE l == Len(fHanded')
             m == l - fBusy' + 1
  <2>1. l \in Nat /\ \A i \in 1..l : fHanded'[i] \in Term
    BY LenProperties, ElementOfSeq
  <2>2. m \in Int /\ l \in Int /\ \A i \in m..l : fHanded'[i] \in Term
    BY <2>1
  <2> HIDE DEF m, l
  <2>3. SubSeq(fHanded', m, l) \in Seq(Term)
    BY <2>2, SubSeqProperties
  <2>4. b \in Seq(Term)
    BY <2>3 DEF m, l, LastBatch
  <2> HIDE DEF b
  <2>5. DOMAIN b = 1..Len(b) /\ \A i \in 1..Len(b) : b[i] \in Term
    BY <2>4, LenProperties, ElementOfSeq
  <2> QED BY <2>5 DEF Elements
<1> HIDE DEF b
<1>2. PICK covered \in Covered(Elements(b)) :
          /\ wasExempt' = wasExempt \cup covered /\ cleared' = covered
          /\ candidates' = Elements(b) \ (covered \cup Email) /\ sanitize' = "detect"
  BY DEF Classify, b
<1>3. covered \subseteq Term
  BY <1>1 DEF Covered
<1> QED BY <1>1, <1>2, <1>3 DEF FleeceTypes

(* What merino-fleece has and does is of terms.                              *)
LEMMA FleeceTypesInv ==
  ASSUME QueueInv, FleeceTypes, [Next]_vars
  PROVE  FleeceTypes'
<1>0. fAccepted \in Seq(Term) /\ BatchSize \in Nat /\ Len(fAccepted) \in Nat /\ Len(fHanded) \in Nat
  BY PipelineAssumption, LenProperties DEF PipelineAssumption, QueueInv, FleeceTypes
<1> USE DEF fVars, sanitizeVars
<1>1. CASE \E n \in 1..BatchSize : FleeceHands(n)
  <2>1. PICK n \in 1..BatchSize : FleeceHands(n)
    BY <1>1
  <2>2. /\ fBusy' = n /\ n \in Nat /\ fHanded' = SubSeq(fAccepted, 1, Len(fHanded) + n)
        /\ n <= Len(fAccepted) - Len(fHanded)
        /\ UNCHANGED <<fOpen, fConsumer, logged, inPool, fleece>> /\ Classify
    BY <1>0, <2>1 DEF FleeceHands, FleeceQueue!Hand, FleeceQueue!Waiting
  <2>3. fHanded' \in Seq(Term) /\ fBusy' <= Len(fHanded')
    BY <1>0, <2>2, BatchTypes DEF FleeceTypes
  <2> QED BY <2>1, <2>2, <2>3, ClassifyTypes DEF FleeceTypes
<1>2. CASE FleeceSettles
  <2>1. CASE fBusy' > 0
    <3>1. PICK n \in 1..BatchSize :
              /\ n <= Len(fAccepted) - Len(fHanded)
              /\ fBusy' = n /\ fHanded' = SubSeq(fAccepted, 1, Len(fHanded) + n)
              /\ UNCHANGED fConsumer
      BY <1>2, <2>1 DEF FleeceSettles, FleeceQueue!Settle, FleeceQueue!Waiting
    <3>2. UNCHANGED <<fOpen, logged, inPool, fleece>> /\ Classify
      BY <1>2, <2>1 DEF FleeceSettles, FleeceQueue!Settle
    <3>3. fHanded' \in Seq(Term) /\ fBusy' <= Len(fHanded') /\ fBusy' \in Nat
      BY <1>0, <3>1, BatchTypes DEF FleeceTypes
    <3> QED BY <1>0, <3>1, <3>2, <3>3, ClassifyTypes DEF FleeceTypes
  <2>2. CASE ~(fBusy' > 0)
    <3>1. /\ UNCHANGED <<fHanded, fOpen, logged, inPool, fleece, candidates, cleared, wasExempt>>
          /\ sanitize' = "none" /\ fBusy' = 0 /\ fConsumer' \in {fConsumer, "finished"}
      BY <1>0, <1>2, <2>2 DEF FleeceSettles, FleeceQueue!Settle
    <3> QED BY <1>0, <3>1 DEF FleeceTypes
  <2> QED BY <2>1, <2>2
<1>3. CASE DetectChunk \/ DetectRaises \/ Log
  BY <1>3 DEF DetectChunk, DetectRaises, Log, NotPerson, FleeceTypes
<1>4. CASE FleeceFinishes \/ FleeceStops \/ FleeceDeadline \/ LateChunkEnds \/ Teardown
  <2>1. fOpen' \in BOOLEAN /\ inPool' \in BOOLEAN
    BY <1>4 DEF FleeceFinishes, FleeceStops, FleeceDeadline, LateChunkEnds, Teardown, FleeceQueue!Finish,
       FleeceQueue!Close, FleeceQueue!Abandon, FleeceTypes
  <2>2. /\ fHanded' = fHanded /\ fBusy' \in {fBusy, 0}
        /\ fConsumer' \in {fConsumer, "finished", "abandoned"}
        /\ sanitize' \in {sanitize, "none"} /\ candidates' \in {candidates, {}}
        /\ cleared' \in {cleared, {}} /\ UNCHANGED <<wasExempt, logged>>
        /\ fleece' \in {fleece, "stopping", "down"}
    BY <1>4 DEF FleeceFinishes, FleeceStops, FleeceDeadline, LateChunkEnds, Teardown, FleeceQueue!Finish,
       FleeceQueue!Close, FleeceQueue!Abandon
  <2> QED BY <1>0, <2>1, <2>2 DEF FleeceTypes
<1>5. CASE UNCHANGED <<fHanded, fBusy, fOpen, fConsumer, sanitizeVars, inPool, fleece>>
  BY <1>5 DEF FleeceTypes
<1>6. CASE \/ UNCHANGED vars \/ Put \/ MerinoStops \/ MerinoDeadline \/ LatePublishEnds \/ CloseClients
           \/ Created \/ SubmitRaises \/ Publish \/ MerinoSettles \/ MerinoFinishes
           \/ \E n \in 1..BatchSize : MerinoHands(n)
           \/ \E batch \in network : Receive(batch) \/ Lose(batch)
  BY <1>5, <1>6 DEF vars, Put, MerinoStops, MerinoDeadline, LatePublishEnds, CloseClients, Created, SubmitRaises,
     Publish, MerinoSettles, MerinoFinishes, MerinoHands, Receive, Lose
<1> QED BY <1>1, <1>2, <1>3, <1>4, <1>6 DEF Next, Merino, Fleece

(* What Merino has and does is of terms.                                     *)
LEMMA MerinoTypesInv ==
  ASSUME QueueInv, MerinoTypes, [Next]_vars
  PROVE  MerinoTypes'
<1>0. Current \subseteq Term /\ BatchSize \in Nat
  <2>1. Submission \in Seq(Term)
    BY BatchInNumbers
  <2>2. DOMAIN Submission = 1..Len(Submission) /\ \A i \in 1..Len(Submission) : Submission[i] \in Term
    BY <2>1, LenProperties, ElementOfSeq
  <2> QED BY <2>2, PipelineAssumption DEF PipelineAssumption, Current, Elements
<1> USE DEF mVars, submitVars, sinkVars
<1>1. CASE Put \/ MerinoStops \/ MerinoFinishes \/ \E n \in 1..BatchSize : MerinoHands(n)
  <2> USE DEF Put, MerinoStops, MerinoFinishes, MerinoHands, MerinoQueue!Accept,
     MerinoQueue!Close, MerinoQueue!Finish, MerinoQueue!Hand
  <2>1. mOpen' \in BOOLEAN /\ pubsub' \in BOOLEAN
    BY <1>1 DEF MerinoTypes
  <2>2. /\ mBusy' = mBusy \/ mBusy' \in 1..BatchSize
        /\ mConsumer' \in {mConsumer, "finished"}
        /\ UNCHANGED <<backup, filtered, failed, gaveUp, late>>
    BY <1>1
  <2> QED BY <1>0, <2>1, <2>2 DEF MerinoTypes
<1>2. CASE MerinoSettles
  BY <1>0, <1>2 DEF MerinoSettles, MerinoQueue!Settle, MerinoTypes
<1>3. CASE Created \/ SubmitRaises \/ Publish
  BY <1>0, <1>3 DEF Created, SubmitRaises, Publish, Publishing, Unrescued, Current, MerinoTypes
<1>4. CASE MerinoDeadline
  <2>1. mOpen' \in BOOLEAN /\ pubsub' \in BOOLEAN
    BY <1>4 DEF MerinoDeadline, MerinoQueue!Abandon, MerinoTypes
  <2>2. /\ mBusy' = 0 /\ mConsumer' = "abandoned"
        /\ late' \subseteq Current
        /\ UNCHANGED <<backup, filtered, failed, gaveUp>>
    BY <1>4 DEF MerinoDeadline, MerinoQueue!Abandon, Publishing, Current
  <2> QED BY <1>0, <2>1, <2>2 DEF MerinoTypes
<1>5. CASE UNCHANGED <<pubsub, mVars, sinkVars>>
  BY <1>5 DEF MerinoTypes
<1>6. CASE \/ UNCHANGED vars \/ CloseClients \/ \E batch \in network : Receive(batch) \/ Lose(batch)
           \/ Fleece \/ FleeceStops \/ FleeceDeadline \/ LateChunkEnds \/ Teardown
  BY <1>5, <1>6 DEF vars, CloseClients, Receive, Lose, Fleece, FleeceStops, FleeceDeadline,
     LateChunkEnds, Teardown, DetectChunk, DetectRaises, Log, FleeceSettles, FleeceFinishes, FleeceHands
<1>7. CASE LatePublishEnds
  BY <1>7 DEF LatePublishEnds, MerinoTypes
<1> QED BY <1>1, <1>2, <1>3, <1>4, <1>6, <1>7 DEF Next, Merino

(* The pipeline keeps its types: whatever is queued, sent, backed up, held     *)
(* back or logged is a term that was put.                                    *)
THEOREM TypeCorrect == Spec => []TypeOK
<1>1. Init => FleeceTypes /\ MerinoTypes
  <2>1. Init => inPool \in BOOLEAN
    BY DEF Init
  <2> QED BY <2>1, PipelineAssumption, EmptySeq DEF PipelineAssumption, Init, FleeceTypes, MerinoTypes
<1>2. IndInv /\ FleeceTypes /\ MerinoTypes => TypeOK
  BY DEF IndInv, QueueInv, Numbered, UpInv, FleeceTypes, MerinoTypes, TypeOK
<1>3. IndInv => QueueInv
  BY DEF IndInv
<1> QED BY <1>1, <1>2, <1>3, FleeceTypesInv, MerinoTypesInv, Inductive, PTL DEF Spec

-----------------------------------------------------------------------------
(* The worker.                                                               *)

(* What the callbacks have emitted when they come to the ack.                 *)
CallbacksInv ==
    /\ msg \in [Msg -> {"backlog", "running", "acked"}]
    /\ step \in [Msg -> 0..Size] /\ dropped \subseteq Msg
    /\ emitted \in [Msg -> [1..Size -> BOOLEAN]]
    /\ \A m \in Msg : msg[m] = "running" => \A t \in 1..step[m] : emitted[m][t]
    /\ AckedWasEmitted

(* A stream that was closed has no callbacks, and no callback is of a stream   *)
(* that is yet to come.                                                      *)
StreamInv ==
    /\ conn \in Nat
    /\ owner \in [Msg -> Nat]
    /\ \A m \in Msg : owner[m] <= conn
    /\ future = "returned" => Executing(conn) = {}

(* A refresh after the end of the stream was the last one: the thread looks    *)
(* again before it writes.                                                   *)
HeartbeatInv ==
    /\ stale \in {0, 1}
    /\ stale = 1 => ~Pulling /\ heartbeat # "write"

WorkerInv == CallbacksInv /\ StreamInv /\ HeartbeatInv

(* Nothing has been delivered.                                               *)
LEMMA WorkerInitInv == WorkerInit => WorkerInv
<1> SUFFICES ASSUME WorkerInit PROVE WorkerInv
  OBVIOUS
<1>1. Size \in Nat
  BY WorkerAssumption DEF WorkerAssumption
<1> QED BY <1>1 DEF WorkerInit, WorkerInv, CallbacksInv, StreamInv, HeartbeatInv, AckedWasEmitted

(* The main thread and stop() leave the messages alone; a new stream has no    *)
(* callbacks.                                                                *)
LEMMA WorkerMainInv ==
  ASSUME WorkerInv, Main \/ Stop
  PROVE  WorkerInv'
<1>1. UNCHANGED <<msg, owner, step, dropped, emitted>>
  BY DEF Main, Start, ResultReturns, ResultRaises, AfterError,
         Restart, Stop, msgVars
<1>2. CallbacksInv'
  BY <1>1 DEF WorkerInv, CallbacksInv, AckedWasEmitted
<1>3. CASE UNCHANGED <<conn, future, stale>>
  <2>1. StreamInv'
    BY <1>1, <1>3 DEF WorkerInv, StreamInv, Executing
  <2>2. HeartbeatInv'
    BY <1>3 DEF WorkerInv, HeartbeatInv, Pulling, Main, Start, ResultReturns,
                ResultRaises, AfterError, Restart, Stop, beatVars
  <2> QED BY <1>2, <2>1, <2>2 DEF WorkerInv
<1>4. CASE Restart /\ conn' = conn + 1 /\ future' = "running" /\ stale' = 0
  BY <1>1, <1>2, <1>4 DEF WorkerInv, StreamInv, HeartbeatInv
<1>5. CASE Stop /\ future' = "closing" /\ future = "running"
  <2>1. UNCHANGED <<conn, stale, heartbeat>>
    BY <1>5 DEF Stop
  <2> QED BY <1>1, <1>2, <1>5, <2>1 DEF WorkerInv, StreamInv, HeartbeatInv, Pulling
<1>6. UNCHANGED <<conn, future, stale>>
      \/ (Restart /\ conn' = conn + 1 /\ future' = "running" /\ stale' = 0)
      \/ (Stop /\ future' = "closing" /\ future = "running")
  BY DEF Main, Start, ResultReturns, ResultRaises, AfterError,
         Restart, Stop, CancelledFuture, beatVars
<1> QED BY <1>3, <1>4, <1>5, <1>6

(* The heartbeat thread looks, writes and waits.                             *)
LEMMA WorkerHeartbeatInv ==
  ASSUME WorkerInv, Heartbeat
  PROVE  WorkerInv'
<1> USE DEF Heartbeat, HeartbeatChecks, HeartbeatWrites, HeartbeatWaits,
            mainVars, msgVars
<1>1. UNCHANGED <<conn, future, msg, owner, step, dropped, emitted>>
  OBVIOUS
<1>2. CallbacksInv' /\ StreamInv'
  BY <1>1 DEF WorkerInv, CallbacksInv, StreamInv, AckedWasEmitted, Executing
<1>3. HeartbeatInv'
  BY <1>1 DEF WorkerInv, HeartbeatInv, Pulling, WhenPulling
<1> QED BY <1>2, <1>3 DEF WorkerInv

(* A stream ends when none of its callbacks is running.                       *)
LEMMA WorkerStreamInv ==
  ASSUME WorkerInv, StreamFails \/ StreamCloses
  PROVE  WorkerInv'
<1> USE DEF StreamFails, StreamCloses, mainVars, beatVars, msgVars
<1>1. /\ UNCHANGED <<conn, stale, heartbeat, msg, owner, step, dropped, emitted>>
      /\ future' \in {"failed", "returned"} /\ Executing(conn) = {}
  BY DEF Awaited
<1>2. CallbacksInv' /\ StreamInv'
  BY <1>1 DEF WorkerInv, CallbacksInv, StreamInv, AckedWasEmitted, Executing
<1>3. HeartbeatInv'
  BY <1>1 DEF WorkerInv, HeartbeatInv, Pulling
<1> QED BY <1>2, <1>3 DEF WorkerInv

(* A message is delivered, and its callback goes on.                         *)
LEMMA WorkerCallbackInv ==
  ASSUME WorkerInv, NEW m \in Msg,
         Deliver(m) \/ EmitTerm(m) \/ DropAsInvalid(m) \/ Ack(m) \/ CallbackRaises(m)
  PROVE  WorkerInv'
<1>0. Size \in Nat
  BY WorkerAssumption DEF WorkerAssumption
<1>1. UNCHANGED <<conn, stale, heartbeat>> /\ future' \in {future, "failed"}
  BY DEF Deliver, EmitTerm, DropAsInvalid, Ack, CallbackRaises, mainVars, beatVars
<1>2. HeartbeatInv'
  BY <1>1 DEF WorkerInv, HeartbeatInv, Pulling
<1>3. CASE Deliver(m)
  <2>1. /\ msg' = [msg EXCEPT ![m] = "running"] /\ owner' = [owner EXCEPT ![m] = conn]
        /\ step' = [step EXCEPT ![m] = 0] /\ dropped' = dropped \ {m} /\ emitted' = emitted
        /\ future = "running" /\ future' = "running"
    BY <1>3 DEF Deliver
  <2>2. CallbacksInv'
    BY <1>0, <2>1 DEF WorkerInv, CallbacksInv, AckedWasEmitted
  <2>3. StreamInv'
    BY <1>1, <2>1 DEF WorkerInv, StreamInv
  <2> QED BY <1>2, <2>2, <2>3 DEF WorkerInv
<1>4. CASE EmitTerm(m)
  <2>1. /\ msg[m] = "running" /\ step[m] < Size /\ step' = [step EXCEPT ![m] = @ + 1]
        /\ emitted' = [emitted EXCEPT ![m][step[m] + 1] = TRUE]
        /\ UNCHANGED <<future, msg, owner, dropped>>
    BY <1>4 DEF EmitTerm, TermLeft
  <2>2. step[m] \in Nat /\ step[m] + 1 \in 1..Size
    BY <1>0, <2>1 DEF WorkerInv, CallbacksInv
  <2>3. \A x \in Msg, t \in 1..Size : emitted[x][t] => emitted'[x][t]
    BY <2>1 DEF WorkerInv, CallbacksInv
  <2>4. emitted'[m][step[m] + 1] /\ emitted' \in [Msg -> [1..Size -> BOOLEAN]]
    BY <2>1, <2>2 DEF WorkerInv, CallbacksInv
  <2>5. \A x \in Msg : msg'[x] = "running" => \A t \in 1..step'[x] : emitted'[x][t]
    <3> SUFFICES ASSUME NEW x \in Msg, msg'[x] = "running", NEW t \in 1..step'[x] PROVE emitted'[x][t]
      OBVIOUS
    <3>1. CASE t \in 1..step[x]
      <4>1. t \in 1..Size /\ emitted[x][t]
        BY <1>0, <2>1, <3>1 DEF WorkerInv, CallbacksInv
      <4> QED BY <2>3, <4>1
    <3>2. CASE t \notin 1..step[x]
      <4>1. x = m /\ t = step[m] + 1
        BY <2>1, <2>2, <3>2 DEF WorkerInv, CallbacksInv
      <4> QED BY <2>4, <4>1
    <3> QED BY <3>1, <3>2
  <2>6. AckedWasEmitted'
    BY <2>1, <2>3 DEF WorkerInv, CallbacksInv, AckedWasEmitted
  <2>7. CallbacksInv'
    BY <1>0, <2>1, <2>2, <2>4, <2>5, <2>6 DEF WorkerInv, CallbacksInv
  <2>8. StreamInv'
    BY <1>1, <2>1 DEF WorkerInv, StreamInv, Executing
  <2> QED BY <1>2, <2>7, <2>8 DEF WorkerInv
<1>5. CASE Ack(m) \/ CallbackRaises(m)
  <2>1. PICK st \in {"acked", "backlog"} :
            /\ msg[m] = "running" /\ msg' = [msg EXCEPT ![m] = st]
            /\ st = "acked" => m \in Invalid \cup dropped \/ step[m] = Size
            /\ UNCHANGED <<owner, step, dropped, emitted>>
    BY <1>5 DEF Ack, CallbackRaises, ReadyToAck
  <2>2. CallbacksInv'
    BY <2>1 DEF WorkerInv, CallbacksInv, AckedWasEmitted
  <2>3. StreamInv'
    BY <1>1, <2>1 DEF WorkerInv, StreamInv, Executing
  <2> QED BY <1>2, <2>2, <2>3 DEF WorkerInv
<1>6. CASE DropAsInvalid(m)
  <2>1. dropped' = dropped \cup {m} /\ UNCHANGED <<future, msg, owner, step, emitted>>
    BY <1>6 DEF DropAsInvalid
  <2>2. CallbacksInv'
    BY <2>1 DEF WorkerInv, CallbacksInv, AckedWasEmitted
  <2>3. StreamInv'
    BY <1>1, <2>1 DEF WorkerInv, StreamInv, Executing
  <2> QED BY <1>2, <2>2, <2>3 DEF WorkerInv
<1> QED BY <1>3, <1>4, <1>5, <1>6

(* What holds of the worker at every moment.                                 *)
THEOREM WorkerInductive == WorkerSpec => []WorkerInv
<1>1. ASSUME WorkerInv, [WorkerNext]_workerVars PROVE WorkerInv'
  <2>1. CASE UNCHANGED workerVars
    BY <1>1, <2>1 DEF workerVars, mainVars, beatVars, msgVars, WorkerInv, CallbacksInv,
       StreamInv, HeartbeatInv, AckedWasEmitted, Executing, Pulling
  <2>2. CASE WorkerNext
    BY <1>1, <2>2, WorkerMainInv, WorkerHeartbeatInv, WorkerStreamInv, WorkerCallbackInv DEF WorkerNext
  <2> QED BY <1>1, <2>1, <2>2
<1> QED BY <1>1, WorkerInitInv, PTL DEF WorkerSpec

(* Pub/Sub is told to forget a valid message only when each of its terms was   *)
(* emitted, whatever is redelivered, fails or stops in between, or when its    *)
(* last callback caught a ValidationError among them.                        *)
THEOREM AckedAfterEmitting == WorkerSpec => []AckedWasEmitted
<1>1. WorkerInv => AckedWasEmitted
  BY DEF WorkerInv, CallbacksInv
<1> QED BY <1>1, WorkerInductive, PTL

(* start() returns from a cancelled stream only when its callbacks are done.   *)
THEOREM Drains == WorkerSpec => []DrainedOnReturn
<1>1. WorkerInv => DrainedOnReturn
  BY DEF WorkerInv, StreamInv, DrainedOnReturn
<1> QED BY <1>1, WorkerInductive, PTL

(* The heartbeat of a stream that has ended is refreshed once at most.         *)
THEOREM GoesStale == WorkerSpec => []HeartbeatGoesStale
<1>1. WorkerInv => HeartbeatGoesStale
  BY DEF WorkerInv, HeartbeatInv, HeartbeatGoesStale
<1> QED BY <1>1, WorkerInductive, PTL

(* Every variable of the worker keeps its type, whatever the threads do.       *)
THEOREM WorkerTypeCorrect == WorkerSpec => []WorkerTypeOK
<1>0. Size \in Nat /\ MaxConnections \in Nat \ {0} /\ MaxDeliveries \in Nat \ {0}
  BY WorkerAssumption DEF WorkerAssumption
<1> DEFINE Flags == stopping \in BOOLEAN /\ hbStop \in BOOLEAN /\ open \in BOOLEAN
<1>1. WorkerInit => WorkerTypeOK
  <2> SUFFICES ASSUME WorkerInit PROVE WorkerTypeOK
    OBVIOUS
  <2>1. Flags
    BY DEF WorkerInit
  <2> QED BY <1>0, <2>1 DEF WorkerInit, WorkerTypeOK
<1>2. ASSUME WorkerTypeOK, [WorkerNext]_workerVars PROVE WorkerTypeOK'
  <2>1. CASE UNCHANGED workerVars
    BY <1>2, <2>1 DEF workerVars, mainVars, beatVars, msgVars, WorkerTypeOK
  <2>2. CASE Main \/ Stop
    <3> USE DEF Main, Start, ResultReturns, ResultRaises, AfterError, Restart, Stop,
                CancelledFuture, beatVars, msgVars
    <3>1. Flags'
      BY <1>2, <2>2 DEF WorkerTypeOK
    <3>2. /\ pc' \in {"start", "result", "errored", "backoff", "returned", "crashed"}
          /\ stopAt' \in {"never", "start", "result", "errored", "backoff"}
          /\ future' \in {"running", "closing", "returned", "failed"}
          /\ heartbeat' \in {"none", "check", "write", "wait", "exited"}
          /\ UNCHANGED <<msg, owner, step, dropped, emitted, deliveries>>
      BY <1>2, <2>2 DEF WorkerTypeOK
    <3>3. conn' \in 1..MaxConnections /\ stale' \in Nat
      <4>1. \/ conn' = conn
            \/ conn < MaxConnections /\ conn' = conn + 1
        <5>1. CASE Restart
          BY <5>1
        <5>2. CASE Start \/ ResultReturns \/ ResultRaises \/ AfterError \/ Stop
          BY <5>2
        <5> QED BY <2>2, <5>1, <5>2
      <4>2. stale' = 0 \/ stale' = stale
        <5>1. CASE Restart
          BY <5>1
        <5>2. CASE Start \/ ResultReturns \/ ResultRaises \/ AfterError \/ Stop
          BY <5>2
        <5> QED BY <2>2, <5>1, <5>2
      <4> QED BY <1>0, <1>2, <4>1, <4>2 DEF WorkerTypeOK
    <3> QED BY <1>2, <3>1, <3>2, <3>3 DEF WorkerTypeOK
  <2>3. CASE Heartbeat \/ StreamFails \/ StreamCloses
    BY <1>2, <2>3 DEF Heartbeat, HeartbeatChecks, HeartbeatWrites, HeartbeatWaits, StreamFails,
       StreamCloses, mainVars, beatVars, msgVars, WorkerTypeOK
  <2>4. ASSUME NEW m \in Msg,
               Deliver(m) \/ EmitTerm(m) \/ DropAsInvalid(m) \/ Ack(m) \/ CallbackRaises(m)
        PROVE  WorkerTypeOK'
    <3>1. CASE Deliver(m)
      BY <1>0, <1>2, <3>1 DEF Deliver, mainVars, beatVars, WorkerTypeOK
    <3>2. CASE EmitTerm(m)
      <4>1. step[m] \in 0..Size /\ step[m] < Size /\ step[m] + 1 \in 1..Size
        BY <1>0, <1>2, <3>2 DEF EmitTerm, TermLeft, WorkerTypeOK
      <4> QED BY <1>0, <1>2, <3>2, <4>1 DEF EmitTerm, mainVars, beatVars, WorkerTypeOK
    <3>3. CASE Ack(m) \/ CallbackRaises(m)
      <4>1. PICK st \in {"acked", "backlog"} : msg' = [msg EXCEPT ![m] = st]
        BY <3>3 DEF Ack, CallbackRaises
      <4>2. /\ UNCHANGED <<mainVars, beatVars, owner, step, dropped, emitted, deliveries>>
            /\ future' \in {future, "failed"}
        BY <3>3 DEF Ack, CallbackRaises
      <4> QED BY <1>2, <4>1, <4>2 DEF mainVars, beatVars, WorkerTypeOK
    <3>4. CASE DropAsInvalid(m)
      BY <1>2, <3>4 DEF DropAsInvalid, mainVars, beatVars, WorkerTypeOK
    <3> QED BY <2>4, <3>1, <3>2, <3>3, <3>4
  <2> QED BY <1>2, <2>1, <2>2, <2>3, <2>4 DEF WorkerNext
<1> QED BY <1>1, <1>2, PTL DEF WorkerSpec
=============================================================================
