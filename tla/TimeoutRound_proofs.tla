------------------------- MODULE TimeoutRound_proofs -------------------------
(***************************************************************************)
(* The window of timeout messages is sound for every committee, every set  *)
(* of quorum certificates and every order of arrival.                      *)
(***************************************************************************)
EXTENDS TimeoutRound, TLAPS

Messages(ms) == ms.firstTimeouts \cup ms.secondTimeouts

(* What has to hold of stored messages ms when the messages in rec were
   accepted.  The last conjunct is the strengthening: while the window can
   still move back by one epoch, nothing of that epoch has been lost. *)
Window(ms, rec) ==
    /\ ms \in [first : DOMAIN Committee,
               firstTimeouts : SUBSET TimeoutMessage,
               secondTimeouts : SUBSET TimeoutMessage]
    /\ ms.firstTimeouts # {}
    /\ \A t \in ms.firstTimeouts : t.qc.epoch = ms.first
    /\ \A t \in ms.secondTimeouts : t.qc.epoch = ms.first + 1
    /\ \A t, u \in ms.firstTimeouts : t.ix = u.ix => t = u
    /\ \A t, u \in ms.secondTimeouts : t.ix = u.ix => t = u
    /\ \A t \in rec : t.qc.epoch \in {ms.first, ms.first + 1} => t \in Messages(ms)
    /\ \A t \in rec : t.qc.epoch <= ms.first + 1
    /\ ms.secondTimeouts = {} => \A t \in rec : t.qc.epoch # ms.first - 1

IndInv ==
    /\ TypeOK
    /\ tms = Absent => received = {}
    /\ tms # Absent => Window(tms, received)

(* A stored collection is a record with the fields it was built from, and is
   not Absent. *)
LEMMA StoredFields ==
    ASSUME NEW f, NEW m1, NEW m2
    PROVE  /\ Stored(f, m1, m2).first = f
           /\ Stored(f, m1, m2).firstTimeouts = m1
           /\ Stored(f, m1, m2).secondTimeouts = m2
BY DEF Stored

(* Nothing that is a collection of messages is Absent. *)
LEMMA WindowNotAbsent ==
    ASSUME NEW ms, NEW rec, Window(ms, rec)
    PROVE  ms # Absent
BY DEF Window, Absent

(* The QC of a message, and its epoch. *)
LEMMA MessageType ==
    ASSUME NEW tm \in TimeoutMessage
    PROVE  tm.qc \in QCs /\ tm.qc.epoch \in DOMAIN Committee /\ tm.qc.epoch \in Nat
BY QCsAssumption DEF TimeoutMessage

(* updateTimeoutMessages keeps the window sound when the new message is not
   a second one of its finalizer for its epoch. *)
LEMMA UpdateKeepsWindow ==
    ASSUME NEW ms, NEW rec \in SUBSET TimeoutMessage, NEW tm \in TimeoutMessage,
           Window(ms, rec),
           \A t \in Messages(ms) : ~(t.ix = tm.ix /\ t.qc.epoch = tm.qc.epoch)
    PROVE  Window(updateTimeoutMessages(ms, tm), rec \cup {tm})
<1> DEFINE e == tm.qc.epoch
           new == updateTimeoutMessages(ms, tm)
<1>0. /\ ms # Absent
      /\ e \in DOMAIN Committee
      /\ e \in Nat
      /\ ms.first \in DOMAIN Committee
      /\ ms.first \in Nat
      /\ \A t \in TimeoutMessage : t.qc.epoch \in DOMAIN Committee /\ t.qc.epoch \in Nat
  BY WindowNotAbsent, MessageType, QCsAssumption DEF Window
<1> SUFFICES Window(new, rec \cup {tm})
  OBVIOUS
<1>1. CASE e = ms.first
  <2>1. new = [ms EXCEPT !.firstTimeouts = insertTimeout(@, tm)]
    BY <1>0, <1>1, SMTT(30) DEF updateTimeoutMessages
  <2>2. insertTimeout(ms.firstTimeouts, tm) = ms.firstTimeouts \cup {tm}
    BY <1>1 DEF insertTimeout, Window, Messages
  <2>3. /\ new.first = ms.first
        /\ new.firstTimeouts = ms.firstTimeouts \cup {tm}
        /\ new.secondTimeouts = ms.secondTimeouts
        /\ new \in [first : DOMAIN Committee,
                    firstTimeouts : SUBSET TimeoutMessage,
                    secondTimeouts : SUBSET TimeoutMessage]
    BY <2>1, <2>2 DEF Window
  <2> QED
    BY <1>0, <1>1, <2>3 DEF Window, Messages
<1>2. CASE e = ms.first + 1
  <2>1. new = [ms EXCEPT !.secondTimeouts = insertTimeout(@, tm)]
    BY <1>0, <1>2, SMTT(30) DEF updateTimeoutMessages
  <2>2. insertTimeout(ms.secondTimeouts, tm) = ms.secondTimeouts \cup {tm}
    BY <1>2 DEF insertTimeout, Window, Messages
  <2>3. /\ new.first = ms.first
        /\ new.firstTimeouts = ms.firstTimeouts
        /\ new.secondTimeouts = ms.secondTimeouts \cup {tm}
        /\ new \in [first : DOMAIN Committee,
                    firstTimeouts : SUBSET TimeoutMessage,
                    secondTimeouts : SUBSET TimeoutMessage]
    BY <2>1, <2>2 DEF Window
  <2> QED
    BY <1>0, <1>2, <2>3 DEF Window, Messages
<1>3. CASE e + 1 = ms.first /\ ms.secondTimeouts = {}
  <2>1. new = Stored(e, {tm}, ms.firstTimeouts)
    BY <1>0, <1>3, SMTT(30) DEF updateTimeoutMessages
  <2>2. new \in [first : DOMAIN Committee,
                 firstTimeouts : SUBSET TimeoutMessage,
                 secondTimeouts : SUBSET TimeoutMessage]
    BY <1>0, <2>1 DEF Window, Stored
  <2>3. new.first = e /\ new.firstTimeouts = {tm} /\ new.secondTimeouts = ms.firstTimeouts
    BY <2>1, StoredFields
  <2>4. \A t \in rec : t.qc.epoch # e /\ t.qc.epoch <= e + 1
    <3>1. SUFFICES ASSUME NEW t \in rec PROVE t.qc.epoch # e /\ t.qc.epoch <= e + 1
      OBVIOUS
    <3>2. t.qc.epoch # ms.first + 1
      BY <1>0, <1>3 DEF Window, Messages
    <3> QED
      BY <1>0, <1>3, <3>2 DEF Window
  <2> HIDE DEF new
  <2> QED
    BY <1>0, <1>3, <2>2, <2>3, <2>4 DEF Window, Messages
<1>4. CASE e = ms.first + 2 /\ ms.secondTimeouts # {}
  <2>1. new = Stored(ms.first + 1, ms.secondTimeouts, {tm})
    BY <1>0, <1>4, SMTT(30) DEF updateTimeoutMessages
  <2>2. ms.first + 1 \in DOMAIN Committee
    BY <1>0, <1>4 DEF Window
  <2>3. new \in [first : DOMAIN Committee,
                 firstTimeouts : SUBSET TimeoutMessage,
                 secondTimeouts : SUBSET TimeoutMessage]
    BY <1>0, <2>1, <2>2 DEF Window, Stored
  <2>4. new.first = ms.first + 1 /\ new.firstTimeouts = ms.secondTimeouts /\ new.secondTimeouts = {tm}
    BY <2>1, StoredFields
  <2> HIDE DEF new
  <2> QED
    BY <1>0, <1>4, <2>3, <2>4 DEF Window, Messages
<1>5. CASE e >= ms.first + (IF ms.secondTimeouts = {} THEN 2 ELSE 3)
  <2>1. new = Stored(e, {tm}, {})
    BY <1>0, <1>5, SMTT(30) DEF updateTimeoutMessages
  <2>2. new \in [first : DOMAIN Committee,
                 firstTimeouts : SUBSET TimeoutMessage,
                 secondTimeouts : SUBSET TimeoutMessage]
    BY <1>0, <2>1 DEF Stored
  <2>3. \A t \in rec : t.qc.epoch <= e - 2
    <3>1. SUFFICES ASSUME NEW t \in rec PROVE t.qc.epoch <= e - 2
      OBVIOUS
    <3>2. CASE ms.secondTimeouts = {}
      <4>1. t.qc.epoch # ms.first + 1
        BY <1>0, <3>2 DEF Window, Messages
      <4> QED
        BY <1>0, <1>5, <3>2, <4>1 DEF Window
    <3>3. CASE ms.secondTimeouts # {}
      BY <1>0, <1>5, <3>3 DEF Window
    <3> QED
      BY <3>2, <3>3
  <2>4. new.first = e /\ new.firstTimeouts = {tm} /\ new.secondTimeouts = {}
    BY <2>1, StoredFields
  <2> HIDE DEF new
  <2> QED
    BY <1>0, <2>2, <2>3, <2>4 DEF Window, Messages
<1>6. CASE /\ e < ms.first
           /\ ~(e + 1 = ms.first /\ ms.secondTimeouts = {})
  <2>1. new = ms
    BY <1>0, <1>6, SMTT(30) DEF updateTimeoutMessages
  <2> QED
    BY <1>0, <1>6, <2>1 DEF Window, Messages
<1> QED
  BY <1>0, <1>1, <1>2, <1>3, <1>4, <1>5, <1>6

(* No timeout message has come at first. *)
LEMMA InitIndInv == Init => IndInv
BY QCsAssumption DEF Init, IndInv, TypeOK, Absent

(* The first message of a round starts a window of its own. *)
LEMMA FirstMessage ==
    ASSUME NEW tm \in TimeoutMessage
    PROVE  Window(updateTimeoutMessages(Absent, tm), {tm})
<1> DEFINE new == updateTimeoutMessages(Absent, tm)
<1> SUFFICES Window(new, {tm})
  OBVIOUS
<1>1. new = Stored(tm.qc.epoch, {tm}, {})
  BY DEF updateTimeoutMessages
<1>2. new \in [first : DOMAIN Committee,
               firstTimeouts : SUBSET TimeoutMessage,
               secondTimeouts : SUBSET TimeoutMessage]
  BY <1>1, MessageType DEF Stored
<1>3. new.first = tm.qc.epoch /\ new.firstTimeouts = {tm} /\ new.secondTimeouts = {}
  BY <1>1, StoredFields
<1> HIDE DEF new
<1> QED
  BY <1>2, <1>3, MessageType DEF Window, Messages

(* A message that is received keeps the inductive invariant. *)
LEMMA ReceiveKeepsIndInv ==
    ASSUME IndInv, NEW tm \in TimeoutMessage, ReceiveTimeoutMessage(tm)
    PROVE  IndInv'
<1>1. Window(updateTimeoutMessages(tms, tm), received \cup {tm})
  <2>1. CASE tms = Absent
    BY <2>1, FirstMessage DEF IndInv
  <2>2. CASE tms # Absent
    <3>1. \A t \in Messages(tms) : ~(t.ix = tm.ix /\ t.qc.epoch = tm.qc.epoch)
      BY <2>2 DEF ReceiveTimeoutMessage, AlreadyStored, Messages
    <3> QED
      BY <2>2, <3>1, UpdateKeepsWindow DEF IndInv, TypeOK
  <2> QED
    BY <2>1, <2>2
<1>2. /\ tms' = updateTimeoutMessages(tms, tm)
      /\ received' = received \cup {tm}
      /\ lfEpoch' = lfEpoch
      /\ tc' = tc \/ tc' = [messages |-> tms', qc |-> highestQC']
      /\ highestQC' \in QCs
  BY MessageType DEF ReceiveTimeoutMessage, IndInv, TypeOK, checkedUpdateHighestCertifiedBlock
<1>3. tms' # Absent /\ Window(tms', received')
  BY <1>1, <1>2, WindowNotAbsent
<1>4. TypeOK'
  BY <1>2, <1>3 DEF IndInv, TypeOK, Window
<1> QED
  BY <1>3, <1>4 DEF IndInv

(* Every step keeps the inductive invariant. *)
LEMMA NextIndInv == IndInv /\ [Next]_vars => IndInv'
<1> SUFFICES ASSUME IndInv, [Next]_vars PROVE IndInv'
  OBVIOUS
<1>1. CASE \E tm \in TimeoutMessage : ReceiveTimeoutMessage(tm)
  BY <1>1, ReceiveKeepsIndInv
<1>2. CASE \E q \in QCs : LearnQC(q)
  BY <1>2 DEF LearnQC, checkedUpdateHighestCertifiedBlock, IndInv, TypeOK, Window
<1>3. CASE \E e \in DOMAIN Committee : AdvanceFinalized(e)
  BY <1>3 DEF AdvanceFinalized, IndInv, TypeOK, Window
<1>4. CASE UNCHANGED vars
  BY <1>4 DEF vars, IndInv, TypeOK, Window
<1> QED
  BY <1>1, <1>2, <1>3, <1>4 DEF Next

(* The inductive invariant holds throughout a round. *)
THEOREM Inductive == Spec => []IndInv
BY InitIndInv, NextIndInv, PTL DEF Spec

(* The values the round's state can take, for every committee and every set
   of certificates (currentTimeoutMessages, roundStatus). *)
THEOREM TypeCorrect == Spec => []TypeOK
<1>1. IndInv => TypeOK
  BY DEF IndInv
<1> QED
  BY <1>1, Inductive, PTL

(* The documented invariants of TimeoutMessages hold in every round: the
   shifts of updateTimeoutMessages never misfile a message. *)
THEOREM WindowIsWellFormed == Spec => []WindowWellFormed
<1>1. IndInv => WindowWellFormed
  BY DEF IndInv, Window, WindowWellFormed
<1> QED
  BY <1>1, Inductive, PTL

(* No accepted message within the two-epoch window is ever lost by
   updateTimeoutMessages, whatever the order of arrival. *)
THEOREM WindowLosesNothing == Spec => []WindowKeepsMessages
<1>1. IndInv => WindowKeepsMessages
  BY DEF IndInv, Window, WindowKeepsMessages, Messages
<1> QED
  BY <1>1, Inductive, PTL

(* The newest epoch received is always within the window that
   updateTimeoutMessages keeps. *)
THEOREM WindowIsNewest == Spec => []WindowCoversNewest
<1>1. IndInv => WindowCoversNewest
  BY DEF IndInv, Window, WindowCoversNewest
<1> QED
  BY <1>1, Inductive, PTL
-----------------------------------------------------------------------------
(* updateTimeoutMessages keeps nothing but what it had and the new message;
   if it changes anything, it keeps the new message. *)
LEMMA UpdateStores ==
    ASSUME NEW ms, NEW rec, NEW tm \in TimeoutMessage, Window(ms, rec)
    PROVE  /\ Messages(updateTimeoutMessages(ms, tm)) \subseteq Messages(ms) \cup {tm}
           /\ updateTimeoutMessages(ms, tm) # ms => tm \in Messages(updateTimeoutMessages(ms, tm))
<1> DEFINE e == tm.qc.epoch
           new == updateTimeoutMessages(ms, tm)
<1>1. /\ ms # Absent /\ ms.first \in Nat /\ e \in Nat
      /\ ms \in [first : DOMAIN Committee,
                 firstTimeouts : SUBSET TimeoutMessage,
                 secondTimeouts : SUBSET TimeoutMessage]
  BY WindowNotAbsent, MessageType, QCsAssumption DEF Window
<1>2. \/ new = [ms EXCEPT !.firstTimeouts = insertTimeout(@, tm)]
      \/ new = [ms EXCEPT !.secondTimeouts = insertTimeout(@, tm)]
      \/ new = Stored(e, {tm}, ms.firstTimeouts)
      \/ new = Stored(ms.first + 1, ms.secondTimeouts, {tm})
      \/ new = Stored(e, {tm}, {})
      \/ new = ms
  BY <1>1 DEF updateTimeoutMessages
<1> HIDE DEF new
<1>3. CASE new = [ms EXCEPT !.firstTimeouts = insertTimeout(@, tm)]
  <2>1. new.firstTimeouts = insertTimeout(ms.firstTimeouts, tm) /\ new.secondTimeouts = ms.secondTimeouts
    BY <1>1, <1>3
  <2> QED BY <2>1 DEF Messages, insertTimeout, new
<1>4. CASE new = [ms EXCEPT !.secondTimeouts = insertTimeout(@, tm)]
  <2>1. new.secondTimeouts = insertTimeout(ms.secondTimeouts, tm) /\ new.firstTimeouts = ms.firstTimeouts
    BY <1>1, <1>4
  <2> QED BY <2>1 DEF Messages, insertTimeout, new
<1>5. CASE \/ new = Stored(e, {tm}, ms.firstTimeouts)
           \/ new = Stored(ms.first + 1, ms.secondTimeouts, {tm})
           \/ new = Stored(e, {tm}, {})
  BY <1>5, StoredFields DEF Messages, new
<1>6. CASE new = ms
  BY <1>6 DEF new
<1> QED BY <1>2, <1>3, <1>4, <1>5, <1>6

(* The strengthening of CertificateCovered: what is stored was received, and
   no QC of a received message is of a higher round than the highest one. *)
Covered ==
    /\ \A t \in received : t.qc.round <= highestQC.round
    /\ tms # Absent => Messages(tms) \subseteq received
    /\ CertificateCovered

(* A message that is received, and the certificate made with it. *)
LEMMA ReceiveKeepsCovered ==
    ASSUME IndInv, Covered, NEW tm \in TimeoutMessage, ReceiveTimeoutMessage(tm)
    PROVE  Covered'
<1> DEFINE new == updateTimeoutMessages(tms, tm)
<1>1. /\ tc = Absent /\ tm.qc.epoch >= lfEpoch /\ tms' = new /\ received' = received \cup {tm}
      /\ highestQC' = checkedUpdateHighestCertifiedBlock(tm.qc) /\ lfEpoch' = lfEpoch
      /\ \/ tc' = Absent
         \/ /\ new # tms /\ KnownEpoch(highestQC'.epoch)
            /\ tc' = [messages |-> new, qc |-> highestQC']
  BY DEF ReceiveTimeoutMessage
<1>2. Window(new, received')
  BY <1>1, ReceiveKeepsIndInv, WindowNotAbsent DEF IndInv
<1>3. Messages(new) \subseteq received' /\ (new # tms => tm \in Messages(new))
  <2>1. CASE tms = Absent
    <3>1. new = Stored(tm.qc.epoch, {tm}, {})
      BY <2>1 DEF updateTimeoutMessages
    <3> QED BY <1>1, <3>1, StoredFields DEF Messages
  <2>2. CASE tms # Absent
    BY <1>1, <2>2, UpdateStores DEF IndInv, Covered
  <2> QED BY <2>1, <2>2
<1> HIDE DEF new
<1>4. /\ \A q \in QCs : q.round \in Nat /\ q.epoch \in Nat
      /\ highestQC \in QCs /\ tm.qc \in QCs /\ highestQC' \in QCs /\ lfEpoch \in Nat
  BY <1>1, QCsAssumption, MessageType DEF checkedUpdateHighestCertifiedBlock, IndInv, TypeOK
<1>5. highestQC.round <= highestQC'.round /\ tm.qc.round <= highestQC'.round
  BY <1>1, <1>4 DEF checkedUpdateHighestCertifiedBlock
<1>6. \A t \in received' : t.qc \in QCs /\ t.qc.round <= highestQC'.round
  <2>1. \A t \in received : t.qc \in QCs /\ t.qc.round <= highestQC.round
    BY MessageType DEF IndInv, TypeOK, Covered
  <2>2. \A t \in received : t.qc.round \in Nat
    BY <1>4, <2>1
  <2> QED BY <1>1, <1>4, <1>5, <2>1, <2>2
<1>7. CertificateCovered'
  <2>1. CASE tc' = Absent
    BY <2>1 DEF CertificateCovered
  <2>2. CASE new # tms /\ KnownEpoch(highestQC'.epoch) /\ tc' = [messages |-> new, qc |-> highestQC']
    <3>1. tc'.messages = new /\ tc'.qc = highestQC'
      BY <2>2
    <3>2. \A t \in Messages(new) : t.qc.round <= highestQC'.round /\ t.qc.epoch <= highestQC'.epoch
      BY <1>3, <1>4, <1>6, QCsAssumption
    <3>3. tm \in received' /\ tm.qc.epoch <= new.first + 1 /\ new.first \in Nat
      BY <1>1, <1>2, QCsAssumption DEF Window
    <3>4. highestQC'.epoch <= lfEpoch + 1
      BY <1>4, <2>2 DEF KnownEpoch
    <3>5. highestQC'.epoch <= new.first + 2
      BY <1>1, <1>4, <3>3, <3>4
    <3> QED BY <3>1, <3>2, <3>5 DEF CertificateCovered, Messages
  <2> QED BY <1>1, <2>1, <2>2
<1> QED BY <1>1, <1>3, <1>6, <1>7 DEF Covered

(* Every step keeps the strengthening. *)
LEMMA NextCovered == IndInv /\ Covered /\ [Next]_vars => Covered'
<1> SUFFICES ASSUME IndInv, Covered, [Next]_vars PROVE Covered'
  OBVIOUS
<1>1. CASE \E tm \in TimeoutMessage : ReceiveTimeoutMessage(tm)
  BY <1>1, ReceiveKeepsCovered
<1>2. CASE \E q \in QCs : LearnQC(q)
  <2>1. PICK q \in QCs : LearnQC(q)
    BY <1>2
  <2>2. /\ highestQC' = checkedUpdateHighestCertifiedBlock(q) /\ UNCHANGED <<tms, received, tc>> /\ tc = Absent
    BY <2>1 DEF LearnQC
  <2>3. highestQC \in QCs /\ \A p \in QCs : p.round \in Nat
    BY QCsAssumption DEF IndInv, TypeOK
  <2>4. \A t \in received : t.qc.round \in Nat /\ t.qc.round <= highestQC.round
    BY <2>3, MessageType DEF IndInv, TypeOK, Covered
  <2>5. highestQC.round <= highestQC'.round /\ highestQC.round \in Nat /\ highestQC'.round \in Nat
    BY <2>2, <2>3 DEF checkedUpdateHighestCertifiedBlock
  <2>6. \A t \in received' : t.qc.round <= highestQC'.round
    BY <2>2, <2>4, <2>5
  <2> QED BY <2>2, <2>6 DEF Covered, CertificateCovered
<1>3. CASE \E e \in DOMAIN Committee : AdvanceFinalized(e)
  BY <1>3 DEF AdvanceFinalized, Covered, CertificateCovered
<1>4. CASE UNCHANGED vars
  BY <1>4 DEF vars, Covered, CertificateCovered
<1> QED BY <1>1, <1>2, <1>3, <1>4 DEF Next

(* The certified block that goes with a timeout certificate is of no lower
   round and epoch than any QC in it, and at most two epochs above its first
   one, however QCs, messages and the last finalized block come in
   (processTimeout, advanceRoundWithTimeout). *)
THEOREM CertificateIsCovered == Spec => []CertificateCovered
<1>1. Init => Covered
  BY DEF Init, Covered, CertificateCovered
<1>2. Covered => CertificateCovered
  BY DEF Covered
<1> QED BY <1>1, <1>2, Inductive, NextCovered, PTL DEF Spec
=============================================================================
