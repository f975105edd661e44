---------------------------- MODULE LibraryProofs ----------------------------
(***************************************************************************)
(* The theorems of the libraries.  The stores and the image have theorems in *)
(* modules of their own, which are brought here by what each step of the   *)
(* composition is for that part; the MQTT glue and the co-processor's images *)
(* have theirs here.  The inductive invariants are stated in the parts' modules. *)
(***************************************************************************)
EXTENDS MCLibraries, FiniteSetTheorems, WellFoundedInduction, TLAPS

\* RtcStoreProofs on the critical store's variables.
SP == INSTANCE RtcStoreProofs WITH
    HdrLen <- 0, DataLen <- DataLen, Size <- Size, ReadSize <- ReadSize,
    MaxMeta <- MaxMeta, Payloads <- Payloads, MaxBoots <- MaxBoots,
    buf <- rtc_buf, read_offset <- rtc_read_offset, filled <- rtc_filled,
    meta_hdr_idx <- rtc_meta_hdr_idx, meta <- rtc_meta, init <- rtc_init,
    pc <- rtc_pc, record <- rtc_record, batch <- rtc_batch, boots <- rtc_boots

\* RtcStoreProofs on the other's.
NP == INSTANCE RtcStoreProofs WITH
    HdrLen <- NcHdrLen, DataLen <- NcDataLen, Size <- NcSize,
    ReadSize <- NcReadSize, MaxMeta <- MaxMeta, Payloads <- Payloads,
    MaxBoots <- NcMaxBoots,
    buf <- rtcnc_buf, read_offset <- rtcnc_read_offset,
    filled <- rtcnc_filled, meta_hdr_idx <- rtcnc_meta_hdr_idx,
    meta <- rtcnc_meta, init <- rtcnc_init, pc <- rtcnc_pc,
    record <- rtcnc_record, batch <- rtcnc_batch, boots <- rtcnc_boots

\* EncryptedImgProofs on the image's variables.
EP == INSTANCE EncryptedImgProofs WITH
    image <- enc_image, taken <- enc_taken, handle <- enc_handle,
    out <- enc_out, fed <- enc_fed, ret <- enc_ret, end <- enc_end

(***************************************************************************)
(* The data store, with CRC's record header and without (RtcStoreProofs).  *)
(***************************************************************************)

\* The critical store's constants.
LEMMA CriticalAssumption == SP!StoreAssumption
BY LibraryAssumptions DEF Rtc!StoreAssumption, Rtc!RecLen, SP!StoreAssumption, SP!RecLen

\* It starts as RtcStore does.
LEMMA CriticalInit == Rtc!Init => SP!Init
BY DEF Rtc!Init, SP!Init, Rtc!MetaByte, SP!MetaByte

\* RtcStoreProofs speaks of the same operators as MCLibraries.
LEMMA CriticalOps ==
  /\ SP!RecLen = Rtc!RecLen /\ SP!Free = Rtc!Free /\ SP!FreeAtEnd = Rtc!FreeAtEnd
  /\ \A i, d, b : SP!RecordOf(i, d, b) = Rtc!RecordOf(i, d, b)
  /\ \A n : SP!Unread(n) = Rtc!Unread(n)
  /\ \A b : SP!Encoded(b) = Rtc!Encoded(b)
  /\ \A b, o : SP!WriteAtOffset(b, o) = Rtc!WriteAtOffset(b, o)
<1>1. SP!RecLen = Rtc!RecLen /\ SP!Free = Rtc!Free /\ SP!FreeAtEnd = Rtc!FreeAtEnd
  BY DEF SP!RecLen, Rtc!RecLen, SP!Free, Rtc!Free, SP!FreeAtEnd, Rtc!FreeAtEnd
<1>2. ASSUME NEW i, NEW d, NEW b PROVE SP!RecordOf(i, d, b) = Rtc!RecordOf(i, d, b)
  BY <1>1 DEF SP!RecordOf, Rtc!RecordOf, SP!MetaByte, Rtc!MetaByte
<1>3. ASSUME NEW n PROVE SP!Unread(n) = Rtc!Unread(n)
  BY DEF SP!Unread, Rtc!Unread
<1>4. ASSUME NEW b PROVE SP!Encoded(b) = Rtc!Encoded(b)
  BY DEF SP!Encoded, Rtc!Encoded, SP!RecLen, Rtc!RecLen
<1>5. ASSUME NEW b, NEW o PROVE SP!WriteAtOffset(b, o) = Rtc!WriteAtOffset(b, o)
  BY DEF SP!WriteAtOffset, Rtc!WriteAtOffset, SP!Copy, Rtc!Copy, SP!FreeAtEnd, Rtc!FreeAtEnd
<1> QED BY <1>1, <1>2, <1>3, <1>4, <1>5

\* Each step is one of this store, or leaves it alone.
LEMMA CriticalNext == [Next]_vars => [SP!Next]_SP!vars
<1> SUFFICES ASSUME [Next]_vars PROVE [SP!Next]_SP!vars
  OBVIOUS
<1>1. Rtc!Next \/ UNCHANGED rtcVars
  BY DEF Next, vars
<1>2. CASE UNCHANGED rtcVars
  BY <1>2 DEF rtcVars, SP!vars
<1>3. CASE Rtc!Next
  <2>1. CASE \E data \in Payloads : Rtc!DataWrite(data)
    BY <2>1, CriticalOps DEF Rtc!DataWrite, SP!DataWrite, SP!Next
  <2>2. CASE Rtc!WriteHeader
    BY <2>2, CriticalOps DEF Rtc!WriteHeader, SP!WriteHeader, SP!Next
  <2>3. CASE Rtc!WriteData
    BY <2>3, CriticalOps DEF Rtc!WriteData, SP!WriteData, SP!Next
  <2>4. CASE Rtc!WriteComplete
    BY <2>4, CriticalOps DEF Rtc!WriteComplete, SP!WriteComplete, SP!Next
  <2>5. CASE Rtc!ReadBatch
    BY <2>5, CriticalOps DEF Rtc!ReadBatch, SP!ReadBatch, SP!Next
  <2>6. CASE Rtc!Release
    BY <2>6, CriticalOps DEF Rtc!Release, SP!Release, Rtc!ReadComplete, SP!ReadComplete, SP!Next
  <2>7. CASE Rtc!Reset
    BY <2>7, CriticalOps DEF Rtc!Reset, SP!Reset, SP!Next
  <2>8. CASE \E powerOn, changed \in BOOLEAN : Rtc!InitStore(powerOn, changed)
    BY <2>8, CriticalOps DEF Rtc!InitStore, SP!InitStore, Rtc!Keep, SP!Keep, SP!Next
  <2> QED BY <1>3, <2>1, <2>2, <2>3, <2>4, <2>5, <2>6, <2>7, <2>8 DEF Rtc!Next
<1> QED BY <1>1, <1>2, <1>3

\* So its behaviours are RtcStore's.
LEMMA CriticalSpec == Spec => SP!Spec
<1>1. Init => SP!Init
  BY CriticalInit DEF Init
<1> QED BY <1>1, CriticalNext, PTL DEF Spec, SP!Spec

\* The critical store releases what was sent.
LEMMA CriticalSafe == Spec => [](Rtc!ReleasesWhatWasSent /\ Rtc!BoundsFit)
<1>1. SP!Spec => [](SP!ReleasesWhatWasSent /\ SP!BoundsFit)
  BY CriticalAssumption, SP!StoreSafe
<1>2. SP!ReleasesWhatWasSent /\ SP!BoundsFit => Rtc!ReleasesWhatWasSent /\ Rtc!BoundsFit
  BY CriticalOps DEF SP!ReleasesWhatWasSent, SP!BoundsFit, Rtc!ReleasesWhatWasSent, Rtc!BoundsFit
<1> QED BY <1>1, <1>2, CriticalSpec, PTL

\* Its records are the same.
LEMMA CriticalRecords ==
  /\ SP!Record = Rtc!Record /\ SP!Capacity = Rtc!Capacity
  /\ SP!Records = Rtc!Records
<1>1. SP!Record = Rtc!Record /\ SP!Capacity = Rtc!Capacity
  BY CriticalOps DEF SP!Record, Rtc!Record, SP!Capacity, Rtc!Capacity
<1>2. SP!Records = Rtc!Records
  BY CriticalOps DEF SP!Records, Rtc!Records
<1> QED BY <1>1, <1>2

\* The critical store is a queue.
LEMMA CriticalIsAQueue == Spec => CriticalQueue!Spec
<1> DEFINE Q == IF part = "rtc" THEN Rtc!Records ELSE <<>>
<1>1. Init => CriticalQueue!Init
  <2>1. SP!Init => Rtc!Records = <<>>
    BY CriticalAssumption, SP!StoreStarts, CriticalRecords
  <2> QED BY <2>1, CriticalInit DEF Init, CriticalQueue!Init
<1>2. ASSUME SP!StoreInv, [Next]_vars PROVE [CriticalQueue!Next]_Q
  <2>1. \/ SP!Records' = SP!Records
        \/ \E r \in SP!Record : Len(SP!Records) < SP!Capacity /\ SP!Records' = Append(SP!Records, r)
        \/ \E m \in 1 .. Len(SP!Records) : SP!Records' = SubSeq(SP!Records, m + 1, Len(SP!Records))
    BY <1>2, CriticalAssumption, CriticalNext, SP!StoreStep
  <2>2. SP!Records' = Rtc!Records'
    <3>1. (SP!Records = Rtc!Records)'
      BY CriticalRecords, PTL
    <3> QED BY <3>1
  <2>3. part' = part
    BY <1>2 DEF Next, vars
  <2>4. CASE part # "rtc"
    BY <2>3, <2>4
  <2>5. CASE part = "rtc"
    BY <2>1, <2>2, <2>3, <2>5, CriticalRecords
      DEF CriticalQueue!Next, CriticalQueue!Put, CriticalQueue!GiveUpOldest
  <2> QED BY <2>4, <2>5
<1>3. SP!Spec => []SP!StoreInv
  BY CriticalAssumption, SP!StoreIsInductive
<1> QED BY <1>1, <1>2, <1>3, CriticalSpec, PTL DEF Spec, CriticalQueue!Spec

\* The non-critical store's constants.
LEMMA NonCriticalAssumption == NP!StoreAssumption
BY LibraryAssumptions DEF RtcNonCritical!StoreAssumption, RtcNonCritical!RecLen, NP!StoreAssumption, NP!RecLen

\* It starts as RtcStore does.
LEMMA NonCriticalInit == RtcNonCritical!Init => NP!Init
BY DEF RtcNonCritical!Init, NP!Init, RtcNonCritical!MetaByte, NP!MetaByte

\* RtcStoreProofs speaks of the same operators as MCLibraries.
LEMMA NonCriticalOps ==
  /\ NP!RecLen = RtcNonCritical!RecLen /\ NP!Free = RtcNonCritical!Free /\ NP!FreeAtEnd = RtcNonCritical!FreeAtEnd
  /\ \A i, d, b : NP!RecordOf(i, d, b) = RtcNonCritical!RecordOf(i, d, b)
  /\ \A n : NP!Unread(n) = RtcNonCritical!Unread(n)
  /\ \A b : NP!Encoded(b) = RtcNonCritical!Encoded(b)
  /\ \A b, o : NP!WriteAtOffset(b, o) = RtcNonCritical!WriteAtOffset(b, o)
<1>1. NP!RecLen = RtcNonCritical!RecLen /\ NP!Free = RtcNonCritical!Free /\ NP!FreeAtEnd = RtcNonCritical!FreeAtEnd
  BY DEF NP!RecLen, RtcNonCritical!RecLen, NP!Free, RtcNonCritical!Free, NP!FreeAtEnd, RtcNonCritical!FreeAtEnd
<1>2. ASSUME NEW i, NEW d, NEW b PROVE NP!RecordOf(i, d, b) = RtcNonCritical!RecordOf(i, d, b)
  BY <1>1 DEF NP!RecordOf, RtcNonCritical!RecordOf, NP!MetaByte, RtcNonCritical!MetaByte
<1>3. ASSUME NEW n PROVE NP!Unread(n) = RtcNonCritical!Unread(n)
  BY DEF NP!Unread, RtcNonCritical!Unread
<1>4. ASSUME NEW b PROVE NP!Encoded(b) = RtcNonCritical!Encoded(b)
  BY DEF NP!Encoded, RtcNonCritical!Encoded, NP!RecLen, RtcNonCritical!RecLen
<1>5. ASSUME NEW b, NEW o PROVE NP!WriteAtOffset(b, o) = RtcNonCritical!WriteAtOffset(b, o)
  BY DEF NP!WriteAtOffset, RtcNonCritical!WriteAtOffset, NP!Copy, RtcNonCritical!Copy, NP!FreeAtEnd, RtcNonCritical!FreeAtEnd
<1> QED BY <1>1, <1>2, <1>3, <1>4, <1>5

\* Each step is one of this store, or leaves it alone.
LEMMA NonCriticalNext == [Next]_vars => [NP!Next]_NP!vars
<1> SUFFICES ASSUME [Next]_vars PROVE [NP!Next]_NP!vars
  OBVIOUS
<1>1. RtcNonCritical!Next \/ UNCHANGED rtcncVars
  BY DEF Next, vars
<1>2. CASE UNCHANGED rtcncVars
  BY <1>2 DEF rtcncVars, NP!vars
<1>3. CASE RtcNonCritical!Next
  <2>1. CASE \E data \in Payloads : RtcNonCritical!DataWrite(data)
    BY <2>1, NonCriticalOps DEF RtcNonCritical!DataWrite, NP!DataWrite, NP!Next
  <2>2. CASE RtcNonCritical!WriteHeader
    BY <2>2, NonCriticalOps DEF RtcNonCritical!WriteHeader, NP!WriteHeader, NP!Next
  <2>3. CASE RtcNonCritical!WriteData
    BY <2>3, NonCriticalOps DEF RtcNonCritical!WriteData, NP!WriteData, NP!Next
  <2>4. CASE RtcNonCritical!WriteComplete
    BY <2>4, NonCriticalOps DEF RtcNonCritical!WriteComplete, NP!WriteComplete, NP!Next
  <2>5. CASE RtcNonCritical!ReadBatch
    BY <2>5, NonCriticalOps DEF RtcNonCritical!ReadBatch, NP!ReadBatch, NP!Next
  <2>6. CASE RtcNonCritical!Release
    BY <2>6, NonCriticalOps DEF RtcNonCritical!Release, NP!Release, RtcNonCritical!ReadComplete, NP!ReadComplete, NP!Next
  <2>7. CASE RtcNonCritical!Reset
    BY <2>7, NonCriticalOps DEF RtcNonCritical!Reset, NP!Reset, NP!Next
  <2>8. CASE \E powerOn, changed \in BOOLEAN : RtcNonCritical!InitStore(powerOn, changed)
    BY <2>8, NonCriticalOps DEF RtcNonCritical!InitStore, NP!InitStore, RtcNonCritical!Keep, NP!Keep, NP!Next
  <2> QED BY <1>3, <2>1, <2>2, <2>3, <2>4, <2>5, <2>6, <2>7, <2>8 DEF RtcNonCritical!Next
<1> QED BY <1>1, <1>2, <1>3

\* So its behaviours are RtcStore's.
LEMMA NonCriticalSpec == Spec => NP!Spec
<1>1. Init => NP!Init
  BY NonCriticalInit DEF Init
<1> QED BY <1>1, NonCriticalNext, PTL DEF Spec, NP!Spec

\* The non-critical store releases what was sent.
LEMMA NonCriticalSafe == Spec => [](RtcNonCritical!ReleasesWhatWasSent /\ RtcNonCritical!BoundsFit)
<1>1. NP!Spec => [](NP!ReleasesWhatWasSent /\ NP!BoundsFit)
  BY NonCriticalAssumption, NP!StoreSafe
<1>2. NP!ReleasesWhatWasSent /\ NP!BoundsFit => RtcNonCritical!ReleasesWhatWasSent /\ RtcNonCritical!BoundsFit
  BY NonCriticalOps DEF NP!ReleasesWhatWasSent, NP!BoundsFit, RtcNonCritical!ReleasesWhatWasSent, RtcNonCritical!BoundsFit
<1> QED BY <1>1, <1>2, NonCriticalSpec, PTL

\* Its records are the same.
LEMMA NonCriticalRecords ==
  /\ NP!Record = RtcNonCritical!Record /\ NP!Capacity = RtcNonCritical!Capacity
  /\ NP!Records = RtcNonCritical!Records
<1>1. NP!Record = RtcNonCritical!Record /\ NP!Capacity = RtcNonCritical!Capacity
  BY NonCriticalOps DEF NP!Record, RtcNonCritical!Record, NP!Capacity, RtcNonCritical!Capacity
<1>2. NP!Records = RtcNonCritical!Records
  BY NonCriticalOps DEF NP!Records, RtcNonCritical!Records
<1> QED BY <1>1, <1>2

\* The non-critical store is a queue.
LEMMA NonCriticalIsAQueue == Spec => NonCriticalQueue!Spec
<1> DEFINE Q == IF part = "rtcnc" THEN RtcNonCritical!Records ELSE <<>>
<1>1. Init => NonCriticalQueue!Init
  <2>1. NP!Init => RtcNonCritical!Records = <<>>
    BY NonCriticalAssumption, NP!StoreStarts, NonCriticalRecords
  <2> QED BY <2>1, NonCriticalInit DEF Init, NonCriticalQueue!Init
<1>2. ASSUME NP!StoreInv, [Next]_vars PROVE [NonCriticalQueue!Next]_Q
  <2>1. \/ NP!Records' = NP!Records
        \/ \E r \in NP!Record : Len(NP!Records) < NP!Capacity /\ NP!Records' = Append(NP!Records, r)
        \/ \E m \in 1 .. Len(NP!Records) : NP!Records' = SubSeq(NP!Records, m + 1, Len(NP!Records))
    BY <1>2, NonCriticalAssumption, NonCriticalNext, NP!StoreStep
  <2>2. NP!Records' = RtcNonCritical!Records'
    <3>1. (NP!Records = RtcNonCritical!Records)'
      BY NonCriticalRecords, PTL
    <3> QED BY <3>1
  <2>3. part' = part
    BY <1>2 DEF Next, vars
  <2>4. CASE part # "rtcnc"
    BY <2>3, <2>4
  <2>5. CASE part = "rtcnc"
    BY <2>1, <2>2, <2>3, <2>5, NonCriticalRecords
      DEF NonCriticalQueue!Next, NonCriticalQueue!Put, NonCriticalQueue!GiveUpOldest
  <2> QED BY <2>4, <2>5
<1>3. NP!Spec => []NP!StoreInv
  BY NonCriticalAssumption, NP!StoreIsInductive
<1> QED BY <1>1, <1>2, <1>3, NonCriticalSpec, PTL DEF Spec, NonCriticalQueue!Spec

\* What a release gives up is what the read before it returned, in the store of the
\* critical data, whose records have a header, and in the other: rtc_store.c's
\* *_data_read and *_data_release.
THEOREM LibrariesReleaseWhatWasSent == Spec => []ReleasesWhatWasSent
BY CriticalSafe, NonCriticalSafe, PTL DEF ReleasesWhatWasSent

\* Both stores of rtc_store.c implement a bounded queue of whole records.
THEOREM LibrariesImplementQueue == Spec => ImplementsQueue
BY CriticalIsAQueue, NonCriticalIsAQueue, PTL DEF ImplementsQueue

(***************************************************************************)
(* The MQTT glue.                                                          *)
(***************************************************************************)

\* The library's theorems speak of their own Cardinality.
LEMMA CardIs ==
  ASSUME NEW S
  PROVE  Mqtt!Cardinality(S) = Cardinality(S)
BY DEF Mqtt!Cardinality, Cardinality

\* The first element with a property has it.
LEMMA FirstIs ==
  ASSUME NEW N \in Nat, NEW P, DOMAIN P = 1 .. N, NEW i \in 1 .. N, P[i]
  PROVE  Mqtt!First(P) \in 1 .. N /\ P[Mqtt!First(P)]
<1> DEFINE S == {j \in 1 .. N : P[j]}
           R == OpToRel(<, Nat)
<1>1. S \subseteq Nat /\ i \in S
  OBVIOUS
<1> HIDE DEF S, R
<1>2. PICK m \in S : \A j \in S : ~(<<j, m>> \in R)
  <2>1. IsWellFoundedOn(R, Nat)
    BY NatLessThanWellFounded, Zenon DEF R
  <2> QED BY <1>1, <2>1, WFMin
<1>3. \A j \in S : ~(j < m)
  <2>1. R = {x \in Nat \X Nat : x[1] < x[2]}
    BY Zenon DEF R, OpToRel
  <2> QED BY <1>1, <1>2, <2>1
<1>4. m \in DOMAIN P /\ P[m] /\ \A j \in 1 .. (m - 1) : ~P[j]
  <2>1. m \in 1 .. N /\ P[m]
    BY DEF S
  <2>2. ASSUME NEW j \in 1 .. (m - 1), P[j] PROVE FALSE
    <3>1. j \in 1 .. N /\ j < m
      BY <2>1
    <3>2. j \in S
      BY <2>2, <3>1 DEF S
    <3> QED BY <1>3, <3>1, <3>2
  <2> QED BY <2>1, <2>2
<1>5. Mqtt!First(P) \in DOMAIN P /\ P[Mqtt!First(P)]
  BY <1>4, Zenon DEF Mqtt!First
<1> QED BY <1>5

\* Callbacks get a whole message, of a topic somebody subscribed to.
LEMMA CalledWhole ==
  ASSUME Mqtt!MqttAssumption, Mqtt!SlotsInv, NEW t \in Topics, NEW m, NEW total \in Nat, mqtt_sending.total = total,
         mqtt_calls' = Mqtt!Called(t, m, Mqtt!Pieces(m, total)), UNCHANGED mqtt_slots
  PROVE  Mqtt!MessagesAreWhole'
<1> DEFINE S == {j \in DOMAIN mqtt_slots : mqtt_slots[j] = t}
<1>1. SUFFICES ASSUME NEW i \in DOMAIN mqtt_calls'
               PROVE  /\ mqtt_calls'[i].topic \in Mqtt!Subscribed'
                      /\ mqtt_calls'[i].pieces = {<<mqtt_calls'[i].message, k>> : k \in 1..mqtt_calls'[i].total}
  BY DEF Mqtt!MessagesAreWhole
<1>2. mqtt_calls'[i] = [topic |-> t, message |-> m, pieces |-> Mqtt!Pieces(m, total), total |-> total]
  BY DEF Mqtt!Called
<1>3. i \in 1 .. Cardinality(S)
  BY CardIs DEF Mqtt!Called
<1>4. S # {}
  <2>1. SUFFICES ASSUME S = {} PROVE FALSE
    OBVIOUS
  <2>2. Cardinality(S) = 0
    BY <2>1, FS_EmptySet
  <2> QED BY <1>3, <2>2
<1>5. t # Mqtt!None
  BY DEF Mqtt!MqttAssumption
<1>6. t \in Mqtt!Subscribed
  BY <1>4, <1>5 DEF Mqtt!Subscribed
<1>7. Mqtt!Subscribed' = Mqtt!Subscribed
  BY DEF Mqtt!Subscribed
<1>8. mqtt_calls'[i].topic = t /\ mqtt_calls'[i].pieces = Mqtt!Pieces(m, total) /\ mqtt_calls'[i].message = m /\ mqtt_calls'[i].total = total
  BY <1>2
<1> QED BY <1>6, <1>7, <1>8 DEF Mqtt!Pieces

\* A step without callbacks.
LEMMA NoCalls ==
  ASSUME mqtt_calls' = <<>>
  PROVE  Mqtt!MessagesAreWhole'
BY DEF Mqtt!MessagesAreWhole

\* The table after a disconnect.
LEMMA NoTableIs ==
  ASSUME mqtt_slots' = Mqtt!NoTable
  PROVE  Mqtt!SlotsInv' /\ Mqtt!Subscribed' = {}
BY DEF Mqtt!NoTable, Mqtt!SlotsInv, Mqtt!Subscribed

\* The invariant holds at first.
LEMMA MqttStarts ==
  ASSUME Mqtt!MqttAssumption, Mqtt!Init
  PROVE  Mqtt!MqttInv
<1>1. Mqtt!SlotsInv
  BY DEF Mqtt!Init, Mqtt!SlotsInv, Mqtt!NoTable
<1>2. Mqtt!BrokerInv
  BY DEF Mqtt!Init, Mqtt!BrokerInv, Mqtt!BrokerKnowsTable
<1>3. Mqtt!SendingInv /\ Mqtt!LongInv
  BY DEF Mqtt!Init, Mqtt!SendingInv, Mqtt!LongInv
<1>4. Mqtt!MessagesAreWhole /\ mqtt_messages \in Nat
  BY DEF Mqtt!Init, Mqtt!MessagesAreWhole
<1> QED BY <1>1, <1>2, <1>3, <1>4 DEF Mqtt!MqttInv

\* Subscribing takes a free slot.
LEMMA SubscribeKeeps ==
  ASSUME Mqtt!MqttAssumption, Mqtt!MqttInv, NEW t \in Topics, Mqtt!Subscribe(t)
  PROVE  Mqtt!SlotsInv' /\ Mqtt!BrokerInv'
<1> DEFINE N == MAX_MQTT_SUBSCRIPTIONS
           free == [i \in DOMAIN mqtt_slots |-> mqtt_slots[i] = Mqtt!None]
<1>1. DOMAIN mqtt_slots = 1 .. N /\ N \in Nat /\ t # Mqtt!None
  BY DEF Mqtt!MqttInv, Mqtt!SlotsInv, Mqtt!MqttAssumption
<1>2. DOMAIN free = 1 .. N
  BY <1>1
<1>3. PICK i \in 1 .. N : free[i]
  BY <1>1 DEF Mqtt!Subscribe
<1> HIDE DEF free
<1>4. PICK f \in 1 .. N : f = Mqtt!First(free) /\ free[f]
  BY <1>1, <1>2, <1>3, FirstIs
<1>5. mqtt_slots[f] = Mqtt!None
  BY <1>1, <1>4 DEF free
<1>6. mqtt_slots' = [mqtt_slots EXCEPT ![f] = t] /\ mqtt_broker' = mqtt_broker \cup {t} /\ UNCHANGED <<mqtt_data, mqtt_connected>>
      /\ t \notin Mqtt!Subscribed /\ mqtt_connected
  BY <1>4 DEF Mqtt!Subscribe, free
<1>7. Mqtt!Subscribed' = Mqtt!Subscribed \cup {t}
  BY <1>1, <1>5, <1>6 DEF Mqtt!Subscribed
<1>8. Mqtt!SlotsInv'
  BY <1>1, <1>5, <1>6 DEF Mqtt!MqttInv, Mqtt!SlotsInv, Mqtt!Subscribed
<1>9. Mqtt!BrokerInv'
  BY <1>6, <1>7 DEF Mqtt!MqttInv, Mqtt!BrokerInv, Mqtt!BrokerKnowsTable
<1> QED BY <1>8, <1>9

\* Unsubscribing frees the slot of the topic.
LEMMA UnsubscribeKeeps ==
  ASSUME Mqtt!MqttAssumption, Mqtt!MqttInv, NEW t \in Topics, Mqtt!Unsubscribe(t)
  PROVE  Mqtt!SlotsInv' /\ Mqtt!BrokerInv'
<1> DEFINE N == MAX_MQTT_SUBSCRIPTIONS
           hit == [i \in DOMAIN mqtt_slots |-> Mqtt!Matches(t, mqtt_slots[i])]
<1>1. DOMAIN mqtt_slots = 1 .. N /\ N \in Nat
  BY DEF Mqtt!MqttInv, Mqtt!SlotsInv, Mqtt!MqttAssumption
<1>2. DOMAIN hit = 1 .. N
  BY <1>1
<1>3. PICK i \in 1 .. N : hit[i]
  BY <1>1 DEF Mqtt!Unsubscribe
<1> HIDE DEF hit
<1>4. PICK f \in 1 .. N : f = Mqtt!First(hit) /\ hit[f]
  BY <1>1, <1>2, <1>3, FirstIs
<1>5. mqtt_slots[f] # Mqtt!None
  BY <1>1, <1>4 DEF hit, Mqtt!Matches
<1>6. /\ mqtt_slots' = [mqtt_slots EXCEPT ![f] = Mqtt!None]
      /\ mqtt_broker' = IF mqtt_connected THEN mqtt_broker \ {mqtt_slots[f]} ELSE mqtt_broker
      /\ UNCHANGED <<mqtt_data, mqtt_connected>>
  BY <1>4 DEF Mqtt!Unsubscribe, hit, Mqtt!Dropped
<1>7. Mqtt!Subscribed' = Mqtt!Subscribed \ {mqtt_slots[f]}
  BY <1>1, <1>5, <1>6 DEF Mqtt!Subscribed, Mqtt!MqttInv, Mqtt!SlotsInv
<1>8. Mqtt!SlotsInv'
  BY <1>1, <1>5, <1>6 DEF Mqtt!MqttInv, Mqtt!SlotsInv
<1>9. Mqtt!BrokerInv'
  BY <1>6, <1>7 DEF Mqtt!MqttInv, Mqtt!BrokerInv, Mqtt!BrokerKnowsTable
<1> QED BY <1>8, <1>9

\* After a piece comes the next one, or the message is over.
LEMMA SentIs ==
  ASSUME Mqtt!MqttInv, mqtt_sending' = Mqtt!Sent, mqtt_sending # Mqtt!NotSending
  PROVE  /\ Mqtt!SendingInv'
         /\ mqtt_sending.next = mqtt_sending.total => mqtt_sending' = Mqtt!NotSending
         /\ mqtt_sending.next # mqtt_sending.total => /\ mqtt_sending' # Mqtt!NotSending /\ mqtt_sending'.id = mqtt_sending.id
                                            /\ mqtt_sending'.next = mqtt_sending.next + 1
<1>1. PICK id \in Nat, total \in Nat, next \in Nat, t \in Topics :
         /\ mqtt_sending = [id |-> id, topic |-> t, total |-> total, next |-> next]
         /\ 1 <= next /\ next <= total
  BY DEF Mqtt!MqttInv, Mqtt!SendingInv
<1>2. CASE next = total
  BY <1>1, <1>2 DEF Mqtt!Sent, Mqtt!SendingInv
<1>3. CASE next # total
  <2>1. mqtt_sending' = [id |-> id, topic |-> t, total |-> total, next |-> next + 1]
    BY <1>1, <1>3 DEF Mqtt!Sent
  <2>2. next + 1 \in Nat /\ 1 <= next + 1 /\ next + 1 <= total
    BY <1>1, <1>3
  <2>3. mqtt_sending' # Mqtt!NotSending
    BY <1>1, <2>1 DEF Mqtt!NotSending
  <2> QED BY <1>1, <1>3, <2>1, <2>2, <2>3 DEF Mqtt!SendingInv
<1> QED BY <1>2, <1>3

\* A message in one piece.
LEMMA WholeKeeps ==
  ASSUME Mqtt!MqttAssumption, Mqtt!MqttInv, Mqtt!EventWholeData
  PROVE  Mqtt!MqttInv'
<1>0. mqtt_sending.total = 1 /\ mqtt_sending' = Mqtt!Sent /\ mqtt_long' = Mqtt!NoLong /\ UNCHANGED <<mqtt_data, mqtt_slots, mqtt_connected, mqtt_broker, mqtt_messages>>
  BY DEF Mqtt!EventWholeData
<1>1. PICK id \in Nat, total \in Nat, next \in Nat, t \in Topics :
         /\ mqtt_sending = [id |-> id, topic |-> t, total |-> total, next |-> next]
         /\ 1 <= next /\ next <= total
  <2>1. mqtt_sending # Mqtt!NotSending
    BY <1>0 DEF Mqtt!NotSending
  <2> QED BY <2>1 DEF Mqtt!MqttInv, Mqtt!SendingInv
<1>2. mqtt_sending.id = id /\ mqtt_sending.topic = t /\ mqtt_sending.next = mqtt_sending.total /\ mqtt_sending # Mqtt!NotSending
  BY <1>0, <1>1 DEF Mqtt!NotSending
<1>3. Mqtt!Pieces(id, 1) = {<<id, 1>>}
  BY DEF Mqtt!Pieces
<1>4. Mqtt!MessagesAreWhole'
  <2>1. mqtt_calls' = Mqtt!Called(t, id, Mqtt!Pieces(id, 1))
    BY <1>2, <1>3 DEF Mqtt!EventWholeData
  <2> QED BY <1>0, <2>1, CalledWhole DEF Mqtt!MqttInv
<1>5. mqtt_sending' = Mqtt!NotSending /\ Mqtt!SendingInv'
  BY <1>0, <1>2, SentIs
<1>6. Mqtt!SlotsInv' /\ Mqtt!BrokerInv'
  BY <1>0 DEF Mqtt!MqttInv, Mqtt!SlotsInv, Mqtt!BrokerInv, Mqtt!BrokerKnowsTable, Mqtt!Subscribed
<1>7. Mqtt!LongInv'
  BY <1>0, <1>5 DEF Mqtt!LongInv
<1> QED BY <1>0, <1>4, <1>5, <1>6, <1>7 DEF Mqtt!MqttInv

\* A piece that fits what is assembled so far.
LEMMA AssembledKeeps ==
  ASSUME Mqtt!MqttAssumption, Mqtt!MqttInv, mqtt_sending # Mqtt!NotSending,
         NEW t \in Topics, NEW has, has = Mqtt!Pieces(mqtt_sending.id, mqtt_sending.next - 1),
         Mqtt!Assembled([topic |-> t, has |-> has]), mqtt_sending' = Mqtt!Sent,
         UNCHANGED <<mqtt_data, mqtt_slots, mqtt_connected, mqtt_broker, mqtt_messages>>
  PROVE  Mqtt!MqttInv'
<1>1. PICK id \in Nat, total \in Nat, next \in Nat : 
         mqtt_sending.id = id /\ mqtt_sending.total = total /\ mqtt_sending.next = next /\ 1 <= next /\ next <= total
  BY DEF Mqtt!MqttInv, Mqtt!SendingInv
<1> DEFINE now == [topic |-> t, has |-> has \cup {<<id, next>>}]
<1>2. now.has = Mqtt!Pieces(id, next)
  <2>1. \A k : k \in 1 .. next <=> k \in 1 .. next - 1 \/ k = next
    BY <1>1
  <2> QED BY <1>1, <2>1 DEF Mqtt!Pieces
<1>3. IF next = total THEN mqtt_calls' = Mqtt!Called(t, id, now.has) /\ mqtt_long' = Mqtt!NoLong
                      ELSE mqtt_calls' = <<>> /\ mqtt_long' = now
  BY <1>1 DEF Mqtt!Assembled
<1>4. Mqtt!MessagesAreWhole'
  <2>1. CASE next = total
    <3>1. mqtt_calls' = Mqtt!Called(t, id, Mqtt!Pieces(id, total)) /\ mqtt_sending.total = total
      BY <1>1, <1>2, <1>3, <2>1
    <3> QED BY <3>1, CalledWhole DEF Mqtt!MqttInv
  <2>2. CASE next # total
    BY <1>3, <2>2, NoCalls
  <2> QED BY <2>1, <2>2
<1>5. Mqtt!SlotsInv' /\ Mqtt!BrokerInv'
  BY DEF Mqtt!MqttInv, Mqtt!SlotsInv, Mqtt!BrokerInv, Mqtt!BrokerKnowsTable, Mqtt!Subscribed
<1>6. /\ Mqtt!SendingInv'
      /\ next = total => mqtt_sending' = Mqtt!NotSending
      /\ next # total => mqtt_sending' # Mqtt!NotSending /\ mqtt_sending'.id = id /\ mqtt_sending'.next = next + 1
  BY <1>1, SentIs
<1>7. Mqtt!LongInv'
  <2>1. CASE next = total
    BY <1>3, <1>6, <2>1 DEF Mqtt!LongInv
  <2>2. CASE next # total
    <3>1. mqtt_long' = now /\ mqtt_long'.has = Mqtt!Pieces(id, next)
      BY <1>2, <1>3, <2>2
    <3>2. mqtt_sending'.next - 1 = next
      BY <1>1, <1>6, <2>2
    <3>3. mqtt_long'.has = Mqtt!Pieces(mqtt_sending'.id, mqtt_sending'.next - 1)
      BY <1>6, <2>2, <3>1, <3>2
    <3> QED BY <3>1, <3>3 DEF Mqtt!LongInv
  <2> QED BY <2>1, <2>2
<1> QED BY <1>4, <1>5, <1>6, <1>7 DEF Mqtt!MqttInv

\* A piece there is nothing to put in.
LEMMA DroppedKeeps ==
  ASSUME Mqtt!MqttAssumption, Mqtt!MqttInv, mqtt_sending # Mqtt!NotSending, mqtt_long' = Mqtt!NoLong, mqtt_calls' = <<>>, mqtt_sending' = Mqtt!Sent,
         UNCHANGED <<mqtt_data, mqtt_slots, mqtt_connected, mqtt_broker, mqtt_messages>>
  PROVE  Mqtt!MqttInv'
<1>1. Mqtt!SlotsInv' /\ Mqtt!BrokerInv'
  BY DEF Mqtt!MqttInv, Mqtt!SlotsInv, Mqtt!BrokerInv, Mqtt!BrokerKnowsTable, Mqtt!Subscribed
<1>2. Mqtt!LongInv'
  BY DEF Mqtt!LongInv
<1> QED BY <1>1, <1>2, SentIs, NoCalls DEF Mqtt!MqttInv

\* The first piece of a longer one.
LEMMA FirstKeeps ==
  ASSUME Mqtt!MqttAssumption, Mqtt!MqttInv, NEW memory \in BOOLEAN, Mqtt!EventFirstData(memory)
  PROVE  Mqtt!MqttInv'
<1>1. /\ mqtt_sending.total > 1 /\ mqtt_sending.next = 1 /\ mqtt_sending' = Mqtt!Sent
      /\ UNCHANGED <<mqtt_data, mqtt_slots, mqtt_connected, mqtt_broker, mqtt_messages>>
  BY DEF Mqtt!EventFirstData
<1>2. mqtt_sending # Mqtt!NotSending /\ mqtt_sending.topic \in Topics
  <2>1. mqtt_sending # Mqtt!NotSending
    BY <1>1 DEF Mqtt!NotSending
  <2> QED BY <2>1 DEF Mqtt!MqttInv, Mqtt!SendingInv
<1>3. CASE memory
  <2>1. PICK t \in Topics : t = mqtt_sending.topic
    BY <1>2
  <2>2. Mqtt!Assembled([topic |-> t, has |-> {}])
    BY <1>3, <2>1 DEF Mqtt!EventFirstData, Mqtt!NewLong
  <2>3. {} = Mqtt!Pieces(mqtt_sending.id, mqtt_sending.next - 1)
    BY <1>1 DEF Mqtt!Pieces
  <2> QED BY <1>1, <1>2, <2>2, <2>3, AssembledKeeps
<1>4. CASE ~memory
  BY <1>1, <1>2, <1>4, DroppedKeeps DEF Mqtt!EventFirstData
<1> QED BY <1>3, <1>4

\* Another piece: the message goes on or is complete.
LEMMA MoreKeeps ==
  ASSUME Mqtt!MqttAssumption, Mqtt!MqttInv, Mqtt!EventMoreData
  PROVE  Mqtt!MqttInv'
<1>1. /\ mqtt_sending.total > 1 /\ mqtt_sending.next > 1 /\ mqtt_sending' = Mqtt!Sent
      /\ UNCHANGED <<mqtt_data, mqtt_slots, mqtt_connected, mqtt_broker, mqtt_messages>>
  BY DEF Mqtt!EventMoreData
<1>2. mqtt_sending # Mqtt!NotSending
  BY <1>1 DEF Mqtt!NotSending
<1>3. CASE mqtt_long = Mqtt!NoLong
  BY <1>1, <1>2, <1>3, DroppedKeeps DEF Mqtt!EventMoreData
<1>4. CASE mqtt_long # Mqtt!NoLong
  <2>0. PICK t \in Topics : \E has : mqtt_long = [topic |-> t, has |-> has]
    BY <1>4 DEF Mqtt!MqttInv, Mqtt!LongInv
  <2>1. PICK has : mqtt_long = [topic |-> t, has |-> has]
    BY <2>0
  <2>2. has = Mqtt!Pieces(mqtt_sending.id, mqtt_sending.next - 1)
    BY <1>1, <1>2, <1>4, <2>1 DEF Mqtt!MqttInv, Mqtt!LongInv
  <2>3. Mqtt!Assembled([topic |-> t, has |-> has])
    BY <1>4, <2>1 DEF Mqtt!EventMoreData
  <2> QED BY <1>1, <1>2, <2>2, <2>3, AssembledKeeps
<1> QED BY <1>3, <1>4

\* The broker begins to send a message.
LEMMA SendKeeps ==
  ASSUME Mqtt!MqttAssumption, Mqtt!MqttInv, NEW t \in mqtt_broker, NEW n \in 1 .. MaxPieces, Mqtt!Send(t, n)
  PROVE  Mqtt!MqttInv'
<1>1. /\ mqtt_sending' = [id |-> mqtt_messages + 1, topic |-> t, total |-> n, next |-> 1]
      /\ mqtt_messages' = mqtt_messages + 1 /\ mqtt_calls' = <<>>
      /\ UNCHANGED <<mqtt_data, mqtt_slots, mqtt_connected, mqtt_broker, mqtt_long>>
  BY DEF Mqtt!Send
<1>2. t \in Topics /\ mqtt_messages + 1 \in Nat /\ n \in Nat /\ 1 <= n
  BY DEF Mqtt!MqttInv, Mqtt!BrokerInv, Mqtt!MqttAssumption
<1>3. Mqtt!SendingInv'
  BY <1>1, <1>2 DEF Mqtt!SendingInv
<1>4. Mqtt!LongInv'
  BY <1>1 DEF Mqtt!MqttInv, Mqtt!LongInv
<1>5. Mqtt!SlotsInv' /\ Mqtt!BrokerInv'
  BY <1>1 DEF Mqtt!MqttInv, Mqtt!SlotsInv, Mqtt!BrokerInv, Mqtt!BrokerKnowsTable, Mqtt!Subscribed
<1> QED BY <1>1, <1>2, <1>3, <1>4, <1>5, NoCalls DEF Mqtt!MqttInv

\* Whatever ends the connection or changes only the table.
LEMMA LongStays ==
  ASSUME Mqtt!MqttInv, mqtt_long' = mqtt_long, mqtt_sending' = Mqtt!NotSending \/ mqtt_sending' = mqtt_sending
  PROVE  Mqtt!LongInv' /\ Mqtt!SendingInv'
BY DEF Mqtt!MqttInv, Mqtt!LongInv, Mqtt!SendingInv

\* Every step keeps the invariant.
LEMMA MqttStep ==
  ASSUME Mqtt!MqttAssumption, Mqtt!MqttInv, [Mqtt!Next]_Mqtt!vars
  PROVE  Mqtt!MqttInv'
<1>1. CASE Mqtt!GlueInit
  <2>1. /\ mqtt_slots' = Mqtt!NoTable /\ mqtt_calls' = <<>> /\ mqtt_data' \in BOOLEAN /\ ~mqtt_data
        /\ UNCHANGED <<mqtt_connected, mqtt_broker, mqtt_sending, mqtt_long, mqtt_messages>>
    BY <1>1 DEF Mqtt!GlueInit
  <2>2. Mqtt!BrokerInv'
    BY <2>1 DEF Mqtt!MqttInv, Mqtt!BrokerInv, Mqtt!BrokerKnowsTable
  <2> QED BY <2>1, <2>2, NoTableIs, LongStays, NoCalls DEF Mqtt!MqttInv
<1>2. ASSUME NEW t \in Topics, Mqtt!Subscribe(t) PROVE Mqtt!MqttInv'
  <2>1. mqtt_calls' = <<>> /\ UNCHANGED <<mqtt_sending, mqtt_long, mqtt_messages>>
    BY <1>2 DEF Mqtt!Subscribe
  <2> QED BY <1>2, <2>1, SubscribeKeeps, LongStays, NoCalls DEF Mqtt!MqttInv
<1>3. ASSUME NEW t \in Topics, Mqtt!Unsubscribe(t) PROVE Mqtt!MqttInv'
  <2>1. mqtt_calls' = <<>> /\ UNCHANGED <<mqtt_sending, mqtt_long, mqtt_messages>>
    BY <1>3 DEF Mqtt!Unsubscribe
  <2> QED BY <1>3, <2>1, UnsubscribeKeeps, LongStays, NoCalls DEF Mqtt!MqttInv
<1>4. CASE Mqtt!EventConnected
  <2>1. /\ mqtt_connected' = TRUE /\ mqtt_broker' = Mqtt!Subscribed /\ mqtt_calls' = <<>> /\ mqtt_data
        /\ UNCHANGED <<mqtt_data, mqtt_slots, mqtt_sending, mqtt_long, mqtt_messages>>
    BY <1>4 DEF Mqtt!EventConnected
  <2>2. Mqtt!Subscribed \subseteq Topics /\ Mqtt!Subscribed' = Mqtt!Subscribed
    BY <2>1 DEF Mqtt!MqttInv, Mqtt!SlotsInv, Mqtt!Subscribed
  <2>3. Mqtt!BrokerInv' /\ Mqtt!SlotsInv'
    BY <2>1, <2>2 DEF Mqtt!MqttInv, Mqtt!BrokerInv, Mqtt!BrokerKnowsTable, Mqtt!SlotsInv
  <2> QED BY <2>1, <2>3, LongStays, NoCalls DEF Mqtt!MqttInv
<1>5. CASE Mqtt!EventDisconnected
  <2>1. /\ mqtt_connected' = FALSE /\ mqtt_broker' = {} /\ mqtt_calls' = <<>> /\ mqtt_sending' = Mqtt!NotSending
        /\ UNCHANGED <<mqtt_data, mqtt_slots, mqtt_long, mqtt_messages>>
    BY <1>5 DEF Mqtt!EventDisconnected
  <2>2. Mqtt!BrokerInv' /\ Mqtt!SlotsInv'
    BY <2>1 DEF Mqtt!MqttInv, Mqtt!BrokerInv, Mqtt!BrokerKnowsTable, Mqtt!SlotsInv
  <2> QED BY <2>1, <2>2, LongStays, NoCalls DEF Mqtt!MqttInv
<1>6. CASE Mqtt!Disconnect \/ Mqtt!Deinit
  <2>1. /\ mqtt_connected' = FALSE /\ mqtt_broker' = {} /\ mqtt_calls' = <<>> /\ mqtt_sending' = Mqtt!NotSending
        /\ mqtt_slots' = Mqtt!NoTable /\ mqtt_data' \in BOOLEAN /\ UNCHANGED <<mqtt_long, mqtt_messages>>
    BY <1>6 DEF Mqtt!Disconnect, Mqtt!Deinit, Mqtt!MqttInv, Mqtt!BrokerInv
  <2>2. Mqtt!BrokerInv'
    BY <2>1 DEF Mqtt!MqttInv, Mqtt!BrokerInv, Mqtt!BrokerKnowsTable
  <2> QED BY <2>1, <2>2, NoTableIs, LongStays, NoCalls DEF Mqtt!MqttInv
<1>7. CASE \E t \in mqtt_broker, n \in 1..MaxPieces : Mqtt!Send(t, n)
  BY <1>7, SendKeeps
<1>8. CASE Mqtt!EventWholeData
  BY <1>8, WholeKeeps
<1>9. CASE \E memory \in BOOLEAN : Mqtt!EventFirstData(memory)
  BY <1>9, FirstKeeps
<1>10. CASE Mqtt!EventMoreData
  BY <1>10, MoreKeeps
<1>11. CASE UNCHANGED Mqtt!vars
  <2>1. UNCHANGED <<mqtt_data, mqtt_slots, mqtt_connected, mqtt_broker, mqtt_sending, mqtt_long, mqtt_calls, mqtt_messages>>
    BY <1>11 DEF Mqtt!vars
  <2>2. Mqtt!SlotsInv' /\ Mqtt!BrokerInv'
    BY <2>1 DEF Mqtt!MqttInv, Mqtt!SlotsInv, Mqtt!BrokerInv, Mqtt!BrokerKnowsTable, Mqtt!Subscribed
  <2>3. Mqtt!MessagesAreWhole'
    BY <2>1 DEF Mqtt!MqttInv, Mqtt!MessagesAreWhole, Mqtt!Subscribed
  <2> QED BY <2>1, <2>2, <2>3, LongStays DEF Mqtt!MqttInv
<1> QED BY <1>1, <1>2, <1>3, <1>4, <1>5, <1>6, <1>7, <1>8, <1>9, <1>10, <1>11 DEF Mqtt!Next

\* So the glue of every reachable state has its properties.
LEMMA MqttSafe == Spec => [](Mqtt!MessagesAreWhole /\ Mqtt!BrokerKnowsTable)
<1>1. Mqtt!MqttAssumption
  BY LibraryAssumptions
<1>2. Init => Mqtt!MqttInv
  BY <1>1, MqttStarts DEF Init
<1>3. Mqtt!MqttInv /\ [Next]_vars => Mqtt!MqttInv'
  <2>1. [Next]_vars => [Mqtt!Next]_Mqtt!vars
    BY DEF Next, vars, mqttVars, Mqtt!vars
  <2> QED BY <1>1, <2>1, MqttStep
<1>4. Mqtt!MqttInv => Mqtt!MessagesAreWhole /\ Mqtt!BrokerKnowsTable
  BY DEF Mqtt!MqttInv, Mqtt!BrokerInv
<1> QED BY <1>2, <1>3, <1>4, PTL DEF Spec

(***************************************************************************)
(* The co-processor's images.                                              *)
(***************************************************************************)

\* One field of the choice is set, the other stays.
LEMMA ExceptVerified ==
  ASSUME NEW n, NEW a, NEW b
  PROVE  [[seq |-> n, verified |-> a] EXCEPT !.verified = b] = [seq |-> n, verified |-> b]
OBVIOUS

\* The fields of a choice.
LEMMA ChoiceFields ==
  ASSUME NEW h \in Rcp!Choice
  PROVE  h.seq \in {0, 1} /\ [h EXCEPT !.verified = FALSE] = [seq |-> h.seq, verified |-> FALSE]
<1>1. PICK n \in {0, 1}, ok \in BOOLEAN : h = [seq |-> n, verified |-> ok]
  BY DEF Rcp!Choice
<1>2. h.seq = n
  BY <1>1
<1>3. [h EXCEPT !.verified = FALSE] = [seq |-> n, verified |-> FALSE]
  <2>1. [[seq |-> n, verified |-> ok] EXCEPT !.verified = FALSE] = [seq |-> n, verified |-> FALSE]
    BY ExceptVerified
  <2> QED BY <1>1, <2>1, Zenon
<1> QED BY <1>2, <1>3

\* What is chosen, next, and after a restart.
LEMMA ChoiceIs ==
  ASSUME NEW h \in Rcp!Choice
  PROVE  /\ h # Rcp!NoByte /\ Rcp!Load(h) = h /\ Rcp!UpdateSeq(h) \in {0, 1} /\ Rcp!NextUpdateSeq(h) \in {0, 1}
         /\ Rcp!NextUpdateSeq(h) # Rcp!UpdateSeq(h)
         /\ \A n \in {0, 1}, ok \in BOOLEAN :
              LET g == [seq |-> n, verified |-> ok]
              IN  g \in Rcp!Choice /\ Rcp!UpdateSeq(g) = IF ok THEN n ELSE 1 - n
BY DEF Rcp!Choice, Rcp!NoByte, Rcp!Load, Rcp!UpdateSeq, Rcp!NextUpdateSeq

\* Storing a choice: the NVS has the old byte or the new one.
LEMMA StoreIs ==
  ASSUME Rcp!RcpInv, NEW h \in Rcp!Choice, Rcp!Store(h)
  PROVE  /\ rcp_handle' = h /\ rcp_nvs' \in Rcp!Choice \cup {Rcp!NoByte}
         /\ rcp_errors' \in Nat /\ rcp_lost' \in BOOLEAN
         /\ ~rcp_lost' => Rcp!Load(rcp_nvs') = rcp_handle'
         /\ Rcp!Stored' = Rcp!Stored \/ Rcp!Stored' = Rcp!UpdateSeq(h)
<1>1. Rcp!Load(h) = h
  BY ChoiceIs
<1>2. rcp_handle' = h /\ (rcp_nvs' = rcp_nvs \/ rcp_nvs' = h) /\ rcp_lost' = (rcp_nvs' # h)
  BY DEF Rcp!Store
<1>3. rcp_errors' \in Nat
  BY DEF Rcp!Store, Rcp!RcpInv
<1>4. rcp_nvs' \in Rcp!Choice \cup {Rcp!NoByte} /\ rcp_lost' \in BOOLEAN
  BY <1>2 DEF Rcp!RcpInv
<1>5. ~rcp_lost' => Rcp!Load(rcp_nvs') = rcp_handle'
  BY <1>1, <1>2
<1>6. Rcp!Stored' = Rcp!Stored \/ Rcp!Stored' = Rcp!UpdateSeq(h)
  BY <1>1, <1>2 DEF Rcp!Stored
<1> QED BY <1>2, <1>3, <1>4, <1>5, <1>6

\* The invariant holds at first.
LEMMA RcpStarts == Rcp!Init => Rcp!RcpInv
<1> SUFFICES ASSUME Rcp!Init PROVE Rcp!RcpInv
  OBVIOUS
<1>1. rcp_handle = [seq |-> 0, verified |-> TRUE] /\ rcp_nvs = Rcp!NoByte /\ Rcp!Load(rcp_nvs) = rcp_handle
  BY DEF Rcp!Init, Rcp!Load
<1>2. rcp_handle \in Rcp!Choice /\ Rcp!UpdateSeq(rcp_handle) = 0 /\ Rcp!Stored = 0
  BY <1>1 DEF Rcp!Choice, Rcp!UpdateSeq, Rcp!Stored
<1>3. rcp_dirs \in [{0, 1} -> Int] /\ rcp_dirs[0] = 0
  BY DEF Rcp!Init, Rcp!Missing
<1>4. rcp_loading = Rcp!Nowhere /\ rcp_images = 0 /\ rcp_errors = 0 /\ rcp_lost = FALSE /\ rcp_strayed = FALSE
  BY DEF Rcp!Init
<1>5. rcp_dirs[Rcp!Stored] >= 0 /\ rcp_dirs[Rcp!UpdateSeq(rcp_handle)] >= 0
  BY <1>2, <1>3
<1>6. ~rcp_lost => Rcp!Load(rcp_nvs) = rcp_handle
  BY <1>1
<1>7. rcp_nvs \in Rcp!Choice \cup {Rcp!NoByte} /\ rcp_loading \in {Rcp!Nowhere, 0, 1}
  BY <1>1, <1>4
<1>8. rcp_images \in Nat /\ rcp_errors \in Nat /\ rcp_lost \in BOOLEAN /\ rcp_strayed \in BOOLEAN
  BY <1>4
<1> QED BY <1>2, <1>3, <1>4, <1>5, <1>6, <1>7, <1>8 DEF Rcp!RcpInv

\* A mark chooses a directory with a complete image, or strays.
LEMMA MarkStep ==
  ASSUME Rcp!RcpInv, NEW h \in Rcp!Choice, Rcp!Mark(h)
  PROVE  Rcp!RcpInv'
<1>1. /\ Rcp!Store(h) /\ rcp_strayed' = (rcp_strayed \/ rcp_dirs[Rcp!UpdateSeq(h)] < 0)
      /\ UNCHANGED <<rcp_dirs, rcp_loading, rcp_images>>
  BY DEF Rcp!Mark
<1>2. Rcp!UpdateSeq(h) \in {0, 1} /\ Rcp!UpdateSeq(rcp_handle') = Rcp!UpdateSeq(h)
  BY <1>1, ChoiceIs, StoreIs
<1>3. ~rcp_strayed' => rcp_dirs'[Rcp!Stored'] >= 0 /\ rcp_dirs'[Rcp!UpdateSeq(rcp_handle')] >= 0
  <2> SUFFICES ASSUME ~rcp_strayed'
               PROVE  rcp_dirs[Rcp!Stored'] >= 0 /\ rcp_dirs[Rcp!UpdateSeq(h)] >= 0
    BY <1>1, <1>2
  <2>1. ~rcp_strayed /\ ~(rcp_dirs[Rcp!UpdateSeq(h)] < 0)
    BY <1>1
  <2>2. rcp_dirs[Rcp!UpdateSeq(h)] \in Int
    BY <1>2 DEF Rcp!RcpInv
  <2>3. rcp_dirs[Rcp!Stored] >= 0
    BY <2>1 DEF Rcp!RcpInv
  <2> QED BY <1>1, <2>1, <2>2, <2>3, StoreIs
<1>4. rcp_strayed' \in BOOLEAN
  BY <1>1 DEF Rcp!RcpInv
<1>5. rcp_handle' \in Rcp!Choice
  BY <1>1, StoreIs
<1> QED BY <1>1, <1>3, <1>4, <1>5, StoreIs DEF Rcp!RcpInv

\* A new image goes to the directory that is then submitted.
LEMMA SubmitStep ==
  ASSUME Rcp!RcpInv, Rcp!SubmitNewImage
  PROVE  Rcp!RcpInv'
<1> DEFINE h == [seq |-> Rcp!NextUpdateSeq(rcp_handle), verified |-> TRUE]
<1>0. /\ rcp_handle \in Rcp!Choice /\ Rcp!UpdateSeq(rcp_handle) \in {0, 1}
      /\ Rcp!NextUpdateSeq(rcp_handle) \in {0, 1}
      /\ Rcp!NextUpdateSeq(rcp_handle) # Rcp!UpdateSeq(rcp_handle)
  BY ChoiceIs DEF Rcp!RcpInv
<1>1. h \in Rcp!Choice /\ Rcp!UpdateSeq(h) = Rcp!NextUpdateSeq(rcp_handle)
  BY <1>0, ChoiceIs
<1>2. /\ Rcp!Store(h) /\ rcp_loading \in {0, 1} /\ rcp_loading' = Rcp!Nowhere
      /\ rcp_dirs' = [rcp_dirs EXCEPT ![rcp_loading] = rcp_images]
      /\ UNCHANGED <<rcp_images, rcp_strayed>>
  BY DEF Rcp!SubmitNewImage, Rcp!RcpInv
<1>3. rcp_dirs[rcp_loading] = -2 /\ rcp_images \in Nat /\ rcp_dirs \in [{0, 1} -> Int]
  BY <1>2 DEF Rcp!RcpInv, Rcp!Partial, Rcp!Nowhere, Rcp!SubmitNewImage
<1> HIDE DEF h
<1>4. ~rcp_strayed' => rcp_dirs'[Rcp!Stored'] >= 0 /\ rcp_dirs'[Rcp!UpdateSeq(rcp_handle')] >= 0
  <2> SUFFICES ASSUME ~rcp_strayed'
               PROVE  rcp_dirs'[Rcp!Stored'] >= 0 /\ rcp_dirs'[Rcp!UpdateSeq(h)] >= 0
    BY <1>1, <1>2, StoreIs
  <2>1. rcp_dirs[Rcp!Stored] >= 0 /\ rcp_dirs[Rcp!UpdateSeq(rcp_handle)] >= 0
    BY <1>2 DEF Rcp!RcpInv
  <2>2. rcp_loading = Rcp!UpdateSeq(h) /\ rcp_loading # Rcp!Stored
    BY <1>0, <1>1, <1>2, <1>3, <2>1
  <2>3. Rcp!Stored \in {0, 1}
    BY ChoiceIs DEF Rcp!RcpInv, Rcp!Stored, Rcp!Load, Rcp!Choice, Rcp!UpdateSeq, Rcp!NoByte
  <2>4. rcp_dirs'[Rcp!UpdateSeq(h)] >= 0 /\ rcp_dirs'[Rcp!Stored] >= 0
    BY <1>2, <1>3, <2>1, <2>2, <2>3
  <2> QED BY <1>1, <1>2, <2>4, StoreIs
<1>5. rcp_handle' \in Rcp!Choice
  BY <1>1, <1>2, StoreIs
<1>6. rcp_dirs' \in [{0, 1} -> Int]
  BY <1>2, <1>3
<1> QED BY <1>1, <1>2, <1>4, <1>5, <1>6, StoreIs DEF Rcp!RcpInv, Rcp!Nowhere

\* Every step keeps the invariant.
LEMMA RcpStep ==
  ASSUME Rcp!RcpInv, [Rcp!Next]_Rcp!vars
  PROVE  Rcp!RcpInv'
<1>0. /\ rcp_handle \in Rcp!Choice /\ Rcp!UpdateSeq(rcp_handle) \in {0, 1} /\ Rcp!NextUpdateSeq(rcp_handle) \in {0, 1}
      /\ Rcp!NextUpdateSeq(rcp_handle) # Rcp!UpdateSeq(rcp_handle)
  BY ChoiceIs DEF Rcp!RcpInv
<1>s. Rcp!Stored \in {0, 1}
  BY ChoiceIs DEF Rcp!RcpInv, Rcp!Stored, Rcp!Load, Rcp!Choice, Rcp!UpdateSeq, Rcp!NoByte
<1>1. CASE Rcp!StartDownload
  <2> DEFINE n == Rcp!NextUpdateSeq(rcp_handle)
  <2>1. /\ rcp_loading' = n /\ rcp_dirs' = [rcp_dirs EXCEPT ![n] = -2] /\ rcp_images' = rcp_images + 1
        /\ rcp_strayed' = (rcp_strayed \/ n = Rcp!Stored)
        /\ UNCHANGED <<rcp_handle, rcp_nvs, rcp_errors, rcp_lost>>
    BY <1>1 DEF Rcp!StartDownload, Rcp!Partial
  <2>2. Rcp!Stored' = Rcp!Stored
    BY <2>1 DEF Rcp!Stored
  <2>3. ~rcp_strayed' => rcp_dirs'[Rcp!Stored] >= 0 /\ rcp_dirs'[Rcp!UpdateSeq(rcp_handle)] >= 0
    BY <1>0, <1>s, <2>1 DEF Rcp!RcpInv
  <2>4. rcp_dirs' \in [{0, 1} -> Int] /\ rcp_dirs'[rcp_loading'] = -2 /\ rcp_loading' \in {0, 1}
        /\ rcp_strayed' \in BOOLEAN /\ rcp_images' \in Nat
    BY <1>0, <2>1 DEF Rcp!RcpInv
  <2> QED BY <2>1, <2>2, <2>3, <2>4 DEF Rcp!RcpInv, Rcp!Partial
<1>2. CASE Rcp!SubmitNewImage
  BY <1>2, SubmitStep
<1>3. ASSUME NEW ok \in BOOLEAN, Rcp!MarkImageVerified(ok) PROVE Rcp!RcpInv'
  <2>1. Rcp!Marked(rcp_handle, ok) \in Rcp!Choice
    BY <1>0, ChoiceIs DEF Rcp!Marked
  <2> QED BY <1>3, <2>1, MarkStep DEF Rcp!MarkImageVerified
<1>4. CASE Rcp!MarkImageUnusable
  <2>1. [rcp_handle EXCEPT !.verified = FALSE] \in Rcp!Choice
    <3>1. rcp_handle.seq \in {0, 1} /\ [rcp_handle EXCEPT !.verified = FALSE] = [seq |-> rcp_handle.seq, verified |-> FALSE]
      BY <1>0, ChoiceFields
    <3> QED BY <3>1 DEF Rcp!Choice
  <2> QED BY <1>4, <2>1, MarkStep DEF Rcp!MarkImageUnusable
<1>5. CASE Rcp!Restart
  <2>1. Rcp!Load(rcp_nvs) \in Rcp!Choice /\ Rcp!Load(Rcp!Load(rcp_nvs)) = Rcp!Load(rcp_nvs)
    BY ChoiceIs DEF Rcp!RcpInv, Rcp!Load, Rcp!Choice, Rcp!NoByte
  <2>2. /\ rcp_handle' = Rcp!Load(rcp_nvs) /\ rcp_loading' = Rcp!Nowhere /\ rcp_lost' = FALSE
        /\ UNCHANGED <<rcp_nvs, rcp_dirs, rcp_images, rcp_errors, rcp_strayed>>
    BY <1>5 DEF Rcp!Restart
  <2>3. Rcp!Stored' = Rcp!Stored /\ Rcp!UpdateSeq(rcp_handle') = Rcp!Stored
    BY <2>2 DEF Rcp!Stored
  <2> QED BY <2>1, <2>2, <2>3 DEF Rcp!RcpInv
<1>6. CASE UNCHANGED Rcp!vars
  BY <1>6 DEF Rcp!vars, Rcp!RcpInv, Rcp!Stored
<1> QED BY <1>1, <1>2, <1>3, <1>4, <1>5, <1>6 DEF Rcp!Next

\* So the images of every reachable state have their properties.
LEMMA RcpSafe == Spec => [](Rcp!RestartKeepsChoice /\ Rcp!ChosenIsComplete)
<1>1. Init => Rcp!RcpInv
  BY RcpStarts DEF Init
<1>2. Rcp!RcpInv /\ [Next]_vars => Rcp!RcpInv'
  <2>1. [Next]_vars => [Rcp!Next]_Rcp!vars
    BY DEF Next, vars, rcpVars, Rcp!vars
  <2> QED BY <2>1, RcpStep
<1>3. Rcp!RcpInv => Rcp!RestartKeepsChoice /\ Rcp!ChosenIsComplete
  BY DEF Rcp!RcpInv, Rcp!RestartKeepsChoice, Rcp!ChosenIsComplete, Rcp!Stored
<1> QED BY <1>1, <1>2, <1>3, PTL DEF Spec

(***************************************************************************)
(* The encrypted image (EncryptedImgProofs).                               *)
(***************************************************************************)

\* The image's constants.
LEMMA ImageAssumption == EP!EncryptedImgAssumption
BY LibraryAssumptions DEF Enc!EncryptedImgAssumption, EP!EncryptedImgAssumption

\* EncryptedImgProofs speaks of the same operators as MCLibraries, one by one.
LEMMA ImageBytes ==
  /\ EP!KeyAt = Enc!KeyAt /\ EP!IvAt = Enc!IvAt /\ EP!LenAt = Enc!LenAt /\ EP!BinAt = Enc!BinAt
  /\ \A n, k : EP!Bytes(n, k) = Enc!Bytes(n, k)
  /\ \A to, at, bytes : EP!Copy(to, at, bytes) = Enc!Copy(to, at, bytes)
  /\ \A a, b : EP!Smaller(a, b) = Enc!Smaller(a, b)
BY DEF EP!KeyAt, EP!IvAt, EP!LenAt, EP!AuthAt, EP!ExtraAt, EP!BinAt, EP!Bytes, EP!Copy, EP!Smaller,
   Enc!KeyAt, Enc!IvAt, Enc!LenAt, Enc!AuthAt, Enc!ExtraAt, Enc!BinAt, Enc!Bytes, Enc!Copy, Enc!Smaller

\* What the fields' bytes mean.
LEMMA ImageFields ==
  ASSUME NEW bytes
  PROVE  /\ EP!LengthIn(bytes) = Enc!LengthIn(bytes)
         /\ EP!MagicIn(bytes) <=> Enc!MagicIn(bytes)
         /\ EP!KeyIn(bytes) <=> Enc!KeyIn(bytes)
BY ImageBytes DEF EP!LengthIn, EP!MagicIn, EP!KeyIn, Enc!LengthIn, Enc!MagicIn, Enc!KeyIn

\* What changes a call.
LEMMA ImageCalls ==
  ASSUME NEW c
  PROVE  /\ EP!Rest(c) = Enc!Rest(c)
         /\ \A r : EP!Return(c, r) = Enc!Return(c, r)
         /\ \A s : EP!Enter(c, s) = Enc!Enter(c, s)
         /\ \A n : EP!Skip(c, n) = Enc!Skip(c, n)
         /\ \A n : EP!Whole(c, n) <=> Enc!Whole(c, n)
BY DEF EP!Rest, EP!Return, EP!Enter, EP!Skip, EP!Whole,
   Enc!Rest, Enc!Return, Enc!Enter, Enc!Skip, Enc!Whole

\* read_and_cache_data.
LEMMA ImageCaches ==
  ASSUME NEW c, NEW size, NEW to
  PROVE  EP!ReadAndCache(c, size, to) = Enc!ReadAndCache(c, size, to)
BY ImageBytes, ImageCalls DEF EP!ReadAndCache, Enc!ReadAndCache

\* mbedtls_gcm_update.
LEMMA ImageUpdate ==
  ASSUME NEW c, NEW bytes, NEW at
  PROVE  EP!Update(c, bytes, at) = Enc!Update(c, bytes, at)
BY ImageBytes DEF EP!Update, Enc!Update

\* The magic, read.
LEMMA ImageMagicRead ==
  ASSUME NEW c, NEW bytes
  PROVE  EP!MagicRead(c, bytes) = Enc!MagicRead(c, bytes)
BY ImageFields, ImageCalls DEF EP!MagicRead, Enc!MagicRead

\* read_magic.
LEMMA ImageReadMagic ==
  ASSUME NEW c
  PROVE  EP!ReadMagic(c) = Enc!ReadMagic(c)
BY ImageCalls, ImageCaches, ImageMagicRead DEF EP!ReadMagic, Enc!ReadMagic

\* decipher_gcm_key.
LEMMA ImageDecipherGcmKey ==
  ASSUME NEW c, NEW bytes
  PROVE  EP!DecipherGcmKey(c, bytes) = Enc!DecipherGcmKey(c, bytes)
BY ImageFields, ImageCalls DEF EP!DecipherGcmKey, Enc!DecipherGcmKey

\* read_gcm.
LEMMA ImageReadGcm ==
  ASSUME NEW c
  PROVE  EP!ReadGcm(c) = Enc!ReadGcm(c)
BY ImageCalls, ImageCaches, ImageDecipherGcmKey DEF EP!ReadGcm, Enc!ReadGcm

\* read_iv and read_auth.
LEMMA ImageReadField ==
  ASSUME NEW c, NEW size, NEW to, NEW next
  PROVE  EP!ReadField(c, size, to, next) = Enc!ReadField(c, size, to, next)
BY DEF EP!ReadField, EP!Whole, EP!Skip, EP!Rest, EP!ReadAndCache, EP!Enter, EP!Return, EP!Copy, EP!Smaller,
   Enc!ReadField, Enc!Whole, Enc!Skip, Enc!Rest, Enc!ReadAndCache, Enc!Enter, Enc!Return, Enc!Copy, Enc!Smaller

\* read_iv.
LEMMA ImageReadIv ==
  ASSUME NEW c
  PROVE  EP!ReadIv(c) = Enc!ReadIv(c)
BY ImageReadField DEF EP!ReadIv, Enc!ReadIv

\* read_auth.
LEMMA ImageReadAuth ==
  ASSUME NEW c
  PROVE  EP!ReadAuth(c) = Enc!ReadAuth(c)
BY ImageReadField DEF EP!ReadAuth, Enc!ReadAuth

\* read_bin_size.
LEMMA ImageReadBinSize ==
  ASSUME NEW c
  PROVE  EP!ReadBinSize(c) = Enc!ReadBinSize(c)
<1>1. PICK t : t = "cache"
  OBVIOUS
<1>2. EP!ReadAndCache(c, BIN_SIZE_DATA, t) = Enc!ReadAndCache(c, BIN_SIZE_DATA, t)
  BY ImageCaches
<1>3. ASSUME NEW b PROVE EP!LengthIn(b) = Enc!LengthIn(b)
  BY ImageFields
<1>4. PICK d : d = Enc!ReadAndCache(c, BIN_SIZE_DATA, t)
  OBVIOUS
<1> QED BY <1>1, <1>2, <1>3, <1>4 DEF EP!ReadBinSize, Enc!ReadBinSize, EP!Whole, EP!Skip, EP!Rest, EP!Enter, EP!Return,
   Enc!Whole, Enc!Skip, Enc!Rest, Enc!Enter, Enc!Return

\* read_extra_header.
LEMMA ImageReadExtraHeader ==
  ASSUME NEW c
  PROVE  EP!ReadExtraHeader(c) = Enc!ReadExtraHeader(c)
BY ImageBytes, ImageCalls DEF EP!ReadExtraHeader, Enc!ReadExtraHeader

\* process_bin's steps, by name.
ImageCopied(c) == IF c.h.cached = 0 THEN 0 ELSE Enc!Smaller(BLOCK - c.h.cached, Len(Enc!Rest(c)))
ImageFilled(c) == IF ImageCopied(c) = 0 THEN c
                  ELSE [c EXCEPT !.h.cache = Enc!Copy(@, c.h.cached, SubSeq(Enc!Rest(c), 1, ImageCopied(c))),
                                 !.h.cached = @ + ImageCopied(c)]
ImageFirst(c) == IF c.h.cached = 0 THEN ImageFilled(c)
                 ELSE Enc!Update(ImageFilled(c), SubSeq(ImageFilled(c).h.cache, 1, BLOCK), 0)
ImageOver(c) == (Len(Enc!Rest(c)) - ImageCopied(c)) % BLOCK
ImageMiddle(c) == SubSeq(Enc!Rest(c), ImageCopied(c) + 1, Len(Enc!Rest(c)) - ImageOver(c))
ImageSecond(c) == IF ImageMiddle(c) = <<>> THEN ImageFirst(c)
                  ELSE Enc!Update(ImageFirst(c), ImageMiddle(c), IF c.h.cached = 0 THEN 0 ELSE BLOCK)
ImageLast(c) == [ImageSecond(c) EXCEPT !.h.cached = ImageOver(c),
                   !.h.cache = Enc!Copy(@, 0, SubSeq(Enc!Rest(c), Len(Enc!Rest(c)) - ImageOver(c) + 1, Len(Enc!Rest(c))))]

\* process_bin within the binary.
LEMMA ImageProcessMiddle ==
  ASSUME NEW c
  PROVE  EP!ProcessMiddle(c) = Enc!ProcessMiddle(c)
<1>1. Enc!ProcessMiddle(c) = IF c.h.cached # 0 /\ ImageFilled(c).h.cached # BLOCK
                               THEN Enc!Return(ImageFilled(c), "not_finished")
                               ELSE Enc!Return(ImageLast(c), "not_finished")
  BY DEF Enc!ProcessMiddle, ImageCopied, ImageFilled, ImageFirst, ImageOver, ImageMiddle, ImageSecond, ImageLast
<1>2. EP!ProcessMiddle(c) = IF c.h.cached # 0 /\ EP!Filled(c).h.cached # BLOCK
                              THEN EP!Return(EP!Filled(c), "not_finished")
                              ELSE EP!Return(EP!Last(c), "not_finished")
  BY DEF EP!ProcessMiddle, EP!Copied, EP!Filled, EP!First, EP!Over, EP!Middle, EP!Second, EP!Last
<1>3. EP!Rest(c) = Enc!Rest(c)
  BY ImageCalls
<1>4. EP!Copied(c) = ImageCopied(c)
  BY <1>3, ImageBytes DEF EP!Copied, ImageCopied
<1>5. EP!Over(c) = ImageOver(c) /\ EP!Middle(c) = ImageMiddle(c)
  BY <1>3, <1>4 DEF EP!Over, ImageOver, EP!Middle, ImageMiddle
<1>6. EP!Filled(c) = ImageFilled(c)
  BY <1>3, <1>4, ImageBytes DEF EP!Filled, ImageFilled
<1>7. EP!First(c) = ImageFirst(c)
  <2>1. PICK d, bytes, zero : d = ImageFilled(c) /\ bytes = SubSeq(ImageFilled(c).h.cache, 1, BLOCK) /\ zero = 0
    OBVIOUS
  <2>2. EP!Update(d, bytes, zero) = Enc!Update(d, bytes, zero)
    BY ImageUpdate
  <2> QED BY <1>6, <2>1, <2>2 DEF EP!First, ImageFirst
<1>8. EP!Second(c) = ImageSecond(c)
  <2>1. PICK d, bytes, at : /\ d = ImageFirst(c) /\ bytes = ImageMiddle(c)
                            /\ at = IF c.h.cached = 0 THEN 0 ELSE BLOCK
    OBVIOUS
  <2>2. EP!Update(d, bytes, at) = Enc!Update(d, bytes, at)
    BY ImageUpdate
  <2> QED BY <1>5, <1>7, <2>1, <2>2 DEF EP!Second, ImageSecond
<1>9. EP!Last(c) = ImageLast(c)
  BY <1>3, <1>5, <1>8, ImageBytes DEF EP!Last, ImageLast
<1>10. PICK more : more = "not_finished"
  OBVIOUS
<1>11. EP!Return(ImageFilled(c), more) = Enc!Return(ImageFilled(c), more)
       /\ EP!Return(ImageLast(c), more) = Enc!Return(ImageLast(c), more)
  BY DEF EP!Return, Enc!Return
<1> QED BY <1>1, <1>2, <1>6, <1>9, <1>10, <1>11

\* process_bin at its end.
LEMMA ImageProcessLast ==
  ASSUME NEW c
  PROVE  EP!ProcessLast(c) = Enc!ProcessLast(c)
BY DEF EP!ProcessLast, EP!Rest, EP!Return, EP!Copy, EP!Smaller, EP!Update,
   Enc!ProcessLast, Enc!Rest, Enc!Return, Enc!Copy, Enc!Smaller, Enc!Update

\* process_bin.
LEMMA ImageProcessBin ==
  ASSUME NEW c
  PROVE  EP!ProcessBin(c) = Enc!ProcessBin(c)
BY ImageProcessMiddle, ImageProcessLast DEF EP!ProcessBin, Enc!ProcessBin

\* One case of the switch.
LEMMA ImageStage ==
  ASSUME NEW c, NEW s, NEW done
  PROVE  EP!Stage(c, s, done) = Enc!Stage(c, s, done)
BY DEF EP!Stage, Enc!Stage

\* All of them.
LEMMA ImageDecrypted ==
  ASSUME NEW c
  PROVE  EP!Decrypted(c) = Enc!Decrypted(c)
BY ImageStage, ImageReadMagic, ImageReadGcm, ImageReadIv, ImageReadBinSize, ImageReadAuth, ImageReadExtraHeader, ImageProcessBin DEF EP!Decrypted, Enc!Decrypted

\* Each step is one of the decryption, or leaves it alone.
LEMMA ImageNext == [Next]_vars => [EP!Next]_EP!vars
<1> SUFFICES ASSUME [Next]_vars PROVE [EP!Next]_EP!vars
  OBVIOUS
<1>1. Enc!Next \/ UNCHANGED encVars
  BY DEF Next, vars
<1>2. CASE UNCHANGED encVars
  BY <1>2 DEF encVars, EP!vars
<1>3. CASE Enc!Next
  <2>1. ASSUME NEW n \in 0 .. MaxChunk, Enc!DecryptData(n) PROVE EP!DecryptData(n)
    <3>1. EP!Bytes(enc_taken, n) = Enc!Bytes(enc_taken, n) /\ EP!BinAt = Enc!BinAt
      BY ImageBytes
    <3>2. PICK c : c = [h |-> enc_handle, data |-> Enc!Bytes(enc_taken, n), cur |-> 0, ret |-> "",
                        out |-> <<>>, gcm |-> enc_fed]
      OBVIOUS
    <3>3. EP!Decrypted(c) = Enc!Decrypted(c)
      BY ImageDecrypted
    <3> QED BY <2>1, <3>1, <3>2, <3>3 DEF Enc!DecryptData, EP!DecryptData
  <2>2. CASE Enc!DecryptEnd
    <3>1. EP!TagMatches <=> Enc!TagMatches
      BY ImageBytes DEF EP!TagMatches, Enc!TagMatches, EP!Binary, Enc!Binary, EP!AuthAt, Enc!AuthAt,
                        EP!LenAt, Enc!LenAt
    <3> QED BY <2>2, <3>1 DEF Enc!DecryptEnd, EP!DecryptEnd, EP!Next
  <2>3. CASE Enc!DecryptAbort
    BY <2>3 DEF Enc!DecryptAbort, EP!DecryptAbort, EP!Next
  <2> QED BY <1>3, <2>1, <2>2, <2>3 DEF Enc!Next, EP!Next
<1> QED BY <1>1, <1>2, <1>3

\* The decryption of the board is one of EncryptedImg, with no image or one.
LEMMA ImageSpec == Spec => EP!Spec
<1>1. Init => EP!Init
  BY DEF Init, Enc!Init, EP!Init, Enc!NewHandle, EP!NewHandle
<1> QED BY <1>1, ImageNext, PTL DEF Spec, EP!Spec

\* So the decryption of every reachable state has its properties.
LEMMA ImageSafe == Spec => [](Enc!CutsDoNotMatter /\ Enc!EndAcceptsOnlyWhole)
<1>1. EP!Spec => [](EP!CutsDoNotMatter /\ EP!EndAcceptsOnlyWhole)
  BY ImageAssumption, EP!EncSafe
<1>2. EP!Binary = Enc!Binary /\ EP!AuthAt = Enc!AuthAt
  BY ImageBytes DEF EP!Binary, Enc!Binary, EP!AuthAt, Enc!AuthAt
<1>3. EP!CutsDoNotMatter => Enc!CutsDoNotMatter
  BY <1>2, ImageBytes DEF EP!CutsDoNotMatter, Enc!CutsDoNotMatter
<1>4. EP!EndAcceptsOnlyWhole => Enc!EndAcceptsOnlyWhole
  BY <1>2, ImageBytes DEF EP!EndAcceptsOnlyWhole, Enc!EndAcceptsOnlyWhole
<1> QED BY <1>1, <1>3, <1>4, ImageSpec, PTL

\* The MQTT glue's callbacks get whole messages and the broker has its table
\* (esp-mqtt-glue.c), cutting an image into chunks does not matter and only a whole
\* one is accepted (esp_encrypted_img.c), and the image chosen for the co-processor is
\* complete, now and after a restart, whichever writes of the NVS fail, unless the
\* client strayed (esp_rcp_update.c).
THEOREM LibrariesArriveWhole == Spec => []ArrivesWhole
BY MqttSafe, ImageSafe, RcpSafe, PTL DEF ArrivesWhole

=============================================================================
