----------------------- MODULE DossierLifecycle_proofs -----------------------
(***************************************************************************)
(* What holds of the row of a dossier for any number of requests, types,   *)
(* versions and operations.                                                *)
(***************************************************************************)
EXTENDS DossierLifecycle, SequenceTheorems, WellFoundedInduction, TLAPS

-----------------------------------------------------------------------------
(* The step tables. *)

LEMMA SaleStepsFacts ==
  /\ DOMAIN SaleSteps = 1 .. 13
  /\ Len(SaleSteps) = 13
  /\ SaleSteps[1] = "offerSelected"
  /\ SaleSteps[7] = "purchaseConfirmed"
  /\ \E S : SaleSteps \in Seq(S)
  /\ \A i \in 1 .. 13 :
       /\ SaleSteps[i] = "vehicleBooking" <=> i = 5
       /\ SaleSteps[i] \notin {"closed", "documentsDelivered", "none"}
<1>1. Len(SaleSteps) = 13
  BY DEF SaleSteps
<1>2. SaleSteps \in
        Seq({"offerSelected", "clientConfirmed", "contractSigned", "depositReceived",
             "vehicleBooking", "inspection", "purchaseConfirmed", "supplierPaid",
             "shipmentBooking", "loading", "billOfLadingIssued", "inTransit",
             "arrivedAtPort"})
  BY DEF SaleSteps
<1>3. /\ SaleSteps[1] = "offerSelected"
      /\ SaleSteps[7] = "purchaseConfirmed"
  BY DEF SaleSteps
<1>4. ASSUME NEW i \in 1 .. 13
      PROVE  /\ SaleSteps[i] = "vehicleBooking" <=> i = 5
             /\ SaleSteps[i] \notin {"closed", "documentsDelivered", "none"}
  <2>1. \/ i = 1 \/ i = 2 \/ i = 3 \/ i = 4 \/ i = 5 \/ i = 6 \/ i = 7 \/ i = 8
        \/ i = 9 \/ i = 10 \/ i = 11 \/ i = 12 \/ i = 13
    OBVIOUS
  <2> QED BY <2>1 DEF SaleSteps
<1>5. DOMAIN SaleSteps = 1 .. 13
  BY <1>1, <1>2, LenProperties
<1>6. \E S : SaleSteps \in Seq(S)
  BY <1>2
<1> QED BY <1>1, <1>3, <1>4, <1>5, <1>6

(* A table that ends differently begins with the steps of a sale. *)
LEMMA Extended ==
  ASSUME NEW last, NEW S, last \in Seq(S), NEW n \in Nat, Len(last) = n
  PROVE  /\ DOMAIN (SaleSteps \o last) = 1 .. (13 + n)
         /\ Len(SaleSteps \o last) = 13 + n
         /\ \A i \in 1 .. (13 + n) :
              (SaleSteps \o last)[i] = IF i <= 13 THEN SaleSteps[i] ELSE last[i - 13]
<1>1. PICK T : SaleSteps \in Seq(T)
  BY SaleStepsFacts
<1> DEFINE U == S \union T
<1>2. last \in Seq(U) /\ SaleSteps \in Seq(U)
  BY <1>1, SeqMonotonic
<1> HIDE DEF U
<1>3. Len(SaleSteps) = 13
  BY SaleStepsFacts
<1>4. /\ SaleSteps \o last \in Seq(U)
      /\ Len(SaleSteps \o last) = Len(SaleSteps) + Len(last)
      /\ \A i \in 1 .. Len(SaleSteps) + Len(last) :
           (SaleSteps \o last)[i] =
             IF i <= Len(SaleSteps) THEN SaleSteps[i] ELSE last[i - Len(SaleSteps)]
  BY <1>2, ConcatProperties, Zenon
<1>5. DOMAIN (SaleSteps \o last) = 1 .. Len(SaleSteps \o last)
  BY <1>4, LenProperties, Zenon
<1> QED BY <1>3, <1>4, <1>5, Zenon

LEMMA CifFacts ==
  /\ DOMAIN DOSSIER_STATUSES_CIF = 1 .. 15
  /\ Len(DOSSIER_STATUSES_CIF) = 15
  /\ \A i \in 1 .. 13 : DOSSIER_STATUSES_CIF[i] = SaleSteps[i]
  /\ DOSSIER_STATUSES_CIF[14] = "documentsDelivered"
  /\ DOSSIER_STATUSES_CIF[15] = "closed"
<1> DEFINE last == << "documentsDelivered", "closed" >>
<1>1. last \in Seq({"documentsDelivered", "closed"})
  OBVIOUS
<1>2. Len(last) = 2 /\ last[1] = "documentsDelivered" /\ last[2] = "closed"
  OBVIOUS
<1>3. DOSSIER_STATUSES_CIF = SaleSteps \o last
  BY DEF DOSSIER_STATUSES_CIF
<1> HIDE DEF last
<1>4. /\ DOMAIN DOSSIER_STATUSES_CIF = 1 .. (13 + 2)
      /\ Len(DOSSIER_STATUSES_CIF) = 13 + 2
      /\ \A i \in 1 .. (13 + 2) :
           DOSSIER_STATUSES_CIF[i] = IF i <= 13 THEN SaleSteps[i] ELSE last[i - 13]
  BY <1>1, <1>2, <1>3, Extended, 2 \in Nat, Zenon
<1> QED BY <1>2, <1>4

LEMMA DdpFacts ==
  /\ DOMAIN DOSSIER_STATUSES_DDP = 1 .. 19
  /\ Len(DOSSIER_STATUSES_DDP) = 19
  /\ \A i \in 1 .. 13 : DOSSIER_STATUSES_DDP[i] = SaleSteps[i]
  /\ \A i \in 14 .. 19 : DOSSIER_STATUSES_DDP[i] \notin {"vehicleBooking", "none"}
  /\ DOSSIER_STATUSES_DDP[19] = "closed"
<1> DEFINE last == << "customsClearance", "customsReleased", "portExit",
                     "localTransport", "deliveredToClient", "closed" >>
<1>1. last \in Seq({"customsClearance", "customsReleased", "portExit",
                   "localTransport", "deliveredToClient", "closed"})
  OBVIOUS
<1>2. Len(last) = 6 /\ last[6] = "closed"
  OBVIOUS
<1>3. ASSUME NEW i \in 1 .. 6
      PROVE  last[i] \notin {"vehicleBooking", "none"}
  <2>1. i = 1 \/ i = 2 \/ i = 3 \/ i = 4 \/ i = 5 \/ i = 6
    OBVIOUS
  <2> QED BY <2>1
<1>4. DOSSIER_STATUSES_DDP = SaleSteps \o last
  BY DEF DOSSIER_STATUSES_DDP
<1> HIDE DEF last
<1>5. /\ DOMAIN DOSSIER_STATUSES_DDP = 1 .. (13 + 6)
      /\ Len(DOSSIER_STATUSES_DDP) = 13 + 6
      /\ \A i \in 1 .. (13 + 6) :
           DOSSIER_STATUSES_DDP[i] = IF i <= 13 THEN SaleSteps[i] ELSE last[i - 13]
  BY <1>1, <1>2, <1>4, Extended, 6 \in Nat, Zenon
<1>6. ASSUME NEW i \in 14 .. 19
      PROVE  DOSSIER_STATUSES_DDP[i] \notin {"vehicleBooking", "none"}
  <2>1. i - 13 \in 1 .. 6 /\ i \in 1 .. (13 + 6) /\ ~ (i <= 13)
    OBVIOUS
  <2> QED BY <2>1, <1>3, <1>5
<1> QED BY <1>2, <1>5, <1>6

LEMMA ShippingFacts ==
  /\ DOMAIN DOSSIER_STATUSES_SHIPPING = 1 .. 12
  /\ DOSSIER_STATUSES_SHIPPING[1] = "clientRegistered"
  /\ DOSSIER_STATUSES_SHIPPING[12] = "serviceCompleted"
  /\ \A i \in 1 .. 12 : DOSSIER_STATUSES_SHIPPING[i] # "none"
<1>1. ASSUME NEW i \in 1 .. 12
      PROVE  DOSSIER_STATUSES_SHIPPING[i] # "none"
  <2>1. \/ i = 1 \/ i = 2 \/ i = 3 \/ i = 4 \/ i = 5 \/ i = 6 \/ i = 7 \/ i = 8
        \/ i = 9 \/ i = 10 \/ i = 11 \/ i = 12
    OBVIOUS
  <2> QED BY <2>1 DEF DOSSIER_STATUSES_SHIPPING
<1>2. /\ DOMAIN DOSSIER_STATUSES_SHIPPING = 1 .. 12
      /\ DOSSIER_STATUSES_SHIPPING[1] = "clientRegistered"
      /\ DOSSIER_STATUSES_SHIPPING[12] = "serviceCompleted"
  BY DEF DOSSIER_STATUSES_SHIPPING
<1> QED BY <1>1, <1>2

(* Freezing a table drops its vehicle booking, wherever it stands, and keeps *)
(* the order of the other steps.                                             *)
LEMMA LegacyFacts ==
  ASSUME NEW steps, NEW n \in Nat, Len(steps) = n, DOMAIN steps = 1 .. n, n > 5,
         \A i \in 1 .. n : steps[i] = "vehicleBooking" <=> i = 5
  PROVE  /\ DOMAIN LegacyOf(steps) = 1 .. (n - 1)
         /\ \A i \in 1 .. (n - 1) :
              LegacyOf(steps)[i] =
                LET s == IF i < 5 THEN steps[i] ELSE steps[i + 1]
                IN  IF s = "shipmentBooking" THEN "booking" ELSE s
<1>1. (CHOOSE i \in DOMAIN steps : steps[i] = "vehicleBooking") = 5
  OBVIOUS
<1> QED BY <1>1 DEF LegacyOf

(* What a dossier of one type and version walks through. *)
LEMMA TableOfVersion2 ==
  /\ StepsOf("VEHICLE_SALE_CIF", 2) = DOSSIER_STATUSES_CIF
  /\ StepsOf("VEHICLE_SALE_DDP", 2) = DOSSIER_STATUSES_DDP
  /\ StepsOf("SHIPPING_ONLY", 2) = DOSSIER_STATUSES_SHIPPING
BY DEF StepsOf, WORKFLOW_STEPS_BY_TYPE, DossierTypes

LEMMA TableOfVersion1 ==
  /\ StepsOf("VEHICLE_SALE_CIF", 1) = LegacyOf(DOSSIER_STATUSES_CIF)
  /\ StepsOf("VEHICLE_SALE_DDP", 1) = LegacyOf(DOSSIER_STATUSES_DDP)
  /\ StepsOf("SHIPPING_ONLY", 1) = DOSSIER_STATUSES_SHIPPING
BY DEF StepsOf, LEGACY_WORKFLOW_STEPS_BY_TYPE, WORKFLOW_STEPS_BY_TYPE, DossierTypes

LEMMA LegacyCif ==
  /\ DOMAIN LegacyOf(DOSSIER_STATUSES_CIF) = 1 .. 14
  /\ \A i \in 1 .. 14 :
       LegacyOf(DOSSIER_STATUSES_CIF)[i] =
         LET s == IF i < 5 THEN DOSSIER_STATUSES_CIF[i] ELSE DOSSIER_STATUSES_CIF[i + 1]
         IN  IF s = "shipmentBooking" THEN "booking" ELSE s
<1>1. \A i \in 1 .. 15 : DOSSIER_STATUSES_CIF[i] = "vehicleBooking" <=> i = 5
  <2> SUFFICES ASSUME NEW i \in 1 .. 15
               PROVE  DOSSIER_STATUSES_CIF[i] = "vehicleBooking" <=> i = 5
    OBVIOUS
  <2>1. i \in 1 .. 13 \/ i = 14 \/ i = 15
    OBVIOUS
  <2> QED BY <2>1, CifFacts, SaleStepsFacts
<1>2. 15 \in Nat /\ 15 > 5 /\ 15 - 1 = 14
  OBVIOUS
<1>3. DOMAIN DOSSIER_STATUSES_CIF = 1 .. 15 /\ Len(DOSSIER_STATUSES_CIF) = 15
  BY CifFacts
<1> DEFINE table == DOSSIER_STATUSES_CIF
           m == 15
<1>4. /\ DOMAIN LegacyOf(table) = 1 .. (m - 1)
      /\ \A i \in 1 .. (m - 1) :
           LegacyOf(table)[i] =
             LET s == IF i < 5 THEN table[i] ELSE table[i + 1]
             IN  IF s = "shipmentBooking" THEN "booking" ELSE s
  <2> HIDE DEF table, m
  <2>1. /\ m \in Nat /\ Len(table) = m /\ DOMAIN table = 1 .. m /\ m > 5
        /\ \A i \in 1 .. m : table[i] = "vehicleBooking" <=> i = 5
    BY <1>1, <1>2, <1>3 DEF table, m
  <2> QED BY <2>1, LegacyFacts
<1> QED BY <1>2, <1>4

LEMMA LegacyDdp ==
  /\ DOMAIN LegacyOf(DOSSIER_STATUSES_DDP) = 1 .. 18
  /\ \A i \in 1 .. 18 :
       LegacyOf(DOSSIER_STATUSES_DDP)[i] =
         LET s == IF i < 5 THEN DOSSIER_STATUSES_DDP[i] ELSE DOSSIER_STATUSES_DDP[i + 1]
         IN  IF s = "shipmentBooking" THEN "booking" ELSE s
<1>1. \A i \in 1 .. 19 : DOSSIER_STATUSES_DDP[i] = "vehicleBooking" <=> i = 5
  <2> SUFFICES ASSUME NEW i \in 1 .. 19
               PROVE  DOSSIER_STATUSES_DDP[i] = "vehicleBooking" <=> i = 5
    OBVIOUS
  <2>1. i \in 1 .. 13 \/ i \in 14 .. 19
    OBVIOUS
  <2> QED BY <2>1, DdpFacts, SaleStepsFacts
<1>2. 19 \in Nat /\ 19 > 5 /\ 19 - 1 = 18
  OBVIOUS
<1>3. DOMAIN DOSSIER_STATUSES_DDP = 1 .. 19 /\ Len(DOSSIER_STATUSES_DDP) = 19
  BY DdpFacts
<1> DEFINE table == DOSSIER_STATUSES_DDP
           m == 19
<1>4. /\ DOMAIN LegacyOf(table) = 1 .. (m - 1)
      /\ \A i \in 1 .. (m - 1) :
           LegacyOf(table)[i] =
             LET s == IF i < 5 THEN table[i] ELSE table[i + 1]
             IN  IF s = "shipmentBooking" THEN "booking" ELSE s
  <2> HIDE DEF table, m
  <2>1. /\ m \in Nat /\ Len(table) = m /\ DOMAIN table = 1 .. m /\ m > 5
        /\ \A i \in 1 .. m : table[i] = "vehicleBooking" <=> i = 5
    BY <1>1, <1>2, <1>3 DEF table, m
  <2> QED BY <2>1, LegacyFacts
<1> QED BY <1>2, <1>4

(* Every table is a sequence whose last step finishes the dossier, and that  *)
(* has the status a new dossier starts in.                                   *)
EndsTerminal(steps) ==
  \E n \in Nat \ {0} :
    /\ DOMAIN steps = 1 .. n
    /\ steps[n] \in {"closed", "serviceCompleted"}

StartsWith(steps, s) ==
  1 \in DOMAIN steps /\ steps[1] = s

LEMMA Tables ==
  ASSUME NEW t \in DossierTypes, NEW v \in {1, 2}
  PROVE  /\ EndsTerminal(StepsOf(t, v))
         /\ StartsWith(StepsOf(t, v), getInitialStatus(t))
<1>1. CASE t = "SHIPPING_ONLY"
  <2>1. StepsOf(t, v) = DOSSIER_STATUSES_SHIPPING
    BY <1>1, TableOfVersion1, TableOfVersion2
  <2>2. 12 \in Nat \ {0} /\ 1 \in 1 .. 12
    OBVIOUS
  <2>3. EndsTerminal(StepsOf(t, v))
    BY <2>1, <2>2, ShippingFacts DEF EndsTerminal
  <2> QED BY <1>1, <2>1, <2>2, <2>3, ShippingFacts DEF StartsWith, getInitialStatus
<1>2. CASE t = "VEHICLE_SALE_CIF" /\ v = 2
  <2>1. StepsOf(t, v) = DOSSIER_STATUSES_CIF
    BY <1>2, TableOfVersion2
  <2>2. 15 \in Nat \ {0} /\ 1 \in 1 .. 15 /\ 1 \in 1 .. 13
    OBVIOUS
  <2>3. EndsTerminal(StepsOf(t, v))
    BY <2>1, <2>2, CifFacts DEF EndsTerminal
  <2> QED BY <1>2, <2>1, <2>2, <2>3, CifFacts, SaleStepsFacts
          DEF StartsWith, getInitialStatus
<1>3. CASE t = "VEHICLE_SALE_DDP" /\ v = 2
  <2>1. StepsOf(t, v) = DOSSIER_STATUSES_DDP
    BY <1>3, TableOfVersion2
  <2>2. 19 \in Nat \ {0} /\ 1 \in 1 .. 19 /\ 1 \in 1 .. 13
    OBVIOUS
  <2>3. EndsTerminal(StepsOf(t, v))
    BY <2>1, <2>2, DdpFacts DEF EndsTerminal
  <2> QED BY <1>3, <2>1, <2>2, <2>3, DdpFacts, SaleStepsFacts
          DEF StartsWith, getInitialStatus
<1>4. CASE t = "VEHICLE_SALE_CIF" /\ v = 1
  <2>1. StepsOf(t, v) = LegacyOf(DOSSIER_STATUSES_CIF)
    BY <1>4, TableOfVersion1
  <2>2. LegacyOf(DOSSIER_STATUSES_CIF)[14] = "closed"
    BY LegacyCif, CifFacts
  <2>3. LegacyOf(DOSSIER_STATUSES_CIF)[1] = "offerSelected"
    BY LegacyCif, CifFacts, SaleStepsFacts
  <2>4. 14 \in Nat \ {0} /\ 1 \in 1 .. 14
    OBVIOUS
  <2> QED BY <1>4, <2>1, <2>2, <2>3, <2>4, LegacyCif
          DEF EndsTerminal, StartsWith, getInitialStatus
<1>5. CASE t = "VEHICLE_SALE_DDP" /\ v = 1
  <2>1. StepsOf(t, v) = LegacyOf(DOSSIER_STATUSES_DDP)
    BY <1>5, TableOfVersion1
  <2>2. LegacyOf(DOSSIER_STATUSES_DDP)[18] = "closed"
    BY LegacyDdp, DdpFacts
  <2>3. LegacyOf(DOSSIER_STATUSES_DDP)[1] = "offerSelected"
    BY LegacyDdp, DdpFacts, SaleStepsFacts
  <2>4. 18 \in Nat \ {0} /\ 1 \in 1 .. 18
    OBVIOUS
  <2> QED BY <1>5, <2>1, <2>2, <2>3, <2>4, LegacyDdp
          DEF EndsTerminal, StartsWith, getInitialStatus
<1> QED BY <1>1, <1>2, <1>3, <1>4, <1>5 DEF DossierTypes

(* The upgrade finds the status of a CIF dossier in the table of a DDP one,  *)
(* unless the documents were handed over.                                    *)
LEMMA UpgradeKeepsStatus ==
  ASSUME NEW v \in {1, 2}, NEW s \in StatusesOf("VEHICLE_SALE_CIF", v),
         s # "documentsDelivered"
  PROVE  s \in StatusesOf("VEHICLE_SALE_DDP", v)
<1> SUFFICES ASSUME NEW i \in DOMAIN StepsOf("VEHICLE_SALE_CIF", v),
                    StepsOf("VEHICLE_SALE_CIF", v)[i] = s
             PROVE  \E j \in DOMAIN StepsOf("VEHICLE_SALE_DDP", v) :
                      StepsOf("VEHICLE_SALE_DDP", v)[j] = s
  BY DEF StatusesOf
<1>1. CASE v = 2
  <2>1. i \in 1 .. 13 \/ i = 15
    BY <1>1, TableOfVersion2, CifFacts
  <2>2. CASE i \in 1 .. 13
    <3>1. i \in 1 .. 19
      BY <2>2
    <3> QED BY <1>1, <2>2, <3>1, TableOfVersion2, CifFacts, DdpFacts
  <2>3. CASE i = 15
    <3>1. 19 \in 1 .. 19
      OBVIOUS
    <3> QED BY <1>1, <2>3, <3>1, TableOfVersion2, CifFacts, DdpFacts
  <2> QED BY <2>1, <2>2, <2>3
<1>2. CASE v = 1
  <2> DEFINE C == LegacyOf(DOSSIER_STATUSES_CIF)
             D == LegacyOf(DOSSIER_STATUSES_DDP)
  <2>1. /\ StepsOf("VEHICLE_SALE_CIF", v) = C
        /\ StepsOf("VEHICLE_SALE_DDP", v) = D
    BY <1>2, TableOfVersion1
  <2>2. i \in 1 .. 14 /\ C[i] = s
    BY <2>1, LegacyCif
  <2>3. i \in 1 .. 12 \/ i = 13 \/ i = 14
    BY <2>2
  <2>4. CASE i \in 1 .. 12
    <3>1. /\ i \in 1 .. 13 /\ i + 1 \in 1 .. 13 /\ i \in 1 .. 18 /\ i \in 1 .. 14
      BY <2>4
    <3>2. C[i] = D[i]
      BY <3>1, LegacyCif, LegacyDdp, CifFacts, DdpFacts
    <3> QED BY <2>1, <2>2, <3>1, <3>2, LegacyDdp
  <2>5. CASE i = 13
    <3>1. C[13] = "documentsDelivered"
      BY LegacyCif, CifFacts
    <3> QED BY <2>2, <2>5, <3>1
  <2>6. CASE i = 14
    <3>1. C[14] = "closed"
      BY LegacyCif, CifFacts
    <3>2. D[18] = "closed" /\ 18 \in DOMAIN D
      BY LegacyDdp, DdpFacts
    <3> QED BY <2>1, <2>2, <2>6, <3>1, <3>2
  <2> QED BY <2>3, <2>4, <2>5, <2>6
<1> QED BY <1>1, <1>2

(* "none" stands for the absence of a status. *)
LEMMA NoneIsNoStep ==
  ASSUME NEW t \in DossierTypes, NEW v \in {1, 2}
  PROVE  "none" \notin StatusesOf(t, v)
<1> SUFFICES ASSUME NEW i \in DOMAIN StepsOf(t, v)
             PROVE  StepsOf(t, v)[i] # "none"
  BY DEF StatusesOf
<1>1. \A k \in 1 .. 15 : DOSSIER_STATUSES_CIF[k] # "none"
  <2> SUFFICES ASSUME NEW k \in 1 .. 15 PROVE DOSSIER_STATUSES_CIF[k] # "none"
    OBVIOUS
  <2>1. k \in 1 .. 13 \/ k = 14 \/ k = 15
    OBVIOUS
  <2> QED BY <2>1, CifFacts, SaleStepsFacts
<1>2. \A k \in 1 .. 19 : DOSSIER_STATUSES_DDP[k] # "none"
  <2> SUFFICES ASSUME NEW k \in 1 .. 19 PROVE DOSSIER_STATUSES_DDP[k] # "none"
    OBVIOUS
  <2>1. k \in 1 .. 13 \/ k \in 14 .. 19
    OBVIOUS
  <2> QED BY <2>1, DdpFacts, SaleStepsFacts
<1>3. CASE t = "SHIPPING_ONLY"
  BY <1>3, TableOfVersion1, TableOfVersion2, ShippingFacts
<1>4. CASE t = "VEHICLE_SALE_CIF" /\ v = 2
  BY <1>1, <1>4, TableOfVersion2, CifFacts
<1>5. CASE t = "VEHICLE_SALE_DDP" /\ v = 2
  BY <1>2, <1>5, TableOfVersion2, DdpFacts
<1>6. CASE t = "VEHICLE_SALE_CIF" /\ v = 1
  <2>1. StepsOf(t, v) = LegacyOf(DOSSIER_STATUSES_CIF) /\ i \in 1 .. 14
    BY <1>6, TableOfVersion1, LegacyCif
  <2>2. i \in 1 .. 15 /\ i + 1 \in 1 .. 15
    BY <2>1
  <2> QED BY <1>1, <2>1, <2>2, LegacyCif
<1>7. CASE t = "VEHICLE_SALE_DDP" /\ v = 1
  <2>1. StepsOf(t, v) = LegacyOf(DOSSIER_STATUSES_DDP) /\ i \in 1 .. 18
    BY <1>7, TableOfVersion1, LegacyDdp
  <2>2. i \in 1 .. 19 /\ i + 1 \in 1 .. 19
    BY <2>1
  <2> QED BY <1>2, <2>1, <2>2, LegacyDdp
<1> QED BY <1>3, <1>4, <1>5, <1>6, <1>7 DEF DossierTypes

(* An unfinished step of a table has a next one, with or without a shipment. *)
LEMMA UnfinishedHasNextStep ==
  ASSUME NEW t \in DossierTypes, NEW v \in {1, 2}, NEW s \in StatusesOf(t, v),
         NEW ship, s \notin TERMINAL_STATUSES
  PROVE  NextSteps(t, s, v, ship) # {}
<1> DEFINE steps == StepsOf(t, v)
           later == { j \in DOMAIN steps :
                        /\ Applicable(t, ship, steps[j])
                        /\ \E i \in 1 .. (j - 1) : steps[i] = s }
<1>1. PICK n \in Nat \ {0} :
        DOMAIN steps = 1 .. n /\ steps[n] \in {"closed", "serviceCompleted"}
  BY Tables DEF EndsTerminal
<1>2. PICK i \in 1 .. n : steps[i] = s
  BY <1>1 DEF StatusesOf
<1>3. i # n
  BY <1>1, <1>2 DEF TERMINAL_STATUSES
<1>4. n \in later
  <2>1. Applicable(t, ship, steps[n])
    BY <1>1 DEF Applicable
  <2>2. i \in 1 .. (n - 1) /\ n \in 1 .. n
    BY <1>2, <1>3
  <2> QED BY <1>1, <1>2, <2>1, <2>2
<1>5. later \subseteq Nat
  BY <1>1
<1>6. PICK k \in later : \A l \in later : k <= l
  <2> HIDE DEF later
  <2>1. PICK k \in later : \A l \in later : << l, k >> \notin OpToRel(<, Nat)
    BY <1>4, <1>5, NatLessThanWellFounded, WFMin
  <2>2. ASSUME NEW l \in later, l < k
        PROVE  << l, k >> \in OpToRel(<, Nat)
    <3>1. l \in Nat /\ k \in Nat
      BY <1>5
    <3> QED BY <2>2, <3>1 DEF OpToRel
  <2>3. ASSUME NEW l \in later
        PROVE  k <= l
    <3>1. l \in Nat /\ k \in Nat
      BY <1>5
    <3>2. ~ (l < k)
      BY <2>1, <2>2, Zenon
    <3> QED BY <3>1, <3>2
  <2> QED BY <2>3
<1> QED BY <1>6 DEF NextSteps

(* Only a step of the table, or a cancellation, is ever a valid transition.  *)
LEMMA TransitionsStayInTable ==
  ASSUME NEW t, NEW v, NEW from, NEW to, NEW ship,
         validateTransition(t, from, to, v, ship)
  PROVE  to \in StatusesOf(t, v) \union {"cancelled"} /\ from \notin TERMINAL_STATUSES
BY DEF validateTransition, getAllowedTransitions, NextSteps, StatusesOf

LEMMA KnownStatuses ==
  ASSUME NEW t \in DossierTypes, NEW v \in {1, 2}
  PROVE  /\ StatusesOf(t, v) \subseteq AllStatuses
         /\ getInitialStatus(t) \in StatusesOf(t, v)
         /\ getInitialStatus(t) \in AllStatuses
<1>1. v \in 1 .. 2
  OBVIOUS
<1>2. StatusesOf(t, v) \subseteq AllStatuses
  BY <1>1 DEF AllStatuses
<1>3. getInitialStatus(t) \in StatusesOf(t, v)
  BY Tables DEF StatusesOf, StartsWith
<1> QED BY <1>2, <1>3

LEMMA CancelledKnown == "cancelled" \in AllStatuses
BY DEF AllStatuses

LEMMA PurchaseConfirmedKnown == "purchaseConfirmed" \in AllStatuses
<1>1. 7 \in 1 .. 13 /\ 7 \in 1 .. 15
  OBVIOUS
<1>2. "purchaseConfirmed" \in StatusesOf("VEHICLE_SALE_CIF", 2)
  BY <1>1, TableOfVersion2, CifFacts, SaleStepsFacts DEF StatusesOf
<1> QED BY <1>2, KnownStatuses DEF DossierTypes

-----------------------------------------------------------------------------
(* Rows and contexts. *)

LEMMA ExistingRow ==
  ASSUME dossier \in Rows \union {NoRow}, dossier.exists
  PROVE  dossier \in Rows
BY DEF NoRow

(* What a history entry leaves of a row. *)
LEMMA RecordedRow ==
  ASSUME NEW row \in Rows, NEW from \in AllStatuses, NEW s
  PROVE  /\ Recorded(row, from, s) \in Rows
         /\ Recorded(row, from, s).exists
         /\ Recorded(row, from, s).type = row.type
         /\ Recorded(row, from, s).version = row.version
         /\ Recorded(row, from, s).status = row.status
         /\ Recorded(row, from, s).archived = row.archived
         /\ Recorded(row, from, s).cancelledFrom =
              IF s = "cancelled" THEN from ELSE row.cancelledFrom
         /\ Recorded(row, from, s).delivered = (row.delivered \/ s = "documentsDelivered")
BY DEF Recorded, Rows

LEMMA ContextShapes ==
  ASSUME NEW c \in Contexts
  PROVE  /\ c.op = "updateStatus" => c.from \in AllStatuses /\ c.to \in AllStatuses
         /\ c.op \in {"confirmPurchase", "upgradeToDdp", "update"} => c.from \in AllStatuses
         /\ c.op = "restore" => c.to \in AllStatuses
BY DEF Contexts, Idle

(* The rows the transactions write. *)
LEMMA MovedRow ==
  ASSUME NEW row \in Rows, NEW to \in AllStatuses, NEW a \in BOOLEAN
  PROVE  /\ [row EXCEPT !.status = to, !.archived = a] \in Rows
         /\ [row EXCEPT !.status = to, !.archived = a].exists
         /\ [row EXCEPT !.status = to, !.archived = a].type = row.type
         /\ [row EXCEPT !.status = to, !.archived = a].version = row.version
         /\ [row EXCEPT !.status = to, !.archived = a].status = to
         /\ [row EXCEPT !.status = to, !.archived = a].archived = a
         /\ [row EXCEPT !.status = to, !.archived = a].cancelledFrom = row.cancelledFrom
         /\ [row EXCEPT !.status = to, !.archived = a].delivered = row.delivered
BY DEF Rows

LEMMA PurchasedRow ==
  ASSUME NEW row \in Rows, NEW to \in AllStatuses
  PROVE  /\ [row EXCEPT !.status = to] \in Rows
         /\ [row EXCEPT !.status = to].exists
         /\ [row EXCEPT !.status = to].type = row.type
         /\ [row EXCEPT !.status = to].version = row.version
         /\ [row EXCEPT !.status = to].status = to
         /\ [row EXCEPT !.status = to].archived = row.archived
         /\ [row EXCEPT !.status = to].cancelledFrom = row.cancelledFrom
         /\ [row EXCEPT !.status = to].delivered = row.delivered
BY DEF Rows

LEMMA UpgradedRow ==
  ASSUME NEW row \in Rows
  PROVE  /\ [row EXCEPT !.type = "VEHICLE_SALE_DDP"] \in Rows
         /\ [row EXCEPT !.type = "VEHICLE_SALE_DDP"].exists
         /\ [row EXCEPT !.type = "VEHICLE_SALE_DDP"].type = "VEHICLE_SALE_DDP"
         /\ [row EXCEPT !.type = "VEHICLE_SALE_DDP"].version = row.version
         /\ [row EXCEPT !.type = "VEHICLE_SALE_DDP"].status = row.status
         /\ [row EXCEPT !.type = "VEHICLE_SALE_DDP"].archived = row.archived
         /\ [row EXCEPT !.type = "VEHICLE_SALE_DDP"].cancelledFrom = row.cancelledFrom
         /\ [row EXCEPT !.type = "VEHICLE_SALE_DDP"].delivered = row.delivered
BY DEF Rows, DossierTypes
-----------------------------------------------------------------------------
(* What each transaction does to the row, field by field. *)

Keeps ==
  /\ dossier' \in Rows /\ dossier'.exists
  /\ dossier'.version = dossier.version

LEMMA UpdateStatusEffect ==
  ASSUME TypeOK, NEW r \in Requests, CommitUpdateStatus(r)
  PROVE  /\ dossier \in Rows /\ Keeps /\ dossier'.type = dossier.type
         /\ dossier.status = req[r].from /\ ~ dossier.archived
         /\ req[r].op = "updateStatus"
         /\ req[r].from \in AllStatuses /\ req[r].to \in AllStatuses
         /\ dossier'.status = req[r].to
         /\ dossier'.archived = (req[r].to = "cancelled")
         /\ dossier'.cancelledFrom =
              IF req[r].to = "cancelled" THEN req[r].from ELSE dossier.cancelledFrom
         /\ dossier'.delivered = (dossier.delivered \/ req[r].to = "documentsDelivered")
<1>1. dossier \in Rows
  BY ExistingRow DEF TypeOK, CommitUpdateStatus
<1>2. PICK row \in Rows : row = dossier
  BY <1>1
<1>3. req[r] \in Contexts /\ req[r].op = "updateStatus"
  BY DEF TypeOK, CommitUpdateStatus
<1>4. PICK from \in AllStatuses, to \in AllStatuses : from = req[r].from /\ to = req[r].to
  BY <1>3, ContextShapes
<1>5. row.status = from /\ ~ row.archived
  BY <1>2, <1>4 DEF CommitUpdateStatus, Claimed
<1>6. PICK a \in BOOLEAN : a = (to = "cancelled")
  OBVIOUS
<1>7. [row EXCEPT !.status = to, !.archived = @ \/ to = "cancelled"]
        = [row EXCEPT !.status = to, !.archived = a]
  BY <1>5, <1>6 DEF Rows
<1>8. PICK mid \in Rows : mid = [row EXCEPT !.status = to, !.archived = a]
  BY MovedRow
<1>9. /\ mid.type = row.type /\ mid.version = row.version /\ mid.status = to
      /\ mid.archived = a /\ mid.cancelledFrom = row.cancelledFrom
      /\ mid.delivered = row.delivered
  BY <1>8 DEF Rows
<1>10. dossier' = Recorded(mid, from, to)
  BY <1>2, <1>4, <1>7, <1>8 DEF CommitUpdateStatus, Finish
<1> QED BY <1>1, <1>2, <1>3, <1>4, <1>5, <1>6, <1>9, <1>10, RecordedRow DEF Keeps

LEMMA ConfirmPurchaseEffect ==
  ASSUME TypeOK, NEW r \in Requests, CommitConfirmPurchase(r)
  PROVE  /\ dossier \in Rows /\ Keeps /\ dossier'.type = dossier.type
         /\ req[r].op = "confirmPurchase"
         /\ dossier'.status = "purchaseConfirmed"
         /\ dossier'.archived = dossier.archived
         /\ dossier'.cancelledFrom = dossier.cancelledFrom
         /\ dossier'.delivered = dossier.delivered
<1>1. dossier \in Rows
  BY ExistingRow DEF TypeOK, CommitConfirmPurchase, Finish
<1>2. PICK row \in Rows : row = dossier
  BY <1>1
<1>3. dossier' = [row EXCEPT !.status = "purchaseConfirmed"] /\ req[r].op = "confirmPurchase"
  BY <1>2 DEF CommitConfirmPurchase, Finish
<1> QED BY <1>2, <1>3, PurchasedRow, PurchaseConfirmedKnown DEF Keeps

LEMMA UpgradeToDdpEffect ==
  ASSUME TypeOK, NEW r \in Requests, CommitUpgradeToDdp(r)
  PROVE  /\ dossier \in Rows /\ Keeps /\ dossier'.type = "VEHICLE_SALE_DDP"
         /\ req[r].op = "upgradeToDdp"
         /\ req[r].from \in AllStatuses
         /\ dossier'.status = dossier.status
         /\ dossier'.archived = dossier.archived
         /\ dossier'.cancelledFrom =
              IF req[r].from = "cancelled" THEN req[r].from ELSE dossier.cancelledFrom
         /\ dossier'.delivered = (dossier.delivered \/ req[r].from = "documentsDelivered")
<1>1. dossier \in Rows
  BY ExistingRow DEF TypeOK, CommitUpgradeToDdp, Finish
<1>2. PICK row \in Rows : row = dossier
  BY <1>1
<1>3. req[r] \in Contexts /\ req[r].op = "upgradeToDdp"
  BY DEF TypeOK, CommitUpgradeToDdp
<1>4. PICK from \in AllStatuses : from = req[r].from
  BY <1>3, ContextShapes
<1>5. PICK mid \in Rows : mid = [row EXCEPT !.type = "VEHICLE_SALE_DDP"]
  BY UpgradedRow
<1>6. dossier' = Recorded(mid, from, from)
  BY <1>2, <1>4, <1>5 DEF CommitUpgradeToDdp, Finish
<1>7. /\ mid.type = "VEHICLE_SALE_DDP" /\ mid.version = row.version
      /\ mid.status = row.status /\ mid.archived = row.archived
      /\ mid.cancelledFrom = row.cancelledFrom /\ mid.delivered = row.delivered
  BY <1>5, UpgradedRow
<1> QED BY <1>2, <1>3, <1>4, <1>6, <1>7, RecordedRow DEF Keeps

LEMMA UpdateEffect ==
  ASSUME TypeOK, NEW r \in Requests, CommitUpdate(r)
  PROVE  /\ dossier \in Rows /\ Keeps /\ dossier'.type = dossier.type
         /\ req[r].op = "update"
         /\ req[r].from \in AllStatuses
         /\ dossier'.status = dossier.status
         /\ dossier'.archived = dossier.archived
         /\ dossier'.cancelledFrom =
              IF req[r].from = "cancelled" THEN req[r].from ELSE dossier.cancelledFrom
         /\ dossier'.delivered = (dossier.delivered \/ req[r].from = "documentsDelivered")
<1>1. dossier \in Rows
  BY ExistingRow DEF TypeOK, CommitUpdate, Finish
<1>2. PICK row \in Rows : row = dossier
  BY <1>1
<1>3. req[r] \in Contexts /\ req[r].op = "update"
  BY DEF TypeOK, CommitUpdate
<1>4. PICK from \in AllStatuses : from = req[r].from
  BY <1>3, ContextShapes
<1>5. dossier' = Recorded(row, from, from)
  BY <1>2, <1>4 DEF CommitUpdate, Finish
<1> QED BY <1>2, <1>3, <1>4, <1>5, RecordedRow DEF Keeps

LEMMA RestoreEffect ==
  ASSUME TypeOK, NEW r \in Requests, CommitRestore(r)
  PROVE  /\ dossier \in Rows /\ Keeps /\ dossier'.type = dossier.type
         /\ req[r].op = "restore"
         /\ req[r].to \in AllStatuses
         /\ dossier'.status = req[r].to
         /\ dossier'.archived = FALSE
         /\ dossier'.cancelledFrom =
              IF req[r].to = "cancelled" THEN "cancelled" ELSE dossier.cancelledFrom
         /\ dossier'.delivered = (dossier.delivered \/ req[r].to = "documentsDelivered")
<1>1. dossier \in Rows
  BY ExistingRow DEF TypeOK, CommitRestore, Finish
<1>2. PICK row \in Rows : row = dossier
  BY <1>1
<1>3. req[r] \in Contexts /\ req[r].op = "restore"
  BY DEF TypeOK, CommitRestore
<1>4. PICK to \in AllStatuses : to = req[r].to
  BY <1>3, ContextShapes
<1>5. PICK mid \in Rows : mid = [row EXCEPT !.status = to, !.archived = FALSE]
  BY MovedRow
<1>6. dossier' = Recorded(mid, "cancelled", to)
  BY <1>2, <1>4, <1>5 DEF CommitRestore, Finish
<1>7. /\ mid.type = row.type /\ mid.version = row.version /\ mid.status = to
      /\ mid.archived = FALSE /\ mid.cancelledFrom = row.cancelledFrom
      /\ mid.delivered = row.delivered
  BY <1>5, MovedRow
<1> QED BY <1>2, <1>3, <1>4, <1>6, <1>7, RecordedRow, CancelledKnown DEF Keeps
-----------------------------------------------------------------------------
(* Type correctness. *)

LEMMA TypedInit == Init => TypeOK
<1> SUFFICES ASSUME Init PROVE TypeOK
  OBVIOUS
<1>1. PICK t \in Types, v \in Versions : dossier = NewRow(t, v)
  BY DEF Init
<1>2. t \in DossierTypes /\ v \in {1, 2}
  BY LifecycleAssumption
<1>3. getInitialStatus(t) \in AllStatuses
  BY <1>2, KnownStatuses
<1>4. dossier \in Rows
  BY <1>1, <1>2, <1>3 DEF NewRow, Rows
<1> QED BY <1>4 DEF Init, TypeOK, Contexts

LEMMA TypedContext ==
  ASSUME TypeOK, NEW r \in Requests, NEW op, NEW c \in Contexts, Start(r, op, c)
  PROVE  TypeOK'
BY DEF TypeOK, Start

LEMMA TypedReads ==
  ASSUME TypeOK, NEW r \in Requests,
         \/ ReadUpdateStatus(r) \/ ReadConfirmPurchase(r) \/ ReadUpgradeToDdp(r)
         \/ ReadUpdate(r) \/ ReadRestore(r) \/ ReadPermanentlyDelete(r)
  PROVE  TypeOK'
<1>1. dossier \in Rows
  BY ExistingRow DEF TypeOK, ReadUpdateStatus, ReadConfirmPurchase, ReadUpgradeToDdp,
       ReadUpdate, ReadRestore, ReadPermanentlyDelete
<1>2. dossier.status \in AllStatuses
  BY <1>1 DEF Rows
<1>3. CASE ReadUpdateStatus(r)
  <2>1. PICK to \in AllStatuses :
          Start(r, "updateStatus",
                [op |-> "updateStatus", from |-> dossier.status, to |-> to])
    BY <1>3 DEF ReadUpdateStatus
  <2>2. [op |-> "updateStatus", from |-> dossier.status, to |-> to] \in Contexts
    BY <1>2 DEF Contexts
  <2> QED BY <2>1, <2>2, TypedContext
<1>4. CASE ReadConfirmPurchase(r)
  <2>1. [op |-> "confirmPurchase", from |-> dossier.status] \in Contexts
    BY <1>2 DEF Contexts
  <2> QED BY <1>4, <2>1, TypedContext DEF ReadConfirmPurchase
<1>5. CASE ReadUpgradeToDdp(r)
  <2>1. [op |-> "upgradeToDdp", from |-> dossier.status] \in Contexts
    BY <1>2 DEF Contexts
  <2> QED BY <1>5, <2>1, TypedContext DEF ReadUpgradeToDdp
<1>6. CASE ReadUpdate(r)
  <2>1. [op |-> "update", from |-> dossier.status] \in Contexts
    BY <1>2 DEF Contexts
  <2> QED BY <1>6, <2>1, TypedContext DEF ReadUpdate
<1>7. CASE ReadRestore(r)
  <2> DEFINE to == IF dossier.cancelledFrom = "none"
                   THEN getInitialStatus(dossier.type) ELSE dossier.cancelledFrom
  <2>1. dossier.type \in DossierTypes /\ dossier.cancelledFrom \in AllStatuses \union {"none"}
    BY <1>1 DEF Rows
  <2>2. getInitialStatus(dossier.type) \in AllStatuses
    BY <2>1, KnownStatuses
  <2>3. to \in AllStatuses
    BY <2>1, <2>2
  <2>4. [op |-> "restore", to |-> to] \in Contexts
    BY <2>3 DEF Contexts
  <2>5. Start(r, "restore", [op |-> "restore", to |-> to])
    BY <1>7 DEF ReadRestore
  <2> QED BY <2>4, <2>5, TypedContext
<1>8. CASE ReadPermanentlyDelete(r)
  <2>1. [op |-> "permanentlyDelete"] \in Contexts
    BY DEF Contexts
  <2> QED BY <1>8, <2>1, TypedContext DEF ReadPermanentlyDelete
<1> QED BY <1>3, <1>4, <1>5, <1>6, <1>7, <1>8

LEMMA TypedCommits ==
  ASSUME TypeOK, NEW r \in Requests,
         \/ CommitUpdateStatus(r) \/ CommitConfirmPurchase(r) \/ CommitUpgradeToDdp(r)
         \/ CommitUpdate(r) \/ CommitRestore(r) \/ CommitPermanentlyDelete(r)
  PROVE  TypeOK'
<1>1. dossier' \in Rows \union {NoRow}
  BY UpdateStatusEffect, ConfirmPurchaseEffect, UpgradeToDdpEffect, UpdateEffect,
     RestoreEffect DEF Keeps, CommitPermanentlyDelete, Finish
<1>2. req' = [req EXCEPT ![r] = Idle] /\ shipped' = shipped
  BY DEF CommitUpdateStatus, CommitConfirmPurchase, CommitUpgradeToDdp, CommitUpdate,
       CommitRestore, CommitPermanentlyDelete, Finish
<1> QED BY <1>1, <1>2 DEF TypeOK, Contexts

LEMMA TypedNext == TypeOK /\ [Next]_vars => TypeOK'
<1> SUFFICES ASSUME TypeOK, [Next]_vars PROVE TypeOK'
  OBVIOUS
<1>1. ASSUME NEW r \in Requests, Abort(r) PROVE TypeOK'
  BY <1>1 DEF TypeOK, Abort, Contexts
<1>2. CASE ShipmentChanges
  BY <1>2 DEF TypeOK, ShipmentChanges
<1>3. CASE UNCHANGED vars
  BY <1>3 DEF TypeOK, vars
<1> QED BY <1>1, <1>2, <1>3, TypedReads, TypedCommits DEF Next

(* The row and the contexts keep the shape the handlers give them, however   *)
(* many requests run: no interleaving of a read and a transaction writes a   *)
(* status that no workflow table knows.                                      *)
THEOREM Typed == Spec => []TypeOK
BY TypedInit, TypedNext, PTL DEF Spec
-----------------------------------------------------------------------------
(* What the transactions rely on.                                            *)
(*                                                                           *)
(* The transaction of a status change claims the status it read; those of a  *)
(* purchase, an upgrade and a restore write without looking again.  They are *)
(* covered when requests come one at a time.                                 *)

OneAtATime == \A r, s \in Requests : r = s

Unconditional == {"confirmPurchase", "upgradeToDdp", "restore"}

UnconditionalAlone == Ops \intersect Unconditional # {} => OneAtATime

Purchasable ==
  validateTransition(dossier.type, dossier.status, "purchaseConfirmed",
                     dossier.version, TRUE)

(* A pending status change is an edge of the dossier's own workflow; what an *)
(* unconditional write read is still so; who deletes or restores does it to  *)
(* an archived dossier.                                                      *)
Fresh(r) ==
  /\ req[r].op \in Unconditional => OneAtATime
  /\ dossier.exists =>
       /\ req[r].op = "updateStatus" =>
            \E s \in BOOLEAN :
              validateTransition(dossier.type, req[r].from, req[r].to, dossier.version, s)
       /\ req[r].op = "confirmPurchase" => Purchasable
       /\ req[r].op = "upgradeToDdp" =>
            /\ dossier.type = "VEHICLE_SALE_CIF" /\ ~ dossier.delivered /\ ~ IsTerminal
            /\ req[r].from = dossier.status
       /\ req[r].op = "restore" => dossier.archived /\ req[r].to = dossier.cancelledFrom
       /\ req[r].op = "permanentlyDelete" => dossier.archived

ArchivedFromAStatus ==
  dossier.exists /\ dossier.archived => dossier.cancelledFrom # "none"

(* The status, and the status a restore would bring back, are steps of the   *)
(* table of the dossier; a dossier whose documents were handed over says so. *)
InTable ==
  dossier.exists =>
    /\ dossier.status \in StatusesOf(dossier.type, dossier.version) \union {"cancelled"}
    /\ dossier.cancelledFrom \in
         StatusesOf(dossier.type, dossier.version) \union {"cancelled", "none"}
    /\ "documentsDelivered" \in {dossier.status, dossier.cancelledFrom} => dossier.delivered

Sound ==
  /\ TypeOK
  /\ \A r \in Requests : Fresh(r)
  /\ ArchivedFromAStatus
  /\ InTable

LEMMA SoundInit == Init => Sound
<1> SUFFICES ASSUME Init PROVE Sound
  OBVIOUS
<1>1. PICK t \in Types, v \in Versions : dossier = NewRow(t, v)
  BY DEF Init
<1>2. t \in DossierTypes /\ v \in {1, 2}
  BY LifecycleAssumption
<1>3. getInitialStatus(t) \in StatusesOf(t, v) /\ getInitialStatus(t) # "documentsDelivered"
  BY <1>2, KnownStatuses DEF getInitialStatus
<1>4. InTable /\ ArchivedFromAStatus
  BY <1>1, <1>3 DEF NewRow, InTable, ArchivedFromAStatus
<1>5. \A r \in Requests : Fresh(r)
  BY DEF Init, Fresh, Idle, Unconditional
<1> QED BY <1>4, <1>5, TypedInit DEF Sound

(* A read leaves the row alone, and the other contexts. *)
LEMMA SoundRead ==
  ASSUME Sound, TypeOK', NEW r \in Requests, NEW op, NEW c, Start(r, op, c)
  PROVE  /\ dossier' = dossier /\ req'[r] = c /\ op \in Ops
         /\ Fresh(r)' => Sound'
<1>1. dossier' = dossier /\ op \in Ops /\ req' = [req EXCEPT ![r] = c]
  BY DEF Start
<1>2. req'[r] = c /\ \A q \in Requests \ {r} : req'[q] = req[q]
  BY <1>1 DEF Sound, TypeOK
<1>3. ASSUME NEW q \in Requests \ {r} PROVE Fresh(q)'
  BY <1>1, <1>2 DEF Sound, Fresh, IsTerminal, Purchasable
<1>4. ArchivedFromAStatus' /\ InTable'
  BY <1>1 DEF Sound, ArchivedFromAStatus, InTable
<1> QED BY <1>1, <1>2, <1>3, <1>4 DEF Sound

LEMMA SoundReads ==
  ASSUME UnconditionalAlone, Sound, NEW r \in Requests,
         \/ ReadUpdateStatus(r) \/ ReadConfirmPurchase(r) \/ ReadUpgradeToDdp(r)
         \/ ReadUpdate(r) \/ ReadRestore(r) \/ ReadPermanentlyDelete(r)
  PROVE  Sound'
<1>1. TypeOK'
  BY TypedReads DEF Sound
<1>2. CASE ReadUpdateStatus(r)
  <2>1. PICK to \in AllStatuses :
          /\ validateTransition(dossier.type, dossier.status, to, dossier.version, shipped)
          /\ Start(r, "updateStatus",
                   [op |-> "updateStatus", from |-> dossier.status, to |-> to])
    BY <1>2 DEF ReadUpdateStatus
  <2>2. /\ dossier' = dossier /\ (Fresh(r)' => Sound')
        /\ req'[r] = [op |-> "updateStatus", from |-> dossier.status, to |-> to]
    BY <1>1, <2>1, SoundRead, Zenon
  <2>3. shipped \in BOOLEAN
    BY DEF Sound, TypeOK
  <2>4. Fresh(r)'
    BY <2>1, <2>2, <2>3 DEF Fresh, Unconditional
  <2> QED BY <2>2, <2>4
<1>3. CASE ReadConfirmPurchase(r)
  <2>1. /\ Purchasable
        /\ Start(r, "confirmPurchase", [op |-> "confirmPurchase", from |-> dossier.status])
    BY <1>3 DEF ReadConfirmPurchase, Purchasable
  <2>2. /\ dossier' = dossier /\ (Fresh(r)' => Sound')
        /\ req'[r] = [op |-> "confirmPurchase", from |-> dossier.status]
        /\ "confirmPurchase" \in Ops
    BY <1>1, <2>1, SoundRead, Zenon
  <2>3. Purchasable'
    BY <2>1, <2>2 DEF Purchasable
  <2>4. Fresh(r)'
    BY <2>2, <2>3 DEF Fresh, Unconditional, UnconditionalAlone
  <2> QED BY <2>2, <2>4
<1>4. CASE ReadUpgradeToDdp(r)
  <2>1. /\ dossier.type = "VEHICLE_SALE_CIF" /\ ~ dossier.delivered /\ ~ IsTerminal
        /\ Start(r, "upgradeToDdp", [op |-> "upgradeToDdp", from |-> dossier.status])
    BY <1>4 DEF ReadUpgradeToDdp
  <2>2. /\ dossier' = dossier /\ (Fresh(r)' => Sound')
        /\ req'[r] = [op |-> "upgradeToDdp", from |-> dossier.status]
        /\ "upgradeToDdp" \in Ops
    BY <1>1, <2>1, SoundRead, Zenon
  <2>3. Fresh(r)'
    BY <2>1, <2>2 DEF Fresh, Unconditional, UnconditionalAlone, IsTerminal
  <2> QED BY <2>2, <2>3
<1>5. CASE ReadUpdate(r)
  <2>1. /\ dossier' = dossier /\ (Fresh(r)' => Sound')
        /\ req'[r] = [op |-> "update", from |-> dossier.status]
    BY <1>1, <1>5, SoundRead, Zenon DEF ReadUpdate
  <2>2. Fresh(r)'
    BY <2>1 DEF Fresh, Unconditional
  <2> QED BY <2>1, <2>2
<1>6. CASE ReadRestore(r)
  <2>1. dossier.archived /\ dossier.exists /\ dossier.cancelledFrom # "none"
    BY <1>6 DEF ReadRestore, Sound, ArchivedFromAStatus
  <2>2. Start(r, "restore", [op |-> "restore", to |-> dossier.cancelledFrom])
    BY <1>6, <2>1 DEF ReadRestore
  <2>3. /\ dossier' = dossier /\ (Fresh(r)' => Sound')
        /\ req'[r] = [op |-> "restore", to |-> dossier.cancelledFrom]
        /\ "restore" \in Ops
    BY <1>1, <2>2, SoundRead, Zenon
  <2>4. Fresh(r)'
    BY <2>1, <2>3 DEF Fresh, Unconditional, UnconditionalAlone
  <2> QED BY <2>3, <2>4
<1>7. CASE ReadPermanentlyDelete(r)
  <2>1. dossier.archived /\ Start(r, "permanentlyDelete", [op |-> "permanentlyDelete"])
    BY <1>7 DEF ReadPermanentlyDelete
  <2>2. /\ dossier' = dossier /\ (Fresh(r)' => Sound')
        /\ req'[r] = [op |-> "permanentlyDelete"]
    BY <1>1, <2>1, SoundRead, Zenon
  <2>3. Fresh(r)'
    BY <2>1, <2>2 DEF Fresh, Unconditional
  <2> QED BY <2>2, <2>3
<1> QED BY <1>2, <1>3, <1>4, <1>5, <1>6, <1>7

(* The other contexts survive a transaction: either there are none, or the   *)
(* transaction is one that keeps what they rely on.                          *)
LEMMA CommitsKeepOthersFresh ==
  ASSUME Sound, NEW r \in Requests,
         \/ CommitUpdateStatus(r) \/ CommitConfirmPurchase(r) \/ CommitUpgradeToDdp(r)
         \/ CommitUpdate(r) \/ CommitRestore(r) \/ CommitPermanentlyDelete(r)
  PROVE  \A q \in Requests : Fresh(q)'
<1>1. req' = [req EXCEPT ![r] = Idle]
  BY DEF CommitUpdateStatus, CommitConfirmPurchase, CommitUpgradeToDdp, CommitUpdate,
       CommitRestore, CommitPermanentlyDelete, Finish
<1>2. req'[r] = Idle /\ \A q \in Requests \ {r} : req'[q] = req[q]
  BY <1>1 DEF Sound, TypeOK
<1>3. Fresh(r)'
  BY <1>2 DEF Fresh, Idle, Unconditional
<1>4. ASSUME NEW q \in Requests, q # r PROVE Fresh(q)'
  <2>1. ~ OneAtATime
    BY <1>4 DEF OneAtATime
  <2>2. /\ req[q].op \notin Unconditional
        /\ req[r].op \notin Unconditional
    BY <2>1 DEF Sound, Fresh
  <2>3. req'[q] = req[q] /\ Fresh(q)
    BY <1>2, <1>4 DEF Sound
  <2>4. CASE CommitUpdateStatus(r)
    <3>1. /\ dossier.exists /\ ~ dossier.archived
          /\ dossier'.type = dossier.type /\ dossier'.version = dossier.version
      BY <2>4, UpdateStatusEffect DEF Sound, Keeps, Rows
    <3> QED BY <2>2, <2>3, <3>1 DEF Fresh, Unconditional
  <2>5. CASE CommitUpdate(r)
    <3>1. /\ dossier.exists /\ dossier'.archived = dossier.archived
          /\ dossier'.type = dossier.type /\ dossier'.version = dossier.version
      BY <2>5, UpdateEffect DEF Sound, Keeps, Rows
    <3> QED BY <2>2, <2>3, <3>1 DEF Fresh, Unconditional
  <2>6. CASE CommitPermanentlyDelete(r)
    <3>1. ~ dossier'.exists
      BY <2>6 DEF CommitPermanentlyDelete, Finish, NoRow
    <3> QED BY <2>2, <2>3, <3>1 DEF Fresh, Unconditional
  <2>7. CASE CommitConfirmPurchase(r) \/ CommitUpgradeToDdp(r) \/ CommitRestore(r)
    BY <2>2, <2>7 DEF CommitConfirmPurchase, CommitUpgradeToDdp, CommitRestore, Unconditional
  <2> QED BY <2>4, <2>5, <2>6, <2>7
<1> QED BY <1>3, <1>4

(* Each transaction leaves a row whose statuses are steps of its table. *)
InTableRow == ArchivedFromAStatus /\ InTable

LEMMA UpdateStatusStaysInTable ==
  ASSUME Sound, NEW r \in Requests, CommitUpdateStatus(r)
  PROVE  /\ InTableRow'
         /\ \E s \in BOOLEAN :
              validateTransition(dossier.type, dossier.status, dossier'.status,
                                 dossier.version, s)
<1>1. dossier.exists
  BY DEF CommitUpdateStatus
<1>2. PICK s \in BOOLEAN :
        validateTransition(dossier.type, req[r].from, req[r].to, dossier.version, s)
  BY <1>1, UpdateStatusEffect DEF Sound, Fresh
<1>3. /\ req[r].to \in StatusesOf(dossier.type, dossier.version) \union {"cancelled"}
      /\ req[r].from \notin TERMINAL_STATUSES
  BY <1>2, TransitionsStayInTable
<1>4. /\ dossier.status = req[r].from
      /\ dossier'.status = req[r].to /\ dossier'.archived = (req[r].to = "cancelled")
      /\ dossier'.cancelledFrom =
           IF req[r].to = "cancelled" THEN req[r].from ELSE dossier.cancelledFrom
      /\ dossier'.delivered = (dossier.delivered \/ req[r].to = "documentsDelivered")
      /\ dossier'.type = dossier.type /\ dossier'.version = dossier.version
  BY UpdateStatusEffect DEF Sound, Keeps
<1>5. req[r].from \in StatusesOf(dossier.type, dossier.version)
  BY <1>1, <1>3, <1>4 DEF Sound, InTable, TERMINAL_STATUSES
<1>6. dossier.type \in DossierTypes /\ dossier.version \in {1, 2}
  BY <1>1, ExistingRow, LifecycleAssumption DEF Sound, TypeOK, Rows
<1>7. ArchivedFromAStatus'
  BY <1>4, <1>5, <1>6, NoneIsNoStep DEF ArchivedFromAStatus
<1>8. InTable'
  BY <1>1, <1>3, <1>4, <1>5 DEF Sound, InTable
<1> QED BY <1>2, <1>4, <1>7, <1>8 DEF InTableRow

LEMMA ConfirmPurchaseStaysInTable ==
  ASSUME Sound, NEW r \in Requests, CommitConfirmPurchase(r)
  PROVE  /\ InTableRow'
         /\ validateTransition(dossier.type, dossier.status, dossier'.status,
                               dossier.version, TRUE)
<1>1. dossier.exists /\ req[r].op = "confirmPurchase"
  BY DEF CommitConfirmPurchase, Finish
<1>2. Purchasable
  BY <1>1 DEF Sound, Fresh
<1>3. "purchaseConfirmed" \in StatusesOf(dossier.type, dossier.version)
  BY <1>2 DEF Purchasable, validateTransition, getAllowedTransitions, NextSteps, StatusesOf
<1>4. /\ dossier'.status = "purchaseConfirmed" /\ dossier'.archived = dossier.archived
      /\ dossier'.cancelledFrom = dossier.cancelledFrom
      /\ dossier'.delivered = dossier.delivered
      /\ dossier'.type = dossier.type /\ dossier'.version = dossier.version
  BY ConfirmPurchaseEffect DEF Sound, Keeps
<1>5. InTableRow'
  BY <1>1, <1>3, <1>4 DEF Sound, InTableRow, InTable, ArchivedFromAStatus
<1> QED BY <1>2, <1>4, <1>5 DEF Purchasable

LEMMA UpgradeToDdpStaysInTable ==
  ASSUME Sound, NEW r \in Requests, CommitUpgradeToDdp(r)
  PROVE  InTableRow'
<1>1. dossier.exists /\ req[r].op = "upgradeToDdp"
  BY DEF CommitUpgradeToDdp, Finish
<1>2. /\ dossier.type = "VEHICLE_SALE_CIF" /\ ~ dossier.delivered
      /\ dossier.status \notin TERMINAL_STATUSES /\ req[r].from = dossier.status
  BY <1>1 DEF Sound, Fresh, IsTerminal
<1>3. /\ dossier'.status = dossier.status /\ dossier'.archived = dossier.archived
      /\ dossier'.cancelledFrom = dossier.cancelledFrom
      /\ dossier'.delivered = (dossier.delivered \/ dossier.status = "documentsDelivered")
      /\ dossier'.type = "VEHICLE_SALE_DDP" /\ dossier'.version = dossier.version
  BY <1>2, UpgradeToDdpEffect DEF Sound, Keeps, TERMINAL_STATUSES
<1>4. PICK v \in {1, 2} : v = dossier.version
  BY <1>1, ExistingRow, LifecycleAssumption DEF Sound, TypeOK, Rows
<1>5. /\ dossier.status \in StatusesOf("VEHICLE_SALE_CIF", v)
      /\ dossier.cancelledFrom \in
           StatusesOf("VEHICLE_SALE_CIF", v) \union {"cancelled", "none"}
      /\ "documentsDelivered" \notin {dossier.status, dossier.cancelledFrom}
  BY <1>1, <1>2, <1>4 DEF Sound, InTable, TERMINAL_STATUSES
<1>6. /\ dossier.status \in StatusesOf("VEHICLE_SALE_DDP", v)
      /\ dossier.cancelledFrom \in
           StatusesOf("VEHICLE_SALE_DDP", v) \union {"cancelled", "none"}
  BY <1>5, UpgradeKeepsStatus
<1> QED BY <1>1, <1>3, <1>4, <1>5, <1>6
        DEF Sound, InTableRow, InTable, ArchivedFromAStatus

LEMMA UpdateStaysInTable ==
  ASSUME Sound, NEW r \in Requests, CommitUpdate(r)
  PROVE  InTableRow'
<1>1. dossier.exists
  BY DEF CommitUpdate, Finish
<1>2. /\ dossier'.status = dossier.status /\ dossier'.archived = dossier.archived
      /\ dossier'.cancelledFrom =
           IF req[r].from = "cancelled" THEN "cancelled" ELSE dossier.cancelledFrom
      /\ dossier'.delivered = (dossier.delivered \/ req[r].from = "documentsDelivered")
      /\ dossier'.type = dossier.type /\ dossier'.version = dossier.version
  BY UpdateEffect DEF Sound, Keeps
<1>3. ArchivedFromAStatus'
  BY <1>1, <1>2 DEF Sound, ArchivedFromAStatus
<1>4. /\ dossier.status \in StatusesOf(dossier.type, dossier.version) \union {"cancelled"}
      /\ dossier.cancelledFrom \in
           StatusesOf(dossier.type, dossier.version) \union {"cancelled", "none"}
      /\ "documentsDelivered" \in {dossier.status, dossier.cancelledFrom} => dossier.delivered
  BY <1>1 DEF Sound, InTable
<1>5. "documentsDelivered" \in {dossier'.status, dossier'.cancelledFrom} => dossier'.delivered
  BY <1>2, <1>4
<1> QED BY <1>2, <1>3, <1>4, <1>5 DEF InTableRow, InTable

LEMMA RestoreStaysInTable ==
  ASSUME Sound, NEW r \in Requests, CommitRestore(r)
  PROVE  InTableRow' /\ Restored
<1>1. dossier.exists /\ req[r].op = "restore"
  BY DEF CommitRestore, Finish
<1>2. dossier.archived /\ req[r].to = dossier.cancelledFrom /\ dossier.cancelledFrom # "none"
  BY <1>1 DEF Sound, Fresh, ArchivedFromAStatus
<1>3. /\ dossier'.status = dossier.cancelledFrom /\ dossier'.archived = FALSE
      /\ dossier'.cancelledFrom = dossier.cancelledFrom
      /\ dossier'.delivered = (dossier.delivered \/ dossier.cancelledFrom = "documentsDelivered")
      /\ dossier'.type = dossier.type /\ dossier'.version = dossier.version
  BY <1>2, RestoreEffect DEF Sound, Keeps
<1> QED BY <1>1, <1>2, <1>3 DEF Sound, InTableRow, InTable, ArchivedFromAStatus, Restored

LEMMA DeleteStaysInTable ==
  ASSUME Sound, NEW r \in Requests, CommitPermanentlyDelete(r)
  PROVE  InTableRow' /\ dossier.archived /\ ~ dossier'.exists
<1>1. dossier.exists /\ req[r].op = "permanentlyDelete" /\ ~ dossier'.exists
  BY DEF CommitPermanentlyDelete, Finish, NoRow
<1> QED BY <1>1 DEF Sound, Fresh, InTableRow, InTable, ArchivedFromAStatus

LEMMA SoundNext == UnconditionalAlone /\ Sound /\ [Next]_vars => Sound'
<1> SUFFICES ASSUME UnconditionalAlone, Sound, [Next]_vars PROVE Sound'
  OBVIOUS
<1>1. TypeOK'
  BY TypedNext DEF Sound
<1>2. ASSUME NEW r \in Requests,
             \/ CommitUpdateStatus(r) \/ CommitConfirmPurchase(r) \/ CommitUpgradeToDdp(r)
             \/ CommitUpdate(r) \/ CommitRestore(r) \/ CommitPermanentlyDelete(r)
      PROVE  Sound'
  <2>1. InTableRow'
    BY <1>2, UpdateStatusStaysInTable, ConfirmPurchaseStaysInTable,
       UpgradeToDdpStaysInTable, UpdateStaysInTable, RestoreStaysInTable, DeleteStaysInTable
  <2>2. \A q \in Requests : Fresh(q)'
    BY <1>2, CommitsKeepOthersFresh
  <2> QED BY <1>1, <2>1, <2>2 DEF Sound, InTableRow
<1>3. ASSUME NEW r \in Requests, Abort(r) PROVE Sound'
  <2>1. dossier' = dossier /\ req' = [req EXCEPT ![r] = Idle]
    BY <1>3 DEF Abort
  <2>2. req'[r] = Idle /\ \A q \in Requests \ {r} : req'[q] = req[q]
    BY <2>1 DEF Sound, TypeOK
  <2>3. Fresh(r)'
    BY <2>2 DEF Fresh, Idle, Unconditional
  <2>4. ASSUME NEW q \in Requests \ {r} PROVE Fresh(q)'
    BY <2>1, <2>2 DEF Sound, Fresh, IsTerminal, Purchasable
  <2> QED BY <1>1, <2>1, <2>3, <2>4 DEF Sound, InTable, ArchivedFromAStatus
<1>4. CASE ShipmentChanges
  BY <1>1, <1>4 DEF ShipmentChanges, Sound, Fresh, IsTerminal, Purchasable, InTable,
       ArchivedFromAStatus
<1>5. CASE UNCHANGED vars
  BY <1>1, <1>5 DEF vars, Sound, Fresh, IsTerminal, Purchasable, InTable, ArchivedFromAStatus
<1> QED BY <1>2, <1>3, <1>4, <1>5, SoundReads DEF Next

LEMMA SoundAlways ==
  ASSUME UnconditionalAlone
  PROVE  Spec => []Sound
<1>1. Sound /\ [Next]_vars => Sound'
  BY SoundNext
<1> QED BY <1>1, SoundInit, PTL DEF Spec
-----------------------------------------------------------------------------
(* A dossier that is not finished has a next step, whatever was restored,    *)
(* upgraded or purchased before: its status is a step of the table of its    *)
(* type and version, and no unfinished step is the last one.                 *)
THEOREM NextStep ==
  ASSUME UnconditionalAlone
  PROVE  Spec => []ActiveHasNextStep
<1>1. Sound => ActiveHasNextStep
  <2> SUFFICES ASSUME Sound, dossier.exists, ~ IsTerminal
               PROVE  NextSteps(dossier.type, dossier.status, dossier.version, shipped) # {}
    BY DEF ActiveHasNextStep
  <2>1. dossier.type \in DossierTypes /\ dossier.version \in {1, 2}
    BY ExistingRow, LifecycleAssumption DEF Sound, TypeOK, Rows
  <2>2. /\ dossier.status \in StatusesOf(dossier.type, dossier.version)
        /\ dossier.status \notin TERMINAL_STATUSES
    BY DEF Sound, InTable, IsTerminal, TERMINAL_STATUSES
  <2> QED BY <2>1, <2>2, UnfinishedHasNextStep
<1> QED BY <1>1, SoundAlways, PTL

LEMMA EveryStepMoves == Sound /\ [Next]_vars => [MoveAlongWorkflow]_vars
<1> SUFFICES ASSUME Sound, Next, dossier.exists
             PROVE  MoveAlongWorkflow \/ UNCHANGED vars
  BY DEF MoveAlongWorkflow
<1>1. CASE dossier' = dossier
  BY <1>1 DEF MoveAlongWorkflow
<1>2. ASSUME NEW r \in Requests, CommitUpdateStatus(r) PROVE MoveAlongWorkflow
  BY <1>2, UpdateStatusStaysInTable, UpdateStatusEffect
     DEF MoveAlongWorkflow, Sound, Keeps
<1>3. ASSUME NEW r \in Requests, CommitConfirmPurchase(r) PROVE MoveAlongWorkflow
  <2>1. dossier'.exists
    BY <1>3, ConfirmPurchaseEffect DEF Sound, Keeps
  <2>2. \E s \in BOOLEAN : validateTransition(dossier.type, dossier.status,
                                              dossier'.status, dossier.version, s)
    BY <1>3, ConfirmPurchaseStaysInTable
  <2> QED BY <2>1, <2>2 DEF MoveAlongWorkflow
<1>4. ASSUME NEW r \in Requests, CommitUpgradeToDdp(r) PROVE MoveAlongWorkflow
  BY <1>4, UpgradeToDdpEffect DEF MoveAlongWorkflow, Sound, Keeps
<1>5. ASSUME NEW r \in Requests, CommitUpdate(r) PROVE MoveAlongWorkflow
  BY <1>5, UpdateEffect DEF MoveAlongWorkflow, Sound, Keeps
<1>6. ASSUME NEW r \in Requests, CommitRestore(r) PROVE MoveAlongWorkflow
  BY <1>6, RestoreStaysInTable DEF MoveAlongWorkflow
<1>7. ASSUME NEW r \in Requests, CommitPermanentlyDelete(r) PROVE MoveAlongWorkflow
  BY <1>7, DeleteStaysInTable DEF MoveAlongWorkflow
<1>8. ASSUME NEW r \in Requests,
             \/ ReadUpdateStatus(r) \/ ReadConfirmPurchase(r) \/ ReadUpgradeToDdp(r)
             \/ ReadUpdate(r) \/ ReadRestore(r) \/ ReadPermanentlyDelete(r) \/ Abort(r)
      PROVE  dossier' = dossier
  BY <1>8 DEF ReadUpdateStatus, ReadConfirmPurchase, ReadUpgradeToDdp, ReadUpdate,
       ReadRestore, ReadPermanentlyDelete, Abort, Start
<1>9. CASE ShipmentChanges
  BY <1>1, <1>9 DEF ShipmentChanges
<1> QED BY <1>1, <1>2, <1>3, <1>4, <1>5, <1>6, <1>7, <1>8, <1>9 DEF Next

(* A dossier moves along one edge of its workflow or is restored to where it *)
(* was cancelled, and only an archived one is deleted: a claim on a status   *)
(* that was read earlier never lets a request skip, repeat or rewind a step. *)
THEOREM Moves ==
  ASSUME UnconditionalAlone
  PROVE  Spec => MovesAlongWorkflow
BY SoundAlways, EveryStepMoves, PTL DEF Spec, MovesAlongWorkflow

=============================================================================
