---------------------- MODULE DomainRegistrationProofs ----------------------
(***************************************************************************)
(* The domain registration for any number of calls and wallets, with or    *)
(* without lost replies and restarts: its types, the token that outlives   *)
(* every failure, whose zone a registration points to, and that it         *)
(* implements the abstract RegistrationLife.                               *)
(***************************************************************************)
EXTENDS DomainRegistration, TLAPS

Buying == {"settle", "paid", "purchase", "purchased"}

(* What a call in progress knows of the rows: a registering or recovering  *)
(* call works for the registrant; whoever sets name servers has seen the   *)
(* registration's zone; a zone just created is new to the registration.    *)
Sound(c) ==
  /\ call[c].pc \in Buying => call[c].kind = "register" /\ call[c].wallet \in Wallet
  /\ call[c].pc \in {"zone", "zoned", "unzoned"} =>
       /\ call[c].kind \in {"register", "recover", "create"}
       /\ call[c].wallet \in Wallet
       /\ call[c].kind # "create" => reg.owner = call[c].wallet
  /\ call[c].pc \in {"names", "named", "unnamed"} =>
       reg.owner # NoOne /\ reg.zone # NoZone
  /\ call[c].pc = "zoned" =>
       /\ call[c].zone \in 1..zonesMade
       /\ call[c].zone # reg.zone
       /\ \A d \in Call \ {c} :
            call[d].pc = "zoned" => call[d].zone # call[c].zone

(* The columns of the registrations row agree with each other.             *)
RegSound ==
  /\ reg.owner = NoOne => ~ reg.token /\ reg.zone = NoZone
  /\ reg.zone = NoZone => ~ reg.ns
  /\ reg.zone <= zonesMade

DomainInv ==
  /\ SystemTypeOK
  /\ RegSound
  /\ TokenKeptUntilZone
  /\ RegistrantsZone
  /\ \A c \in Call : Sound(c)

-----------------------------------------------------------------------------
LEMMA InitInv == Init => DomainInv
<1> SUFFICES ASSUME Init PROVE DomainInv
  OBVIOUS
<1> USE DomainAssumption DEF DomainAssumption, Init, NoZone
<1>1. SystemTypeOK
  BY DEF SystemTypeOK, Calls, Idle, Places, Kind
<1>2. RegSound /\ TokenKeptUntilZone /\ RegistrantsZone
  BY DEF RegSound, TokenKeptUntilZone, RegistrantsZone, Registered
<1>3. \A c \in Call : Sound(c)
  BY DEF Sound, Idle, Buying
<1>4. QED
  BY <1>1, <1>2, <1>3 DEF DomainInv

LEMMA BeginInv ==
  ASSUME DomainInv, NEW c \in Call, NEW kind \in Kind, NEW w \in Wallet,
         NEW place \in {"settle", "zone", "names", "unnamed", "delete"},
         NEW zoneId \in Nat,
         place = "settle" => kind = "register",
         place = "zone" => /\ kind \in {"register", "recover", "create"}
                           /\ kind # "create" => reg.owner = w,
         place \in {"names", "unnamed"} => Registered /\ reg.zone # NoZone,
         Begin(c, kind, w, place, zoneId)
  PROVE  DomainInv'
<1>1. /\ call' = [call EXCEPT ![c] = [pc |-> place, kind |-> kind, wallet |-> w,
                                      zone |-> zoneId]]
      /\ UNCHANGED <<reg, zone, quoteOpen, told, purchased, delegation, cf, zonesMade>>
  BY DEF Begin, rows, external
<1>2. SystemTypeOK'
  BY <1>1 DEF DomainInv, SystemTypeOK, Calls, Places, Kind
<1>3. RegSound' /\ TokenKeptUntilZone' /\ RegistrantsZone'
  BY <1>1 DEF DomainInv, RegSound, TokenKeptUntilZone, RegistrantsZone, Registered
<1>4. ASSUME NEW d \in Call
      PROVE  Sound(d)'
  BY <1>1 DEF DomainInv, SystemTypeOK, Sound, Registered, Buying
<1>5. QED
  BY <1>2, <1>3, <1>4 DEF DomainInv

(* A call moves on and the rows stay.                                      *)
LEMMA GotoInv ==
  ASSUME DomainInv, NEW c \in Call, NEW place \in Places, Goto(c, place),
         UNCHANGED <<reg, zone, zonesMade>>, SystemTypeOK',
         place \notin {"zone", "zoned"},
         place \in Buying => call[c].pc \in Buying,
         place = "unzoned" => call[c].pc \in {"zone", "zoned"},
         place \in {"names", "named", "unnamed"} =>
           call[c].pc \in {"names", "named", "unnamed"}
  PROVE  DomainInv'
<1>1. RegSound' /\ TokenKeptUntilZone' /\ RegistrantsZone'
  BY DEF DomainInv, RegSound, TokenKeptUntilZone, RegistrantsZone, Registered
<1>2. call' = [call EXCEPT ![c].pc = place]
  BY DEF Goto
<1>3. ASSUME NEW d \in Call
      PROVE  Sound(d)'
  BY <1>2, <1>3 DEF DomainInv, SystemTypeOK, Calls, Sound, Buying
<1>4. QED
  BY <1>1, <1>3 DEF DomainInv

-----------------------------------------------------------------------------
LEMMA BeginsInv ==
  ASSUME DomainInv, NEW c \in Call,
         \/ BeginRegister(c) \/ BeginCreate(c) \/ BeginRecover(c)
         \/ BeginConfigure(c) \/ BeginDelete(c)
  PROVE  DomainInv'
<1>1. CASE BeginRegister(c)
  BY <1>1, BeginInv DEF BeginRegister, Kind, NoZone
<1>2. CASE BeginCreate(c)
  BY <1>2, BeginInv DEF BeginCreate, Kind, NoZone
<1>3. CASE BeginRecover(c)
  <2> DEFINE place == IF reg.zone = NoZone THEN "zone"
                      ELSE IF reg.ns THEN "unnamed" ELSE "names"
             names == IF reg.zone = zone.id THEN zone.id ELSE NoZone
  <2>1. Begin(c, "recover", reg.owner, place, names)
    BY <1>3 DEF BeginRecover
  <2>2. Registered /\ reg.owner \in Wallet
    BY <1>3 DEF BeginRecover, DomainInv, SystemTypeOK, RegSound, Registered
  <2>3. place \in {"zone", "names", "unnamed"} /\ (place # "zone" => reg.zone # NoZone)
    OBVIOUS
  <2>4. names \in Nat
    BY DEF DomainInv, SystemTypeOK, NoZone
  <2> HIDE DEF place, names
  <2>5. QED
    BY <2>1, <2>2, <2>3, <2>4, BeginInv DEF Kind
<1>4. CASE BeginConfigure(c)
  <2>1. reg.owner \in Wallet /\ zone.id \in Nat
    BY <1>4 DEF BeginConfigure, DomainInv, SystemTypeOK, Registered
  <2>2. QED
    BY <1>4, <2>1, BeginInv DEF BeginConfigure, Kind
<1>5. CASE BeginDelete(c)
  <2>1. zone.owner \in Wallet /\ zone.id \in Nat
    BY <1>5 DEF BeginDelete, DomainInv, SystemTypeOK
  <2>2. QED
    BY <1>5, <2>1, BeginInv DEF BeginDelete, Kind
<1>6. QED
  BY <1>1, <1>2, <1>3, <1>4, <1>5

LEMMA GotoTypes ==
  ASSUME SystemTypeOK, NEW c \in Call, NEW place \in Places, Goto(c, place)
  PROVE  call' \in [Call -> Calls]
BY DEF SystemTypeOK, Goto, Calls

LEMMA SettlePaymentInv ==
  ASSUME DomainInv, NEW c \in Call, SettlePayment(c) PROVE DomainInv'
<1>1. PICK place \in {"paid", "done"} : Goto(c, place)
  BY DEF SettlePayment
<1>2. place \in Places
  BY DEF Places
<1>3. SystemTypeOK'
  BY <1>1, <1>2, GotoTypes DEF SettlePayment, DomainInv, SystemTypeOK, rows, external
<1>4. QED
  BY <1>1, <1>2, <1>3, GotoInv DEF Buying, SettlePayment, rows, external

LEMMA StartRegistrationInv ==
  ASSUME DomainInv, NEW c \in Call, StartRegistration(c) PROVE DomainInv'
<1>1. PICK place \in {"purchase", "done"} : Goto(c, place)
  BY DEF StartRegistration
<1>2. place \in Places
  BY DEF Places
<1>3. SystemTypeOK'
  BY <1>1, <1>2, GotoTypes DEF StartRegistration, DomainInv, SystemTypeOK, rows, external
<1>4. QED
  BY <1>1, <1>2, <1>3, GotoInv DEF Buying, StartRegistration, rows, external

LEMMA PurchaseInv ==
  ASSUME DomainInv, NEW c \in Call, Purchase(c) PROVE DomainInv'
<1>1. PICK place \in {"purchased", "done"} : Goto(c, place)
  BY DEF Purchase
<1>2. place \in Places
  BY DEF Places
<1>3. SystemTypeOK'
  BY <1>1, <1>2, GotoTypes DEF Purchase, DomainInv, SystemTypeOK, rows
<1>4. QED
  BY <1>1, <1>2, <1>3, GotoInv DEF Buying, Purchase, rows

LEMMA InsertRegistrationInv ==
  ASSUME DomainInv, NEW c \in Call, InsertRegistration(c) PROVE DomainInv'
<1>1. CASE Registered
  <2>1. Goto(c, "done") /\ "done" \in Places
    BY <1>1 DEF InsertRegistration, Places
  <2>2. SystemTypeOK'
    BY <1>1, <2>1, GotoTypes DEF InsertRegistration, DomainInv, SystemTypeOK, external
  <2>3. QED
    BY <1>1, <2>1, <2>2, GotoInv DEF InsertRegistration, external, Buying
<1>2. CASE ~ Registered
  <2>1. /\ reg' = [owner |-> call[c].wallet, token |-> TRUE, zone |-> NoZone,
                   ns |-> FALSE]
        /\ Goto(c, "zone") /\ "zone" \in Places
        /\ UNCHANGED <<zone, quoteOpen, told, purchased, delegation, cf, zonesMade>>
    BY <1>2 DEF InsertRegistration, external, Places
  <2>2. call[c].wallet \in Wallet /\ call[c].kind = "register"
    BY DEF InsertRegistration, DomainInv, Sound, Buying
  <2>3. SystemTypeOK'
    BY <2>1, <2>2, GotoTypes DEF DomainInv, SystemTypeOK, NoZone
  <2>4. RegSound' /\ TokenKeptUntilZone' /\ RegistrantsZone'
    BY <2>1, <2>2, DomainAssumption
       DEF DomainAssumption, DomainInv, SystemTypeOK, RegSound, TokenKeptUntilZone,
           RegistrantsZone, NoZone
  <2>5. ASSUME NEW d \in Call
        PROVE  Sound(d)'
    <3>1. call' = [call EXCEPT ![c].pc = "zone"]
      BY <2>1 DEF Goto
    <3>2. reg.owner = NoOne /\ reg.zone = NoZone
      BY <1>2 DEF Registered, DomainInv, RegSound
    <3>3. CASE d = c
      BY <2>1, <2>2, <3>1, <3>3 DEF DomainInv, SystemTypeOK, Calls, Sound, Buying
    <3>4. CASE d # c
      <4>1. call'[d] = call[d]
        BY <3>1, <3>4 DEF DomainInv, SystemTypeOK
      <4>2. Sound(d)
        BY DEF DomainInv
      <4>3. call[d].pc \in {"zone", "zoned", "unzoned"} => call[d].kind = "create"
        BY <3>2, <4>2, DomainAssumption DEF DomainAssumption, Sound
      <4>4. reg'.zone = NoZone
        BY <2>1
      <4>5. \A e \in Call : call'[e].pc = "zoned" => call[e].pc = "zoned"
                                                   /\ call'[e] = call[e]
        BY <3>1 DEF DomainInv, SystemTypeOK, Calls
      <4>6. QED
        BY <2>1, <3>2, <4>1, <4>2, <4>3, <4>4, <4>5 DEF Sound
    <3>5. QED
      BY <3>3, <3>4
  <2>6. QED
    BY <2>3, <2>4, <2>5 DEF DomainInv
<1>3. QED
  BY <1>1, <1>2

LEMMA CreateCfZoneInv ==
  ASSUME DomainInv, NEW c \in Call, CreateCfZone(c) PROVE DomainInv'
<1>1. CASE Goto(c, "unzoned")
  <2>1. "unzoned" \in Places
    BY DEF Places
  <2>2. SystemTypeOK'
    BY <1>1, <2>1, GotoTypes DEF CreateCfZone, DomainInv, SystemTypeOK, rows
  <2>3. zonesMade' \in Nat /\ zonesMade' >= zonesMade
    BY DEF CreateCfZone, DomainInv, SystemTypeOK
  <2>4. RegSound' /\ TokenKeptUntilZone' /\ RegistrantsZone'
    BY <2>3 DEF CreateCfZone, rows, DomainInv, SystemTypeOK, RegSound,
                TokenKeptUntilZone, RegistrantsZone, Registered
  <2>5. ASSUME NEW d \in Call
        PROVE  Sound(d)'
    <3>1. call' = [call EXCEPT ![c].pc = "unzoned"] /\ reg' = reg
      BY <1>1 DEF Goto, CreateCfZone, rows
    <3>2. call[c].pc = "zone"
      BY DEF CreateCfZone
    <3>3. QED
      BY <2>3, <3>1, <3>2 DEF DomainInv, SystemTypeOK, Calls, Sound, Buying
  <2>6. QED
    BY <2>2, <2>4, <2>5 DEF DomainInv
<1>2. CASE /\ cf' = zonesMade + 1 /\ zonesMade' = zonesMade + 1
           /\ call' = [call EXCEPT ![c].pc = "zoned", ![c].zone = zonesMade + 1]
  <2>1. zonesMade \in Nat /\ zonesMade' \in Nat /\ reg' = reg /\ zone' = zone
        /\ reg.zone \in Nat
    BY <1>2 DEF CreateCfZone, rows, DomainInv, SystemTypeOK
  <2>2. SystemTypeOK'
    <3>1. call' \in [Call -> Calls]
      <4>1. zonesMade + 1 \in Nat /\ call[c] \in Calls
        BY <2>1 DEF DomainInv, SystemTypeOK
      <4>2. [call[c] EXCEPT !.pc = "zoned", !.zone = zonesMade + 1] \in Calls
        BY <4>1 DEF Calls, Places
      <4>3. QED
        BY <1>2, <4>2 DEF DomainInv, SystemTypeOK
    <3>2. cf' \in Nat /\ UNCHANGED <<quoteOpen, told, purchased, delegation>>
      BY <1>2, <2>1 DEF CreateCfZone
    <3>3. QED
      BY <2>1, <3>1, <3>2 DEF DomainInv, SystemTypeOK
  <2>3. RegSound' /\ TokenKeptUntilZone' /\ RegistrantsZone'
    BY <1>2, <2>1 DEF DomainInv, SystemTypeOK, RegSound, TokenKeptUntilZone,
                      RegistrantsZone, Registered
  <2>4. ASSUME NEW d \in Call
        PROVE  Sound(d)'
    <3>1. call[c].pc = "zone" /\ Sound(c) /\ Sound(d) /\ reg.zone <= zonesMade
      BY DEF CreateCfZone, DomainInv, RegSound
    <3>2. /\ call'[c].pc = "zoned" /\ call'[c].zone = zonesMade + 1
          /\ call'[c].kind = call[c].kind /\ call'[c].wallet = call[c].wallet
      BY <1>2 DEF DomainInv, SystemTypeOK, Calls
    <3>3. \A e \in Call \ {c} : call'[e] = call[e]
      BY <1>2 DEF DomainInv, SystemTypeOK
    <3>4. \A e \in Call : call[e].pc = "zoned" => call[e].zone <= zonesMade
      BY <2>1 DEF DomainInv, Sound
    <3>5. CASE d = c
      <4>1. zonesMade + 1 \in 1..zonesMade' /\ zonesMade + 1 # reg.zone
        BY <1>2, <2>1, <3>1
      <4>2. \A e \in Call \ {c} : call'[e].pc = "zoned" =>
              call'[e].zone # zonesMade + 1
        BY <2>1, <3>3, <3>4
      <4>3. QED
        BY <2>1, <3>1, <3>2, <3>5, <4>1, <4>2 DEF Sound, Buying
    <3>6. CASE d # c
      <4>1. call'[d] = call[d]
        BY <3>3, <3>6
      <4>2. call[d].pc = "zoned" =>
              call[d].zone \in 1..zonesMade' /\ call[d].zone # zonesMade + 1
        BY <1>2, <2>1, <3>1 DEF Sound
      <4>3. QED
        BY <2>1, <3>1, <3>2, <3>3, <4>1, <4>2 DEF Sound, Buying
    <3>7. QED
      BY <3>5, <3>6
  <2>5. QED
    BY <2>2, <2>3, <2>4 DEF DomainInv
<1>3. QED
  BY <1>1, <1>2 DEF CreateCfZone

LEMMA InsertZoneInv ==
  ASSUME DomainInv, NEW c \in Call, InsertZone(c) PROVE DomainInv'
<1>1. CASE zone.id # NoZone
  <2>1. Goto(c, "unzoned") /\ "unzoned" \in Places
    BY <1>1 DEF InsertZone, Places
  <2>2. SystemTypeOK'
    BY <1>1, <2>1, GotoTypes DEF InsertZone, DomainInv, SystemTypeOK, rows, external
  <2>3. QED
    BY <1>1, <2>1, <2>2, GotoInv DEF InsertZone, rows, external, Buying
<1>2. CASE zone.id = NoZone
  <2> DEFINE linked == call[c].kind # "create"
  <2>1. /\ zone' = [id |-> call[c].zone, owner |-> call[c].wallet]
        /\ reg' = IF linked THEN [reg EXCEPT !.zone = call[c].zone] ELSE reg
        /\ Goto(c, IF linked THEN "names" ELSE "done")
        /\ UNCHANGED <<quoteOpen, told, purchased, delegation, cf, zonesMade>>
    BY <1>2 DEF InsertZone, external
  <2>2. /\ call[c].pc = "zoned" /\ Sound(c) /\ call[c].wallet \in Wallet
        /\ call[c].zone \in 1..zonesMade /\ zonesMade \in Nat
        /\ linked => reg.owner = call[c].wallet
        /\ call[c].zone # reg.zone
    BY DEF InsertZone, DomainInv, Sound, SystemTypeOK
  <2>3. call[c].wallet # NoOne
    BY <2>2, DomainAssumption DEF DomainAssumption
  <2>4. SystemTypeOK'
    <3>1. call' \in [Call -> Calls]
      BY <2>1, GotoTypes DEF DomainInv, Places
    <3>2. QED
      BY <2>1, <2>2, <2>3, <3>1 DEF DomainInv, SystemTypeOK, NoZone
  <2>5. RegSound'
    BY <2>1, <2>2, <2>3 DEF DomainInv, SystemTypeOK, RegSound, NoZone
  <2>6. TokenKeptUntilZone'
    BY <2>1, <2>2 DEF DomainInv, SystemTypeOK, TokenKeptUntilZone, Registered, NoZone
  <2>7. RegistrantsZone'
    BY <2>1, <2>2 DEF DomainInv, SystemTypeOK, RegistrantsZone, Registered, NoZone
  <2>8. ASSUME NEW d \in Call
        PROVE  Sound(d)'
    <3>1. /\ call'[c].pc = IF linked THEN "names" ELSE "done"
          /\ call'[c].kind = call[c].kind /\ call'[c].wallet = call[c].wallet
      BY <2>1 DEF Goto, DomainInv, SystemTypeOK, Calls
    <3>2. \A e \in Call \ {c} : call'[e] = call[e]
      BY <2>1 DEF Goto, DomainInv, SystemTypeOK
    <3>3. reg'.owner = reg.owner /\ reg'.zone \in {reg.zone, call[c].zone}
          /\ (linked => reg'.zone = call[c].zone)
      BY <2>1 DEF DomainInv, SystemTypeOK
    <3>4. CASE d = c
      <4>1. linked => reg'.zone # NoZone
        BY <2>2, <3>3 DEF NoZone
      <4>2. QED
        BY <2>2, <2>3, <3>1, <3>3, <3>4, <4>1 DEF Sound, Buying
    <3>5. CASE d # c
      <4>1. call'[d] = call[d] /\ Sound(d)
        BY <3>2, <3>5 DEF DomainInv
      <4>2. call[d].pc = "zoned" => call[d].zone # call[c].zone
        BY <2>2, <3>5 DEF Sound
      <4>3. \A e \in Call : call'[e].pc = "zoned" => e # c
        BY <3>1
      <4>4. reg.zone # NoZone => reg'.zone # NoZone
        BY <2>2, <3>3 DEF NoZone
      <4>5. QED
        BY <2>1, <3>2, <3>3, <4>1, <4>2, <4>3, <4>4 DEF Sound, Buying
    <3>6. QED
      BY <3>4, <3>5
  <2>9. QED
    BY <2>4, <2>5, <2>6, <2>7, <2>8 DEF DomainInv
<1>3. QED
  BY <1>1, <1>2

LEMMA RespondUnzonedInv ==
  ASSUME DomainInv, NEW c \in Call, RespondUnzoned(c) PROVE DomainInv'
<1>1. Goto(c, "done") /\ "done" \in Places
  BY DEF RespondUnzoned, Places
<1>2. SystemTypeOK'
  BY <1>1, GotoTypes DEF RespondUnzoned, DomainInv, SystemTypeOK, rows, external
<1>3. QED
  BY <1>1, <1>2, GotoInv DEF RespondUnzoned, rows, external, Buying

LEMMA SetNameserversInv ==
  ASSUME DomainInv, NEW c \in Call, SetNameservers(c) PROVE DomainInv'
<1>1. PICK place \in {"named", "unnamed"} : Goto(c, place)
  BY DEF SetNameservers
<1>2. place \in Places
  BY DEF Places
<1>3. SystemTypeOK'
  <2>1. call[c].zone \in Nat
    BY DEF DomainInv, SystemTypeOK, Calls
  <2>2. QED
    BY <1>1, <1>2, <2>1, GotoTypes DEF SetNameservers, DomainInv, SystemTypeOK, rows
<1>4. QED
  BY <1>1, <1>2, <1>3, GotoInv DEF SetNameservers, rows, Buying

LEMMA RecordNamesInv ==
  ASSUME DomainInv, NEW c \in Call, RecordNames(c) PROVE DomainInv'
<1>1. /\ reg' = [reg EXCEPT !.ns = @ \/ call[c].pc = "named",
                            !.token = @ /\ call[c].kind = "configure"]
      /\ Goto(c, "done") /\ "done" \in Places
      /\ UNCHANGED <<zone, quoteOpen, told, purchased, delegation, cf, zonesMade>>
  BY DEF RecordNames, external, Places
<1>2. reg.owner # NoOne /\ reg.zone # NoZone
  BY DEF RecordNames, DomainInv, Sound
<1>3. reg'.owner = reg.owner /\ reg'.zone = reg.zone
  BY <1>1 DEF DomainInv, SystemTypeOK
<1>4. SystemTypeOK'
  BY <1>1, GotoTypes DEF DomainInv, SystemTypeOK
<1>5. RegSound' /\ TokenKeptUntilZone' /\ RegistrantsZone'
  BY <1>1, <1>2, <1>3 DEF DomainInv, RegSound, TokenKeptUntilZone,
                          RegistrantsZone, Registered
<1>6. ASSUME NEW d \in Call
      PROVE  Sound(d)'
  BY <1>1, <1>3 DEF Goto, DomainInv, SystemTypeOK, Calls, Sound, Buying
<1>7. QED
  BY <1>4, <1>5, <1>6 DEF DomainInv

LEMMA DeleteCfZoneInv ==
  ASSUME DomainInv, NEW c \in Call, DeleteCfZone(c) PROVE DomainInv'
<1>1. PICK place \in {"deleted", "done"} : Goto(c, place)
  BY DEF DeleteCfZone
<1>2. place \in Places
  BY DEF Places
<1>3. SystemTypeOK'
  BY <1>1, <1>2, GotoTypes DEF DeleteCfZone, DomainInv, SystemTypeOK, rows, NoZone
<1>4. QED
  BY <1>1, <1>2, <1>3, GotoInv DEF DeleteCfZone, rows, Buying

LEMMA DeleteZoneRowInv ==
  ASSUME DomainInv, NEW c \in Call, DeleteZoneRow(c) PROVE DomainInv'
<1>1. /\ zone' \in {zone, [id |-> NoZone, owner |-> NoOne]}
      /\ Goto(c, "done") /\ "done" \in Places
      /\ UNCHANGED <<reg, quoteOpen, told, purchased, delegation, cf, zonesMade>>
  BY DEF DeleteZoneRow, external, Places
<1>2. SystemTypeOK'
  BY <1>1, GotoTypes DEF DomainInv, SystemTypeOK, NoZone
<1>3. RegSound' /\ TokenKeptUntilZone' /\ RegistrantsZone'
  BY <1>1 DEF DomainInv, RegSound, TokenKeptUntilZone, RegistrantsZone,
              Registered, NoZone
<1>4. ASSUME NEW d \in Call
      PROVE  Sound(d)'
  BY <1>1 DEF Goto, DomainInv, SystemTypeOK, Calls, Sound, Buying
<1>5. QED
  BY <1>2, <1>3, <1>4 DEF DomainInv

LEMMA RestartInv == DomainInv /\ Restart => DomainInv'
<1> SUFFICES ASSUME DomainInv, Restart PROVE DomainInv'
  OBVIOUS
<1>1. UNCHANGED <<reg, zone, quoteOpen, told, purchased, delegation, cf, zonesMade>>
  BY DEF Restart, rows, external
<1>2. \A d \in Call : call'[d].pc \in {"idle", "done"} /\ call'[d] \in Calls
  BY DEF Restart, DomainInv, SystemTypeOK, Calls, Places
<1>3. call' \in [Call -> Calls]
  BY <1>2 DEF Restart
<1>4. SystemTypeOK'
  BY <1>1, <1>3 DEF DomainInv, SystemTypeOK
<1>5. RegSound' /\ TokenKeptUntilZone' /\ RegistrantsZone'
  BY <1>1 DEF DomainInv, RegSound, TokenKeptUntilZone, RegistrantsZone, Registered
<1>6. \A d \in Call : Sound(d)'
  BY <1>2 DEF Sound, Buying
<1>7. QED
  BY <1>4, <1>5, <1>6 DEF DomainInv

LEMMA DomainInvStep == DomainInv /\ [Next]_vars => DomainInv'
<1> SUFFICES ASSUME DomainInv, [Next]_vars PROVE DomainInv'
  OBVIOUS
<1>1. ASSUME ExpireQuote \/ UNCHANGED vars
      PROVE  DomainInv'
  <2>1. /\ UNCHANGED <<reg, zone, call, told, purchased, delegation, cf, zonesMade>>
        /\ quoteOpen' \in BOOLEAN
    BY <1>1 DEF ExpireQuote, vars, rows, external, DomainInv, SystemTypeOK
  <2>2. SystemTypeOK'
    BY <2>1 DEF DomainInv, SystemTypeOK
  <2>3. RegSound' /\ TokenKeptUntilZone' /\ RegistrantsZone'
    BY <2>1 DEF DomainInv, RegSound, TokenKeptUntilZone, RegistrantsZone, Registered
  <2>4. \A c \in Call : Sound(c)'
    BY <2>1 DEF DomainInv, Sound
  <2>5. QED
    BY <2>2, <2>3, <2>4 DEF DomainInv
<1>2. QED
  BY <1>1, BeginsInv, SettlePaymentInv, StartRegistrationInv, PurchaseInv,
     InsertRegistrationInv, CreateCfZoneInv, InsertZoneInv, RespondUnzonedInv,
     SetNameserversInv, RecordNamesInv, DeleteCfZoneInv, DeleteZoneRowInv,
     RestartInv DEF Next

LEMMA DomainInvariant == Spec => []DomainInv
BY InitInv, DomainInvStep, PTL DEF Spec

-----------------------------------------------------------------------------
(* Every reachable state has its types (db.ts:65-145).                     *)
THEOREM DomainTypeCorrect == Spec => []TypeOK
<1>1. Init => world \in Worlds
  BY DEF Init
<1>2. world \in Worlds /\ [Next]_vars => (world \in Worlds)'
  BY DEF Next, vars
<1>3. DomainInv /\ world \in Worlds => TypeOK
  BY DEF DomainInv, TypeOK
<1>4. QED
  BY <1>1, <1>2, <1>3, DomainInvariant, PTL DEF Spec

(* A registration without a zone has its recovery token, however many      *)
(* calls fail in whatever order, and through every restart                 *)
(* (service.ts:993-1053).                                                  *)
THEOREM TokenHolds == Spec => []TokenKeptUntilZone
<1>1. DomainInv => TokenKeptUntilZone
  BY DEF DomainInv
<1>2. QED
  BY <1>1, DomainInvariant, PTL

(* The zone a registration points to is the registrant's own               *)
(* (service.ts:1009-1023, 1090-1109).                                      *)
THEOREM RegistrantsZoneHolds == Spec => []RegistrantsZone
<1>1. DomainInv => RegistrantsZone
  BY DEF DomainInv
<1>2. QED
  BY <1>1, DomainInvariant, PTL

-----------------------------------------------------------------------------
(* The stage of Life, by itself.                                           *)
Stage == IF ~ Registered THEN "unregistered"
         ELSE IF reg.ns THEN "delegated"
         ELSE IF reg.zone # NoZone THEN "zoned" ELSE "purchased"

LEMMA LifeStep ==
  ASSUME DomainInv, [Next]_vars
  PROVE  [Life!Next]_<<reg.owner, Stage>>
<1>1. CASE reg' = reg
  BY <1>1 DEF Stage, Registered
<1>2. ASSUME NEW c \in Call, InsertRegistration(c), ~ Registered
      PROVE  Life!Next
  <2>1. call[c].wallet \in Wallet
    BY <1>2 DEF InsertRegistration, DomainInv, Sound, Buying
  <2>2. call[c].wallet # NoOne
    BY <2>1, DomainAssumption DEF DomainAssumption
  <2>3. /\ reg'.owner = call[c].wallet /\ reg'.zone = NoZone /\ reg'.ns = FALSE
    BY <1>2 DEF InsertRegistration
  <2>4. Stage = "unregistered" /\ Stage' = "purchased"
    BY <1>2, <2>2, <2>3 DEF Stage, Registered
  <2>5. QED
    BY <2>1, <2>3, <2>4 DEF Life!Next, Life!Buy, Stage
<1>3. ASSUME NEW c \in Call, InsertZone(c), zone.id = NoZone, call[c].kind # "create"
      PROVE  [Life!Next]_<<reg.owner, Stage>>
  <2>1. /\ reg' = [reg EXCEPT !.zone = call[c].zone]
        /\ reg.owner = call[c].wallet /\ call[c].wallet \in Wallet
        /\ call[c].zone \in 1..zonesMade
    BY <1>3 DEF InsertZone, DomainInv, Sound
  <2>2. Registered /\ call[c].zone # NoZone
    BY <2>1, DomainAssumption DEF DomainAssumption, Registered, NoZone, DomainInv, SystemTypeOK
  <2>3. reg'.owner = reg.owner /\ reg'.ns = reg.ns /\ reg'.zone = call[c].zone
    BY <2>1 DEF DomainInv, SystemTypeOK
  <2>4. CASE reg.zone = NoZone
    <3>1. Stage = "purchased" /\ Stage' = "zoned"
      BY <2>2, <2>3, <2>4 DEF Stage, Registered, DomainInv, RegSound
    <3>2. QED
      BY <2>3, <3>1 DEF Life!Next, Life!Advance, Stage
  <2>5. CASE reg.zone # NoZone
    <3>1. Stage' = Stage
      BY <2>2, <2>3, <2>5 DEF Stage, Registered
    <3>2. QED
      BY <2>3, <3>1
  <2>6. QED
    BY <2>4, <2>5
<1>4. ASSUME NEW c \in Call, RecordNames(c)
      PROVE  [Life!Next]_<<reg.owner, Stage>>
  <2>1. /\ reg'.owner = reg.owner /\ reg'.zone = reg.zone
        /\ reg.ns => reg'.ns
        /\ reg.ns \in BOOLEAN /\ reg'.ns \in BOOLEAN
    BY <1>4 DEF RecordNames, DomainInv, SystemTypeOK
  <2>2. Registered /\ reg.zone # NoZone
    BY <1>4 DEF RecordNames, DomainInv, Sound, Registered
  <2>3. CASE reg'.ns = reg.ns
    BY <2>1, <2>3 DEF Stage, Registered
  <2>4. CASE reg'.ns /\ ~ reg.ns
    <3>1. Stage = "zoned" /\ Stage' = "delegated"
      BY <2>1, <2>2, <2>4 DEF Stage, Registered
    <3>2. QED
      BY <2>1, <3>1 DEF Life!Next, Life!Advance, Stage
  <2>5. QED
    BY <2>1, <2>3, <2>4
<1>5. \/ reg' = reg
      \/ \E c \in Call : InsertRegistration(c) /\ ~ Registered
      \/ \E c \in Call : InsertZone(c) /\ zone.id = NoZone /\ call[c].kind # "create"
      \/ \E c \in Call : RecordNames(c)
  BY DEF Next, vars, rows, Begin, BeginRegister, SettlePayment, StartRegistration,
         Purchase, InsertRegistration, BeginCreate, BeginRecover, CreateCfZone,
         InsertZone, RespondUnzoned, BeginConfigure, SetNameservers, BeginDelete,
         DeleteCfZone, DeleteZoneRow, ExpireQuote, Restart
<1>6. QED
  BY <1>1, <1>2, <1>3, <1>4, <1>5

(* Whatever the calls do, the registration lives the abstract life: bought *)
(* once, by one wallet, and never back to an earlier stage                 *)
(* (service.ts:942-1195).                                                  *)
THEOREM LifeHolds == Spec => LifeSpec
<1>1. Init => Life!Init
  BY DEF Init, Life!Init, Registered
<1>2. DomainInv /\ [Next]_vars => [Life!Next]_<<reg.owner, Stage>>
  BY LifeStep
<1>3. QED
  BY <1>1, <1>2, DomainInvariant, PTL DEF Spec, LifeSpec, Life!Spec, Stage

-----------------------------------------------------------------------------
(* A zone just made is Cloudflare's only one, and nothing else knows it:   *)
(* neither the row nor a delete, which was begun with a row's id.          *)
ZonesKnown ==
  /\ cf <= zonesMade /\ zone.id <= zonesMade
  /\ \A c \in Call :
       /\ call[c].pc \in {"delete", "deleted"} => call[c].zone <= zonesMade
       /\ call[c].pc = "zoned" =>
            /\ cf = call[c].zone
            /\ zone.id # call[c].zone
            /\ \A d \in Call : call[d].pc \in {"delete", "deleted"} =>
                                call[d].zone # call[c].zone

(* Where no zone is deleted, the zone of the registration stays the row's, *)
(* every call that sets name servers sets those of that zone, and so the   *)
(* registrar delegates to it once one has been answered.                   *)
ZoneStays ==
  ~ world.deletes =>
    /\ reg.zone # NoZone => zone.id = reg.zone
    /\ reg.ns => delegation = reg.zone
    /\ \A c \in Call :
         /\ call[c].pc \notin {"delete", "deleted"}
         /\ call[c].pc = "names" => call[c].zone = reg.zone
         /\ call[c].pc = "named" => delegation = reg.zone

(* A bought name is recorded or about to be.                               *)
PurchaseTracked ==
  ~ world.lossy /\ ~ world.crashes /\ purchased =>
    Registered \/ \E c \in Call : call[c].pc = "purchased"

(* Without a zone, the token was given out or its call is still under way. *)
TokenTracked ==
  ~ world.crashes /\ Registered /\ reg.zone = NoZone =>
    \/ told
    \/ \E c \in Call : /\ call[c].kind = "register"
                       /\ call[c].pc \in {"zone", "zoned", "unzoned"}

(* Where every answer comes and nothing is deleted, Cloudflare has no zone *)
(* but the row's, or the one a call is about to record.                    *)
CfTracked ==
  ~ world.lossy /\ ~ world.crashes /\ ~ world.deletes =>
    \/ cf \in {NoZone, zone.id}
    \/ \E c \in Call : call[c].pc = "zoned"

OutsideInv ==
  /\ ZonesKnown /\ ZoneStays /\ PurchaseTracked /\ TokenTracked
  /\ RowsAreReal /\ CfTracked

(* The calls other than c stay as they are.                                *)
OthersStay(c) == \A d \in Call \ {c} : call'[d] = call[d]

LEMMA BeginRegisterOutside ==
  ASSUME DomainInv, OutsideInv, UNCHANGED world, NEW c \in Call, BeginRegister(c)
  PROVE  OutsideInv'
<1> USE DEF DomainInv, SystemTypeOK, Calls, BeginRegister, Goto, Begin, rows, external, NoZone
<1>1. OthersStay(c) /\ call'[c] \in Calls
  BY DEF OthersStay, Places, Kind
<1>2. ZonesKnown'
  BY <1>1 DEF OutsideInv, ZonesKnown, OthersStay
<1>3. ZoneStays'
  BY <1>1 DEF OutsideInv, ZoneStays, OthersStay, RegSound, Sound
<1>4. PurchaseTracked'
  BY <1>1 DEF OutsideInv, PurchaseTracked, OthersStay, Registered
<1>5. TokenTracked'
  BY <1>1 DEF OutsideInv, TokenTracked, OthersStay, Registered
<1>6. RowsAreReal'
  BY <1>1 DEF OutsideInv, RowsAreReal, OthersStay
<1>7. CfTracked'
  BY <1>1 DEF OutsideInv, CfTracked, OthersStay
<1>8. QED
  BY <1>2, <1>3, <1>4, <1>5, <1>6, <1>7 DEF OutsideInv

LEMMA SettlePaymentOutside ==
  ASSUME DomainInv, OutsideInv, UNCHANGED world, NEW c \in Call, SettlePayment(c)
  PROVE  OutsideInv'
<1> USE DEF DomainInv, SystemTypeOK, Calls, SettlePayment, Goto, Begin, rows, external, NoZone
<1>1. OthersStay(c) /\ call'[c] \in Calls
  BY DEF OthersStay, Places, Kind
<1>2. ZonesKnown'
  BY <1>1 DEF OutsideInv, ZonesKnown, OthersStay
<1>3. ZoneStays'
  BY <1>1 DEF OutsideInv, ZoneStays, OthersStay, RegSound, Sound
<1>4. PurchaseTracked'
  BY <1>1 DEF OutsideInv, PurchaseTracked, OthersStay, Registered
<1>5. TokenTracked'
  BY <1>1 DEF OutsideInv, TokenTracked, OthersStay, Registered
<1>6. RowsAreReal'
  BY <1>1 DEF OutsideInv, RowsAreReal, OthersStay
<1>7. CfTracked'
  BY <1>1 DEF OutsideInv, CfTracked, OthersStay
<1>8. QED
  BY <1>2, <1>3, <1>4, <1>5, <1>6, <1>7 DEF OutsideInv

LEMMA StartRegistrationOutside ==
  ASSUME DomainInv, OutsideInv, UNCHANGED world, NEW c \in Call, StartRegistration(c)
  PROVE  OutsideInv'
<1> USE DEF DomainInv, SystemTypeOK, Calls, StartRegistration, Goto, Begin, rows, external, NoZone
<1>1. OthersStay(c) /\ call'[c] \in Calls
  BY DEF OthersStay, Places, Kind
<1>2. ZonesKnown'
  BY <1>1 DEF OutsideInv, ZonesKnown, OthersStay
<1>3. ZoneStays'
  BY <1>1 DEF OutsideInv, ZoneStays, OthersStay, RegSound, Sound
<1>4. PurchaseTracked'
  BY <1>1 DEF OutsideInv, PurchaseTracked, OthersStay, Registered
<1>5. TokenTracked'
  BY <1>1 DEF OutsideInv, TokenTracked, OthersStay, Registered
<1>6. RowsAreReal'
  BY <1>1 DEF OutsideInv, RowsAreReal, OthersStay
<1>7. CfTracked'
  BY <1>1 DEF OutsideInv, CfTracked, OthersStay
<1>8. QED
  BY <1>2, <1>3, <1>4, <1>5, <1>6, <1>7 DEF OutsideInv

LEMMA PurchaseOutside ==
  ASSUME DomainInv, OutsideInv, UNCHANGED world, NEW c \in Call, Purchase(c)
  PROVE  OutsideInv'
<1> USE DEF DomainInv, SystemTypeOK, Calls, Purchase, Goto, Begin, rows, external, NoZone
<1>1. OthersStay(c) /\ call'[c] \in Calls
  BY DEF OthersStay, Places, Kind
<1>2. ZonesKnown'
  BY <1>1 DEF OutsideInv, ZonesKnown, OthersStay
<1>3. ZoneStays'
  BY <1>1 DEF OutsideInv, ZoneStays, OthersStay, RegSound, Sound
<1>4. PurchaseTracked'
  <2>1. CASE call'[c].pc = "purchased"
    BY <2>1 DEF PurchaseTracked
  <2>2. CASE call'[c].pc # "purchased"
    <3>1. ~ world.lossy => purchased' = purchased
      BY <2>2
    <3>2. QED
      BY <1>1, <3>1 DEF OutsideInv, PurchaseTracked, OthersStay, Registered
  <2>3. QED
    BY <2>1, <2>2
<1>5. TokenTracked'
  BY <1>1 DEF OutsideInv, TokenTracked, OthersStay, Registered
<1>6. RowsAreReal'
  BY <1>1 DEF OutsideInv, RowsAreReal, OthersStay
<1>7. CfTracked'
  BY <1>1 DEF OutsideInv, CfTracked, OthersStay
<1>8. QED
  BY <1>2, <1>3, <1>4, <1>5, <1>6, <1>7 DEF OutsideInv

LEMMA InsertRegistrationOutside ==
  ASSUME DomainInv, OutsideInv, UNCHANGED world, NEW c \in Call, InsertRegistration(c)
  PROVE  OutsideInv'
<1> USE DEF DomainInv, SystemTypeOK, Calls, InsertRegistration, Goto, Begin, rows, external, NoZone
<1>1. OthersStay(c) /\ call'[c] \in Calls
  BY DEF OthersStay, Places, Kind
<1>2. ZonesKnown'
  BY <1>1 DEF OutsideInv, ZonesKnown, OthersStay
<1>3. ZoneStays'
  <2>1. CASE Registered
    BY <1>1, <2>1 DEF OutsideInv, ZoneStays, OthersStay, RegSound, Sound
  <2>2. CASE ~ Registered
    <3>1. reg.owner = NoOne /\ reg'.zone = NoZone /\ ~ reg'.ns
      BY <2>2 DEF Registered
    <3>2. \A d \in Call : call'[d].pc \in {"names", "named"} => FALSE
      BY <1>1, <2>2, <3>1 DEF OthersStay, Sound
    <3>3. QED
      BY <1>1, <2>2, <3>1, <3>2 DEF OutsideInv, ZoneStays, OthersStay
  <2>3. QED
    BY <2>1, <2>2
<1>4. PurchaseTracked'
  <2>1. Registered'
    BY DomainAssumption DEF DomainAssumption, Registered, Sound, Buying
  <2>2. QED
    BY <2>1 DEF PurchaseTracked
<1>5. TokenTracked'
  <2>1. CASE Registered
    BY <1>1, <2>1 DEF OutsideInv, TokenTracked, OthersStay, Registered
  <2>2. CASE ~ Registered
    <3>1. call'[c].kind = "register" /\ call'[c].pc = "zone"
      BY <2>2 DEF Sound, Buying
    <3>2. QED
      BY <3>1 DEF TokenTracked
  <2>3. QED
    BY <2>1, <2>2
<1>6. RowsAreReal'
  BY <1>1 DEF OutsideInv, RowsAreReal, OthersStay
<1>7. CfTracked'
  BY <1>1 DEF OutsideInv, CfTracked, OthersStay
<1>8. QED
  BY <1>2, <1>3, <1>4, <1>5, <1>6, <1>7 DEF OutsideInv

LEMMA BeginCreateOutside ==
  ASSUME DomainInv, OutsideInv, UNCHANGED world, NEW c \in Call, BeginCreate(c)
  PROVE  OutsideInv'
<1> USE DEF DomainInv, SystemTypeOK, Calls, BeginCreate, Goto, Begin, rows, external, NoZone
<1>1. OthersStay(c) /\ call'[c] \in Calls
  BY DEF OthersStay, Places, Kind
<1>2. ZonesKnown'
  BY <1>1 DEF OutsideInv, ZonesKnown, OthersStay
<1>3. ZoneStays'
  BY <1>1 DEF OutsideInv, ZoneStays, OthersStay, RegSound, Sound
<1>4. PurchaseTracked'
  BY <1>1 DEF OutsideInv, PurchaseTracked, OthersStay, Registered
<1>5. TokenTracked'
  BY <1>1 DEF OutsideInv, TokenTracked, OthersStay, Registered
<1>6. RowsAreReal'
  BY <1>1 DEF OutsideInv, RowsAreReal, OthersStay
<1>7. CfTracked'
  BY <1>1 DEF OutsideInv, CfTracked, OthersStay
<1>8. QED
  BY <1>2, <1>3, <1>4, <1>5, <1>6, <1>7 DEF OutsideInv

LEMMA BeginRecoverOutside ==
  ASSUME DomainInv, OutsideInv, UNCHANGED world, NEW c \in Call, BeginRecover(c)
  PROVE  OutsideInv'
<1> USE DEF DomainInv, SystemTypeOK, Calls, BeginRecover, Goto, Begin, rows, external, NoZone
<1>1. OthersStay(c) /\ call'[c] \in Calls
  BY DEF OthersStay, Places, Kind
<1>2. ZonesKnown'
  BY <1>1 DEF OutsideInv, ZonesKnown, OthersStay
<1>3. ZoneStays'
  BY <1>1 DEF OutsideInv, ZoneStays, OthersStay, RegSound, Sound
<1>4. PurchaseTracked'
  BY <1>1 DEF OutsideInv, PurchaseTracked, OthersStay, Registered
<1>5. TokenTracked'
  BY <1>1 DEF OutsideInv, TokenTracked, OthersStay, Registered
<1>6. RowsAreReal'
  BY <1>1 DEF OutsideInv, RowsAreReal, OthersStay
<1>7. CfTracked'
  BY <1>1 DEF OutsideInv, CfTracked, OthersStay
<1>8. QED
  BY <1>2, <1>3, <1>4, <1>5, <1>6, <1>7 DEF OutsideInv

LEMMA CreateCfZoneOutside ==
  ASSUME DomainInv, OutsideInv, UNCHANGED world, NEW c \in Call, CreateCfZone(c)
  PROVE  OutsideInv'
<1> USE DEF DomainInv, SystemTypeOK, Calls, CreateCfZone, Goto, Begin, rows, external, NoZone
<1>1. OthersStay(c) /\ call'[c] \in Calls
  BY DEF OthersStay, Places, Kind
<1>2. ZonesKnown'
  <2>1. CASE call'[c].pc = "unzoned" /\ UNCHANGED <<cf, zonesMade>>
    BY <1>1, <2>1 DEF OutsideInv, ZonesKnown, OthersStay
  <2>2. CASE cf = NoZone /\ cf' = zonesMade + 1 /\ zonesMade' = zonesMade + 1
    <3>1. \A d \in Call \ {c} : call'[d].pc # "zoned"
      BY <1>1, <2>2 DEF OutsideInv, ZonesKnown, OthersStay, Sound
    <3>2. zone.id <= zonesMade /\ zone' = zone /\ zonesMade \in Nat
      BY DEF OutsideInv, ZonesKnown
    <3>3. \A d \in Call : call'[d].pc \in {"delete", "deleted"} =>
            d # c /\ call'[d].zone <= zonesMade
      BY <1>1, <2>2 DEF OutsideInv, ZonesKnown, OthersStay
    <3>4. call'[c].pc = "zoned" => call'[c].zone = zonesMade + 1
      BY <2>2
    <3>5. \A d \in Call : call'[d] \in Calls
      BY <1>1 DEF OthersStay
    <3>6. \A d \in Call : call'[d].pc \in {"delete", "deleted"} =>
            call'[d].zone <= zonesMade' /\ call'[d].zone # zonesMade'
      BY <2>2, <3>2, <3>3, <3>5
    <3>7. zone'.id <= zonesMade' /\ zone'.id # zonesMade'
      BY <2>2, <3>2
    <3> QED
      BY <2>2, <3>1, <3>4, <3>6, <3>7, <3>2 DEF ZonesKnown
  <2>3. QED
    BY <2>1, <2>2
<1>3. ZoneStays'
  BY <1>1 DEF OutsideInv, ZoneStays, OthersStay, RegSound, Sound
<1>4. PurchaseTracked'
  BY <1>1 DEF OutsideInv, PurchaseTracked, OthersStay, Registered
<1>5. TokenTracked'
  BY <1>1 DEF OutsideInv, TokenTracked, OthersStay, Registered
<1>6. RowsAreReal'
  BY <1>1 DEF OutsideInv, RowsAreReal, OthersStay
<1>7. CfTracked'
  BY <1>1 DEF OutsideInv, CfTracked, OthersStay
<1>8. QED
  BY <1>2, <1>3, <1>4, <1>5, <1>6, <1>7 DEF OutsideInv

LEMMA InsertZoneOutside ==
  ASSUME DomainInv, OutsideInv, UNCHANGED world, NEW c \in Call, InsertZone(c)
  PROVE  OutsideInv'
<1> USE DEF DomainInv, SystemTypeOK, Calls, InsertZone, Goto, Begin, rows, external, NoZone
<1>1. OthersStay(c) /\ call'[c] \in Calls
  BY DEF OthersStay, Places, Kind
<1>2. ZonesKnown'
  <2>1. CASE zone.id # NoZone
    BY <1>1, <2>1 DEF OutsideInv, ZonesKnown, OthersStay
  <2>2. CASE zone.id = NoZone
    <3>1. zone' = [id |-> call[c].zone, owner |-> call[c].wallet]
      BY <2>2
    <3>2. \A d \in Call : call'[d].pc = "zoned" =>
            d # c /\ call'[d] = call[d] /\ call[d].zone # call[c].zone
      BY <1>1, <2>2 DEF OthersStay, Sound
    <3>3. \A d \in Call : call'[d].pc \in {"delete", "deleted"} =>
            d # c /\ call'[d] = call[d]
      BY <1>1, <2>2 DEF OthersStay
    <3>4. call[c].zone <= zonesMade /\ cf' = cf /\ zonesMade' = zonesMade
      BY DEF Sound
    <3>5. QED
      BY <3>1, <3>2, <3>3, <3>4 DEF OutsideInv, ZonesKnown
  <2>3. QED
    BY <2>1, <2>2
<1>3. ZoneStays'
  BY <1>1 DEF OutsideInv, ZoneStays, OthersStay, RegSound, Sound
<1>4. PurchaseTracked'
  BY <1>1 DEF OutsideInv, PurchaseTracked, OthersStay, Registered
<1>5. TokenTracked'
  <2>1. CASE zone.id # NoZone
    BY <1>1, <2>1 DEF OutsideInv, TokenTracked, OthersStay, Registered
  <2>2. CASE zone.id = NoZone
    <3>1. call[c].kind = "register" => reg'.zone # NoZone
      BY <2>2 DEF Sound
    <3>2. CASE reg'.zone # NoZone
      BY <3>2 DEF TokenTracked
    <3>3. CASE reg'.zone = NoZone
      <4>1. reg' = reg /\ call[c].kind # "register"
        BY <2>2, <3>1, <3>3 DEF Sound
      <4>2. QED
        BY <1>1, <4>1 DEF OutsideInv, TokenTracked, OthersStay, Registered
    <3>4. QED
      BY <3>2, <3>3
  <2>3. QED
    BY <2>1, <2>2
<1>6. RowsAreReal'
  <2>1. CASE zone.id # NoZone
    BY <1>1, <2>1 DEF OutsideInv, RowsAreReal, OthersStay
  <2>2. CASE zone.id = NoZone
    <3>1. zone'.id = cf' 
      BY <2>2 DEF OutsideInv, ZonesKnown
    <3>2. QED
      BY <3>1 DEF RowsAreReal
  <2>3. QED
    BY <2>1, <2>2
<1>7. CfTracked'
  <2>1. CASE zone.id # NoZone
    <3>1. \/ cf # zone.id
          \/ world.crashes \/ world.lossy
      BY DEF OutsideInv, ZonesKnown
    <3>2. ~ world.lossy /\ ~ world.crashes /\ ~ world.deletes => cf = zone.id
      BY <2>1 DEF OutsideInv, RowsAreReal, ZoneStays
    <3>3. QED
      BY <3>1, <3>2 DEF CfTracked
  <2>2. CASE zone.id = NoZone
    <3>1. zone'.id = cf'
      BY <2>2 DEF OutsideInv, ZonesKnown
    <3>2. QED
      BY <3>1 DEF CfTracked
  <2>3. QED
    BY <2>1, <2>2
<1>8. QED
  BY <1>2, <1>3, <1>4, <1>5, <1>6, <1>7 DEF OutsideInv

LEMMA RespondUnzonedOutside ==
  ASSUME DomainInv, OutsideInv, UNCHANGED world, NEW c \in Call, RespondUnzoned(c)
  PROVE  OutsideInv'
<1> USE DEF DomainInv, SystemTypeOK, Calls, RespondUnzoned, Goto, Begin, rows, external, NoZone
<1>1. OthersStay(c) /\ call'[c] \in Calls
  BY DEF OthersStay, Places, Kind
<1>2. ZonesKnown'
  BY <1>1 DEF OutsideInv, ZonesKnown, OthersStay
<1>3. ZoneStays'
  BY <1>1 DEF OutsideInv, ZoneStays, OthersStay, RegSound, Sound
<1>4. PurchaseTracked'
  BY <1>1 DEF OutsideInv, PurchaseTracked, OthersStay, Registered
<1>5. TokenTracked'
  BY <1>1 DEF OutsideInv, TokenTracked, OthersStay, Registered
<1>6. RowsAreReal'
  BY <1>1 DEF OutsideInv, RowsAreReal, OthersStay
<1>7. CfTracked'
  BY <1>1 DEF OutsideInv, CfTracked, OthersStay
<1>8. QED
  BY <1>2, <1>3, <1>4, <1>5, <1>6, <1>7 DEF OutsideInv

LEMMA BeginConfigureOutside ==
  ASSUME DomainInv, OutsideInv, UNCHANGED world, NEW c \in Call, BeginConfigure(c)
  PROVE  OutsideInv'
<1> USE DEF DomainInv, SystemTypeOK, Calls, BeginConfigure, Goto, Begin, rows, external, NoZone
<1>1. OthersStay(c) /\ call'[c] \in Calls
  BY DEF OthersStay, Places, Kind
<1>2. ZonesKnown'
  BY <1>1 DEF OutsideInv, ZonesKnown, OthersStay
<1>3. ZoneStays'
  BY <1>1 DEF OutsideInv, ZoneStays, OthersStay, RegSound, Sound
<1>4. PurchaseTracked'
  BY <1>1 DEF OutsideInv, PurchaseTracked, OthersStay, Registered
<1>5. TokenTracked'
  BY <1>1 DEF OutsideInv, TokenTracked, OthersStay, Registered
<1>6. RowsAreReal'
  BY <1>1 DEF OutsideInv, RowsAreReal, OthersStay
<1>7. CfTracked'
  BY <1>1 DEF OutsideInv, CfTracked, OthersStay
<1>8. QED
  BY <1>2, <1>3, <1>4, <1>5, <1>6, <1>7 DEF OutsideInv

LEMMA SetNameserversOutside ==
  ASSUME DomainInv, OutsideInv, UNCHANGED world, NEW c \in Call, SetNameservers(c)
  PROVE  OutsideInv'
<1> USE DEF DomainInv, SystemTypeOK, Calls, SetNameservers, Goto, Begin, rows, external, NoZone
<1>1. OthersStay(c) /\ call'[c] \in Calls
  BY DEF OthersStay, Places, Kind
<1>2. ZonesKnown'
  BY <1>1 DEF OutsideInv, ZonesKnown, OthersStay
<1>3. ZoneStays'
  BY <1>1 DEF OutsideInv, ZoneStays, OthersStay, RegSound, Sound
<1>4. PurchaseTracked'
  BY <1>1 DEF OutsideInv, PurchaseTracked, OthersStay, Registered
<1>5. TokenTracked'
  BY <1>1 DEF OutsideInv, TokenTracked, OthersStay, Registered
<1>6. RowsAreReal'
  BY <1>1 DEF OutsideInv, RowsAreReal, OthersStay
<1>7. CfTracked'
  BY <1>1 DEF OutsideInv, CfTracked, OthersStay
<1>8. QED
  BY <1>2, <1>3, <1>4, <1>5, <1>6, <1>7 DEF OutsideInv

LEMMA RecordNamesOutside ==
  ASSUME DomainInv, OutsideInv, UNCHANGED world, NEW c \in Call, RecordNames(c)
  PROVE  OutsideInv'
<1> USE DEF DomainInv, SystemTypeOK, Calls, RecordNames, Goto, Begin, rows, external, NoZone
<1>1. OthersStay(c) /\ call'[c] \in Calls
  BY DEF OthersStay, Places, Kind
<1>2. ZonesKnown'
  BY <1>1 DEF OutsideInv, ZonesKnown, OthersStay
<1>3. ZoneStays'
  BY <1>1 DEF OutsideInv, ZoneStays, OthersStay, RegSound, Sound
<1>4. PurchaseTracked'
  BY <1>1 DEF OutsideInv, PurchaseTracked, OthersStay, Registered
<1>5. TokenTracked'
  BY <1>1 DEF OutsideInv, TokenTracked, OthersStay, Registered
<1>6. RowsAreReal'
  BY <1>1 DEF OutsideInv, RowsAreReal, OthersStay
<1>7. CfTracked'
  BY <1>1 DEF OutsideInv, CfTracked, OthersStay
<1>8. QED
  BY <1>2, <1>3, <1>4, <1>5, <1>6, <1>7 DEF OutsideInv

LEMMA BeginDeleteOutside ==
  ASSUME DomainInv, OutsideInv, UNCHANGED world, NEW c \in Call, BeginDelete(c)
  PROVE  OutsideInv'
<1> USE DEF DomainInv, SystemTypeOK, Calls, BeginDelete, Goto, Begin, rows, external, NoZone
<1>1. OthersStay(c) /\ call'[c] \in Calls
  BY DEF OthersStay, Places, Kind
<1>2. ZonesKnown'
  BY <1>1 DEF OutsideInv, ZonesKnown, OthersStay
<1>3. ZoneStays'
  BY <1>1 DEF OutsideInv, ZoneStays, OthersStay, RegSound, Sound
<1>4. PurchaseTracked'
  BY <1>1 DEF OutsideInv, PurchaseTracked, OthersStay, Registered
<1>5. TokenTracked'
  BY <1>1 DEF OutsideInv, TokenTracked, OthersStay, Registered
<1>6. RowsAreReal'
  BY <1>1 DEF OutsideInv, RowsAreReal, OthersStay
<1>7. CfTracked'
  BY <1>1 DEF OutsideInv, CfTracked, OthersStay
<1>8. QED
  BY <1>2, <1>3, <1>4, <1>5, <1>6, <1>7 DEF OutsideInv

LEMMA DeleteCfZoneOutside ==
  ASSUME DomainInv, OutsideInv, UNCHANGED world, NEW c \in Call, DeleteCfZone(c)
  PROVE  OutsideInv'
<1> USE DEF DomainInv, SystemTypeOK, Calls, DeleteCfZone, Goto, Begin, rows, external, NoZone
<1>1. OthersStay(c) /\ call'[c] \in Calls
  <2>1. PICK place \in {"deleted", "done"} : call' = [call EXCEPT ![c].pc = place]
    OBVIOUS
  <2>2. QED
    BY <2>1 DEF OthersStay, Places
<1>2. ZonesKnown'
  BY <1>1 DEF OutsideInv, ZonesKnown, OthersStay
<1>3. ZoneStays'
  BY <1>1 DEF OutsideInv, ZoneStays, OthersStay, RegSound, Sound
<1>4. PurchaseTracked'
  BY <1>1 DEF OutsideInv, PurchaseTracked, OthersStay, Registered
<1>5. TokenTracked'
  BY <1>1 DEF OutsideInv, TokenTracked, OthersStay, Registered
<1>6. RowsAreReal'
  BY <1>1 DEF OutsideInv, RowsAreReal, OthersStay
<1>7. CfTracked'
  BY <1>1 DEF OutsideInv, CfTracked, OthersStay
<1>8. QED
  BY <1>2, <1>3, <1>4, <1>5, <1>6, <1>7 DEF OutsideInv

LEMMA DeleteZoneRowOutside ==
  ASSUME DomainInv, OutsideInv, UNCHANGED world, NEW c \in Call, DeleteZoneRow(c)
  PROVE  OutsideInv'
<1> USE DEF DomainInv, SystemTypeOK, Calls, DeleteZoneRow, Goto, Begin, rows, external, NoZone
<1>1. OthersStay(c) /\ call'[c] \in Calls
  BY DEF OthersStay, Places, Kind
<1>2. ZonesKnown'
  BY <1>1 DEF OutsideInv, ZonesKnown, OthersStay, Sound
<1>3. ZoneStays'
  BY <1>1 DEF OutsideInv, ZoneStays, OthersStay, RegSound, Sound
<1>4. PurchaseTracked'
  BY <1>1 DEF OutsideInv, PurchaseTracked, OthersStay, Registered
<1>5. TokenTracked'
  BY <1>1 DEF OutsideInv, TokenTracked, OthersStay, Registered
<1>6. RowsAreReal'
  BY <1>1 DEF OutsideInv, RowsAreReal, OthersStay
<1>7. CfTracked'
  BY DEF OutsideInv, CfTracked, ZoneStays
<1>8. QED
  BY <1>2, <1>3, <1>4, <1>5, <1>6, <1>7 DEF OutsideInv

LEMMA RestartOutside ==
  ASSUME DomainInv, OutsideInv, UNCHANGED world, Restart
  PROVE  OutsideInv'
<1>1. /\ UNCHANGED <<reg, zone, told, purchased, delegation, cf, zonesMade>>
      /\ world.crashes
  BY DEF Restart, rows, external
<1>2. \A d \in Call : call'[d].pc \in {"idle", "done"}
  BY DEF Restart, DomainInv, SystemTypeOK, Calls
<1>3. ZonesKnown' /\ ZoneStays'
  BY <1>1, <1>2 DEF OutsideInv, ZonesKnown, ZoneStays
<1>4. PurchaseTracked' /\ TokenTracked' /\ RowsAreReal' /\ CfTracked'
  BY <1>1 DEF PurchaseTracked, TokenTracked, RowsAreReal, CfTracked
<1>5. QED
  BY <1>3, <1>4 DEF OutsideInv

LEMMA OutsideStep == DomainInv /\ OutsideInv /\ [Next]_vars => OutsideInv'
<1> SUFFICES ASSUME DomainInv, OutsideInv, [Next]_vars PROVE OutsideInv'
  OBVIOUS
<1>1. UNCHANGED world
  BY DEF Next, vars
<1>2. ASSUME ExpireQuote \/ UNCHANGED vars PROVE OutsideInv'
  <2>1. UNCHANGED <<reg, zone, call, told, purchased, delegation, cf, zonesMade, world>>
    BY <1>1, <1>2 DEF ExpireQuote, vars, rows, external
  <2>2. ZonesKnown' /\ ZoneStays'
    BY <2>1 DEF OutsideInv, ZonesKnown, ZoneStays
  <2>3. PurchaseTracked' /\ TokenTracked' /\ RowsAreReal' /\ CfTracked'
    BY <2>1 DEF OutsideInv, PurchaseTracked, TokenTracked, RowsAreReal, CfTracked, Registered
  <2>4. QED
    BY <2>2, <2>3 DEF OutsideInv
<1>3. QED
  BY <1>1, <1>2, BeginRegisterOutside, SettlePaymentOutside,
     StartRegistrationOutside, PurchaseOutside, InsertRegistrationOutside,
     BeginCreateOutside, BeginRecoverOutside, CreateCfZoneOutside,
     InsertZoneOutside, RespondUnzonedOutside, BeginConfigureOutside,
     SetNameserversOutside, RecordNamesOutside, BeginDeleteOutside,
     DeleteCfZoneOutside, DeleteZoneRowOutside, RestartOutside DEF Next

LEMMA OutsideInit == Init => OutsideInv
<1> SUFFICES ASSUME Init PROVE OutsideInv
  OBVIOUS
<1>1. ZonesKnown /\ ZoneStays
  BY DEF Init, ZonesKnown, ZoneStays, Idle, NoZone
<1>2. PurchaseTracked /\ TokenTracked /\ RowsAreReal /\ CfTracked
  BY DEF Init, PurchaseTracked, TokenTracked, RowsAreReal, CfTracked, Registered, NoZone
<1>3. QED
  BY <1>1, <1>2 DEF OutsideInv

LEMMA OutsideInvariant == Spec => [](DomainInv /\ OutsideInv)
<1>1. Spec => []OutsideInv
  BY OutsideInit, OutsideStep, DomainInvariant, PTL DEF Spec
<1>2. QED
  BY <1>1, DomainInvariant, PTL

(* The rows agree with the registrar and with Cloudflare, however many     *)
(* calls work on the domain at once: what is called configured is          *)
(* delegated, what was bought is recorded, and a zone row is about a zone  *)
(* there is (service.ts:147-190, 247-267, 970-1045, 1116-1187).            *)
THEOREM RowsHold == Spec => []RowsMatchOutside
<1>1. OutsideInv => NsMeansDelegated /\ RowsAreReal
  BY DEF OutsideInv, ZoneStays, NsMeansDelegated
<1>2. OutsideInv => PurchaseIsRecorded
  BY DEF OutsideInv, PurchaseTracked, PurchaseIsRecorded, Quiescent
<1>3. QED
  BY <1>1, <1>2, OutsideInvariant, PTL DEF RowsMatchOutside

(* The owner of a registration that is not set up has a call that can set  *)
(* it up, but for the four dead ends, which need a lost answer, a killed   *)
(* process, a deletion or a stranger's zone: for any number of calls,      *)
(* failing in any order (service.ts:985-1045, 1072-1187).                  *)
THEOREM WayForwardHolds == Spec => []WayForward
<1>1. ASSUME DomainInv, OutsideInv, Registered, Quiescent
      PROVE  CanConfigure \/ CanRecover \/ CanMakeRoom \/ DeadEnd
  <2>1. zone.id # NoZone => zone.owner # NoOne
    BY <1>1 DEF DomainInv, SystemTypeOK
  <2>2. zone.id = cf \/ ZonesDisagree
    <3>1. CASE world.lossy \/ world.crashes \/ world.deletes
      BY <3>1 DEF ZonesDisagree
    <3>2. CASE ~ (world.lossy \/ world.crashes \/ world.deletes)
      <4>1. cf \in {NoZone, zone.id}
        BY <1>1, <3>2 DEF OutsideInv, CfTracked, Quiescent
      <4>2. zone.id # NoZone => cf = zone.id
        BY <1>1, <3>2 DEF OutsideInv, RowsAreReal, Quiescent
      <4>3. QED
        BY <4>1, <4>2
    <3>3. QED
      BY <3>1, <3>2
  <2>3. CASE reg.zone = NoZone
    <3>1. HasToken \/ TokenUntold
      BY <1>1, <2>3 DEF DomainInv, TokenKeptUntilZone, OutsideInv, TokenTracked, Quiescent,
                        HasToken, TokenUntold
    <3>2. CASE zone.id = NoZone
      BY <2>2, <3>1, <3>2 DEF CanRecover, DeadEnd
    <3>3. CASE zone.id # NoZone
      BY <2>1, <2>2, <3>1, <3>3 DEF CanMakeRoom, StrangersZone, DeadEnd
    <3>4. QED
      BY <3>2, <3>3
  <2>4. CASE reg.zone # NoZone /\ zone.id = reg.zone
    BY <2>2, <2>4 DEF CanConfigure, DeadEnd
  <2>5. CASE reg.zone # NoZone /\ zone.id # reg.zone
    BY <1>1, <2>5 DEF OutsideInv, ZoneStays, ZoneIsGone, DeadEnd
  <2>6. QED
    BY <2>3, <2>4, <2>5
<1>2. DomainInv /\ OutsideInv => WayForward
  BY <1>1 DEF WayForward
<1>3. QED
  BY <1>2, OutsideInvariant, PTL
=============================================================================
