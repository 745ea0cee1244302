------------------------------ MODULE Media_proofs ------------------------------
(***************************************************************************)
(* Proofs about Media, for any number of images, hunters, tokens and       *)
(* requests in flight, and any lifetimes.                                  *)
(***************************************************************************)
EXTENDS Media, FiniteSetTheorems, TLAPS

-------------------------------------------------------------------------------
(* Types.                                                                  *)

VaultUpload == [at : {"insert_asset"}, media : Media,
                asset : [owner : Hunters, guild : Guilds, mode : {"vault"}, ready : BOOLEAN]]

OnceUpload == [at : {"insert_asset", "insert_delivery"}, media : Media,
               asset : [owner : Hunters, guild : Guilds, mode : {"once"}, ready : BOOLEAN],
               recipient : Hunters, expires : Nat]

ProofUpload == [at : {"insert_proof"}, media : Media,
                asset : [owner : Hunters, guild : Guilds, mode : {"proof"}, ready : BOOLEAN]]

Opening == [at : {"open_write"}, media : Media, consumed : {FALSE}, time : Nat]

Fetching == [at : {"fetch_write"}, media : Media, token : Tokens \cup {Null},
             consumed : BOOLEAN, time : Nat]

ServingTask == [at : {"fetch_serve"}, media : Media]

Marking == [at : {"export_mark"}, todo : SUBSET Media]

Task == VaultUpload \cup OnceUpload \cup ProofUpload \cup Opening \cup Fetching
          \cup ServingTask \cup Marking \cup {Idle}

\* The rows that a handler is about to update are there.
HoldsRows(s) ==
  /\ task[s].at \in {"open_write", "fetch_write", "fetch_serve"} => Sent(task[s].media)
  /\ At(s, "export_mark") => \A m \in task[s].todo : Exists(m)

TypeInv ==
  /\ now \in Nat
  /\ guild \in [Hunters -> Guilds]
  /\ files \subseteq Media
  /\ assets \in [Media -> Asset \cup {NoRow}]
  /\ deliveries \in [Media -> Delivery \cup {NoRow}]
  /\ exports \subseteq Export
  /\ served \in [Media -> Nat]
  /\ seenBy \subseteq Hunters \X Guilds \X Media
  /\ contested \subseteq Media /\ abandoned \subseteq Media
  /\ task \in [Slots -> Task]
  /\ \A s \in Slots : HoldsRows(s)

\* Where a task is says what it holds.
LEMMA TaskKinds ==
  ASSUME NEW t \in Task
  PROVE  /\ t = Idle <=> t.at = "idle"
         /\ t.at = "insert_asset" =>
              /\ t \in VaultUpload \cup OnceUpload
              /\ t.asset.mode = "once" <=> t \in OnceUpload
              /\ t.asset.mode \in {"vault", "once"}
         /\ t.at = "insert_delivery" => t \in OnceUpload
         /\ t.at = "insert_proof" => t \in ProofUpload
         /\ t.at = "open_write" => t \in Opening
         /\ t.at = "fetch_write" => t \in Fetching
         /\ t.at = "fetch_serve" => t \in ServingTask
         /\ t.at = "export_mark" => t \in Marking
<1>1. t \in VaultUpload => t.at = "insert_asset" /\ t.asset.mode = "vault"
  BY DEF VaultUpload
<1>2. t \in OnceUpload => t.at \in {"insert_asset", "insert_delivery"} /\ t.asset.mode = "once"
  BY DEF OnceUpload
<1>3. t \in ProofUpload => t.at = "insert_proof"
  BY DEF ProofUpload
<1>4. t \in Opening => t.at = "open_write"
  BY DEF Opening
<1>5. t \in Fetching => t.at = "fetch_write"
  BY DEF Fetching
<1>6. t \in ServingTask => t.at = "fetch_serve"
  BY DEF ServingTask
<1>7. t \in Marking => t.at = "export_mark"
  BY DEF Marking
<1>8. t = Idle => t.at = "idle"
  BY DEF Idle
<1> QED BY <1>1, <1>2, <1>3, <1>4, <1>5, <1>6, <1>7, <1>8 DEF Task

\* What a task has in hand is an image, and its asset fits the table.
LEMMA TaskMedia ==
  ASSUME NEW t \in Task
  PROVE  /\ t.at \in {"insert_asset", "insert_delivery", "insert_proof", "open_write",
                      "fetch_write", "fetch_serve"}
              => t.media \in Media /\ "media" \in DOMAIN t
         /\ t.at \in {"insert_asset", "insert_delivery", "insert_proof"}
              => t.asset \in Asset /\ t.asset # NoRow
         /\ t.at = "export_mark" => t.todo \subseteq Media
  <1>1. t.at = "insert_asset" \/ t.at = "insert_delivery" =>
          t.media \in Media /\ "media" \in DOMAIN t /\ t.asset \in Asset
    BY TaskKinds DEF VaultUpload, OnceUpload, Asset
  <1>2. t.at = "insert_proof" => t.media \in Media /\ "media" \in DOMAIN t /\ t.asset \in Asset
    BY TaskKinds DEF ProofUpload, Asset
  <1>3. t.at \in {"open_write", "fetch_write", "fetch_serve"} =>
          t.media \in Media /\ "media" \in DOMAIN t
    BY TaskKinds DEF Opening, Fetching, ServingTask
  <1>4. t.at = "export_mark" => t.todo \subseteq Media
    BY TaskKinds DEF Marking
  <1> QED BY <1>1, <1>2, <1>3, <1>4, NoRowAssumption

\* The rows of an image
LEMMA RowTypes ==
  ASSUME TypeInv, NEW m \in Media
  PROVE  /\ Exists(m) => assets[m] \in Asset
         /\ Sent(m) => deliveries[m] \in Delivery
  BY DEF TypeInv, Exists, Sent

-------------------------------------------------------------------------------
(* One handler acts at a time.                                             *)

\* What a handler may do next
Acts(s) ==
  \/ \E h \in Hunters, m \in Media :
       \/ \E ready \in BOOLEAN : UploadVault(s, h, m, ready)
       \/ \E r \in Hunters, ttl \in OnceTtls : SendOnce(s, h, r, m, ttl)
       \/ UploadProof(s, h, m)
       \/ ReadImage(s, h, m)
  \/ InsertAsset(s) \/ InsertDelivery(s)
  \/ InsertProof(s) \/ ProofRefused(s)
  \/ \E m \in Media : BeginOpen(s, m) \/ BeginFetch(s, m) \/ ExportMark(s, m)
  \/ \E token \in Tokens : OpenWrite(s, token)
  \/ FetchWrite(s) \/ FetchServe(s)
  \/ \E h \in Hunters, chosen \in SUBSET Media : CreateExport(s, h, chosen)
  \/ Drop(s)

\* A hunter changes guild.
Move == \E h \in Movers, g \in Guilds : ChangeGuild(h, g)

\* A step is the clock's, a move or a handler's.
LEMMA NextActs == Next <=> Tick \/ Move \/ \E s \in Slots : Acts(s)
  BY DEF Next, Acts, Move

\* The others wait, and a handler that begins was idle.
LEMMA OthersWait ==
  ASSUME TypeInv, NEW s \in Slots, Acts(s)
  PROVE  \A r \in Slots \ {s} : task'[r] = task[r]
<1>1. \A t : task' = [task EXCEPT ![s] = t] => \A r \in Slots \ {s} : task'[r] = task[r]
  BY DEF TypeInv
<1>2. ASSUME NEW h \in Hunters, NEW m \in Media,
             \/ \E ready \in BOOLEAN : UploadVault(s, h, m, ready)
             \/ \E r \in Hunters, ttl \in OnceTtls : SendOnce(s, h, r, m, ttl)
             \/ UploadProof(s, h, m)
             \/ ReadImage(s, h, m)
      PROVE  task' = task \/ \E t : task' = [task EXCEPT ![s] = t]
  BY <1>2 DEF UploadVault, SendOnce, UploadProof, ReadImage, ReadAsset, ReadProof, Send, Begin, Once
<1>3. ASSUME \/ \E m \in Media : BeginOpen(s, m) \/ BeginFetch(s, m) \/ ExportMark(s, m)
             \/ \E h \in Hunters, chosen \in SUBSET Media : CreateExport(s, h, chosen)
      PROVE  \E t : task' = [task EXCEPT ![s] = t]
  BY <1>3 DEF BeginOpen, BeginFetch, ExportMark, CreateExport, Begin, Continue, Answer
<1>4. ASSUME \/ InsertAsset(s) \/ InsertDelivery(s) \/ InsertProof(s) \/ ProofRefused(s)
             \/ \E token \in Tokens : OpenWrite(s, token)
             \/ FetchWrite(s) \/ FetchServe(s) \/ Drop(s)
      PROVE  \E t : task' = [task EXCEPT ![s] = t]
  BY <1>4 DEF InsertAsset, InsertDelivery, InsertProof, ProofRefused, OpenWrite, FetchWrite,
     FetchServe, Drop, Continue, Answer, Abandon
<1> QED BY <1>1, <1>2, <1>3, <1>4 DEF Acts

\* Which statements write the assets, and which the deliveries
LEMMA WhoWrites ==
  ASSUME NEW s \in Slots, Acts(s)
  PROVE  /\ \/ InsertAsset(s) \/ InsertProof(s) \/ \E m \in Media : ExportMark(s, m)
            \/ UNCHANGED assets
         /\ \/ InsertDelivery(s) \/ FetchWrite(s) \/ \E token \in Tokens : OpenWrite(s, token)
            \/ UNCHANGED deliveries
<1>1. ASSUME NEW h \in Hunters, NEW m \in Media, NEW ready \in BOOLEAN, UploadVault(s, h, m, ready)
      PROVE  UNCHANGED <<assets, deliveries>>
  BY <1>1 DEF UploadVault
<1>2. ASSUME NEW h \in Hunters, NEW m \in Media, NEW r \in Hunters, NEW ttl \in OnceTtls,
             SendOnce(s, h, r, m, ttl)
      PROVE  UNCHANGED <<assets, deliveries>>
  BY <1>2 DEF SendOnce
<1>3. ASSUME NEW h \in Hunters, NEW m \in Media, UploadProof(s, h, m) \/ ReadImage(s, h, m)
      PROVE  UNCHANGED <<assets, deliveries>>
  BY <1>3 DEF UploadProof, ReadImage, ReadAsset, ReadProof, Send, rowVars
<1>4. ASSUME NEW m \in Media, BeginOpen(s, m) \/ BeginFetch(s, m)
      PROVE  UNCHANGED <<assets, deliveries>>
  BY <1>4 DEF BeginOpen, BeginFetch, rowVars
<1>5. ASSUME NEW h \in Hunters, NEW chosen \in SUBSET Media, CreateExport(s, h, chosen)
      PROVE  UNCHANGED <<assets, deliveries>>
  BY <1>5 DEF CreateExport
<1>6. ASSUME ProofRefused(s) \/ FetchServe(s) \/ Drop(s) PROVE UNCHANGED <<assets, deliveries>>
  BY <1>6 DEF ProofRefused, FetchServe, Drop, rowVars
<1>7. InsertAsset(s) \/ InsertProof(s) \/ (\E m \in Media : ExportMark(s, m)) => UNCHANGED deliveries
  BY DEF InsertAsset, InsertProof, ExportMark
<1>8. InsertDelivery(s) \/ FetchWrite(s) \/ (\E token \in Tokens : OpenWrite(s, token))
        => UNCHANGED assets
  BY DEF InsertDelivery, FetchWrite, OpenWrite
<1> QED BY <1>1, <1>2, <1>3, <1>4, <1>5, <1>6, <1>7, <1>8 DEF Acts

\* Rows stay, and a handler's rows with them.
LEMMA HoldsStep == TypeInv /\ [Next]_vars => \A s \in Slots : HoldsRows(s)'
<1> SUFFICES ASSUME TypeInv, [Next]_vars PROVE \A s \in Slots : HoldsRows(s)'
  OBVIOUS
<1>1. \A m \in Media : Exists(m) => Exists(m)'
  <2> SUFFICES ASSUME NEW m \in Media, Exists(m) PROVE Exists(m)'
    OBVIOUS
  <2>1. ASSUME NEW s \in Slots, InsertAsset(s) \/ InsertProof(s) PROVE Exists(m)'
    <3>1. task[s].asset # NoRow
      BY <2>1, TaskMedia DEF InsertAsset, InsertProof, At, TypeInv
    <3> QED BY <2>1, <3>1 DEF InsertAsset, InsertProof, Exists, TypeInv
  <2>2. ASSUME NEW s \in Slots, NEW x \in Media, ExportMark(s, x) PROVE Exists(m)'
    <3>1. [assets[x] EXCEPT !.ready = TRUE] \in Asset
      BY <2>2, RowTypes DEF ExportMark, TypeInv, HoldsRows, Asset
    <3>2. assets' = [assets EXCEPT ![x] = [assets[x] EXCEPT !.ready = TRUE]]
      BY <2>2 DEF ExportMark
    <3> QED BY <3>1, <3>2, NoRowAssumption DEF Exists, TypeInv
  <2>3. CASE UNCHANGED assets
    BY <2>3 DEF Exists
  <2> QED
    BY <2>1, <2>2, <2>3, NextActs, WhoWrites DEF vars, rowVars, Tick, Move, ChangeGuild
<1>2. \A m \in Media : Sent(m) => Sent(m)'
  <2> SUFFICES ASSUME NEW m \in Media, Sent(m) PROVE Sent(m)'
    OBVIOUS
  <2>1. ASSUME NEW s \in Slots, InsertDelivery(s) PROVE Sent(m)'
    <3>1. task[s] \in OnceUpload
      BY <2>1, TaskKinds DEF InsertDelivery, At, TypeInv
    <3>2. [sender |-> task[s].asset.owner, recipient |-> task[s].recipient, opened |-> FALSE,
           consumed |-> FALSE, expires |-> task[s].expires,
           token |-> Null, tokenExpires |-> 0] \in Delivery
      BY <3>1 DEF OnceUpload, Delivery
    <3> QED BY <2>1, <3>2, NoRowAssumption DEF InsertDelivery, Sent, TypeInv
  <2>2. ASSUME NEW s \in Slots, NEW token \in Tokens, OpenWrite(s, token) PROVE Sent(m)'
    <3>1. task[s] \in Opening /\ deliveries[task[s].media] \in Delivery
      BY <2>2, TaskKinds, TaskMedia, RowTypes DEF OpenWrite, At, TypeInv, HoldsRows
    <3>a. task[s].time \in Nat
      BY <3>1 DEF Opening
    <3>2. task[s].time + TokenTtl \in Nat
      BY <3>a, MediaAssumption
    <3>3. [deliveries[task[s].media] EXCEPT !.opened = TRUE, !.token = token,
             !.tokenExpires = task[s].time + TokenTtl] \in Delivery
      BY <3>1, <3>2 DEF Delivery
    <3>4. deliveries' = [deliveries EXCEPT ![task[s].media] =
            [deliveries[task[s].media] EXCEPT !.opened = TRUE, !.token = token,
               !.tokenExpires = task[s].time + TokenTtl]]
      BY <2>2 DEF OpenWrite
    <3> QED BY <3>3, <3>4, NoRowAssumption DEF Sent, TypeInv
  <2>3. ASSUME NEW s \in Slots, FetchWrite(s) PROVE Sent(m)'
    <3>1. deliveries[task[s].media] \in Delivery
      BY <2>3, TaskMedia, RowTypes DEF FetchWrite, At, TypeInv, HoldsRows
    <3>2. [deliveries[task[s].media] EXCEPT !.opened = TRUE, !.consumed = TRUE,
             !.token = Null, !.tokenExpires = 0] \in Delivery
      BY <3>1 DEF Delivery
    <3>3. deliveries' = [deliveries EXCEPT ![task[s].media] =
            [deliveries[task[s].media] EXCEPT !.opened = TRUE, !.consumed = TRUE,
               !.token = Null, !.tokenExpires = 0]]
      BY <2>3 DEF FetchWrite
    <3> QED BY <3>2, <3>3, NoRowAssumption DEF Sent, TypeInv
  <2>4. CASE UNCHANGED deliveries
    BY <2>4 DEF Sent
  <2> QED
    BY <2>1, <2>2, <2>3, <2>4, NextActs, WhoWrites DEF vars, rowVars, Tick, Move, ChangeGuild
<1>3. ASSUME NEW s \in Slots, task'[s] = task[s] PROVE HoldsRows(s)'
  <2>1. HoldsRows(s) /\ task[s] \in Task
    BY DEF TypeInv
  <2>2. /\ task[s].at \in {"open_write", "fetch_write", "fetch_serve"} => task[s].media \in Media
        /\ task[s].at = "export_mark" => task[s].todo \subseteq Media
    BY <2>1, TaskMedia
  <2> QED BY <1>1, <1>2, <1>3, <2>1, <2>2 DEF HoldsRows, At
<1>4. ASSUME NEW s \in Slots, Acts(s) PROVE HoldsRows(s)'
  <2>0. task \in [Slots -> Task] /\ HoldsRows(s)
    BY DEF TypeInv
  <2>1. ASSUME task'[s].at \in {"idle", "insert_asset", "insert_delivery", "insert_proof"}
        PROVE  HoldsRows(s)'
    BY <2>1 DEF HoldsRows, At
  <2>2. ASSUME NEW h \in Hunters, NEW m \in Media,
               \/ \E ready \in BOOLEAN : UploadVault(s, h, m, ready)
               \/ \E r \in Hunters, ttl \in OnceTtls : SendOnce(s, h, r, m, ttl)
               \/ UploadProof(s, h, m)
               \/ ReadImage(s, h, m)
        PROVE  task'[s].at \in {"idle", "insert_asset", "insert_delivery", "insert_proof"}
    <3>1. ASSUME NEW ready \in BOOLEAN, UploadVault(s, h, m, ready)
          PROVE  task'[s].at = "insert_asset"
      BY <2>0, <3>1 DEF UploadVault, Begin
    <3>2. ASSUME NEW r \in Hunters, NEW ttl \in OnceTtls, SendOnce(s, h, r, m, ttl)
          PROVE  task'[s].at = "insert_asset"
      BY <2>0, <3>2 DEF SendOnce, Begin
    <3>3. ASSUME UploadProof(s, h, m) PROVE task'[s].at = "insert_proof"
      BY <2>0, <3>3 DEF UploadProof, Begin
    <3>4. ASSUME ReadImage(s, h, m) PROVE task'[s].at = "idle"
      BY <2>0, <3>4 DEF ReadImage, ReadAsset, ReadProof, Send, Once, Idle
    <3> QED BY <2>2, <3>1, <3>2, <3>3, <3>4
  <2>3. ASSUME \/ InsertDelivery(s) \/ InsertProof(s) \/ ProofRefused(s) \/ FetchServe(s) \/ Drop(s)
               \/ \E token \in Tokens : OpenWrite(s, token)
        PROVE  task'[s].at \in {"idle", "insert_asset", "insert_delivery", "insert_proof"}
    <3>1. Answer(s)
      BY <2>3 DEF InsertDelivery, InsertProof, ProofRefused, FetchServe, Drop, OpenWrite,
         Abandon
    <3>2. task'[s] = Idle
      BY <2>0, <3>1 DEF Answer, Continue
    <3> QED BY <3>2 DEF Idle
  <2>4. ASSUME InsertAsset(s)
        PROVE  task'[s].at \in {"idle", "insert_asset", "insert_delivery", "insert_proof"}
    <3>1. CASE task[s].asset.mode = "once"
      <4>1. task'[s] = [task[s] EXCEPT !.at = "insert_delivery"]
        BY <2>0, <2>4, <3>1 DEF InsertAsset, Continue
      <4>2. task[s] \in OnceUpload
        BY <2>0, <2>4, <3>1, TaskKinds DEF InsertAsset, At
      <4> QED BY <4>1, <4>2 DEF OnceUpload
    <3>2. CASE task[s].asset.mode # "once"
      BY <2>0, <2>4, <3>2 DEF InsertAsset, Answer, Continue, Idle
    <3> QED BY <3>1, <3>2
  <2>5. ASSUME NEW m \in Media, BeginOpen(s, m) \/ BeginFetch(s, m) PROVE HoldsRows(s)'
    <3>1. task'[s].at \in {"open_write", "fetch_write"} /\ task'[s].media = m /\ Sent(m)
      BY <2>0, <2>5 DEF BeginOpen, BeginFetch, Begin
    <3> QED BY <1>2, <3>1 DEF HoldsRows, At
  <2>6. ASSUME FetchWrite(s) PROVE HoldsRows(s)'
    <3>1. task'[s].at = "fetch_serve" /\ task'[s].media = task[s].media
      BY <2>0, <2>6 DEF FetchWrite, Continue
    <3>2. Sent(task[s].media) /\ task[s].media \in Media
      BY <2>0, <2>6, TaskMedia DEF FetchWrite, At, HoldsRows
    <3> QED BY <1>2, <3>1, <3>2 DEF HoldsRows, At
  <2>7. ASSUME NEW m \in Media, ExportMark(s, m) PROVE HoldsRows(s)'
    <3>0. task[s] \in Marking /\ \A x \in task[s].todo : Exists(x)
      BY <2>0, <2>7, TaskKinds DEF ExportMark, At, HoldsRows
    <3>1. CASE task[s].todo \ {m} = {}
      <4>1. task'[s].at = "idle"
        BY <2>0, <2>7, <3>1 DEF ExportMark, Answer, Continue, Idle
      <4> QED BY <2>1, <4>1
    <3>2. CASE task[s].todo \ {m} # {}
      <4>1. task'[s] = [task[s] EXCEPT !.todo = task[s].todo \ {m}]
        BY <2>0, <2>7, <3>2 DEF ExportMark, Continue
      <4>2. task'[s].at = "export_mark" /\ task'[s].todo \subseteq task[s].todo
            /\ task[s].todo \subseteq Media
        BY <3>0, <4>1 DEF Marking
      <4> QED BY <1>1, <3>0, <4>2 DEF HoldsRows, At
    <3> QED BY <3>1, <3>2
  <2>8. ASSUME NEW h \in Hunters, NEW chosen \in SUBSET Media, CreateExport(s, h, chosen)
        PROVE  HoldsRows(s)'
    <3>1. task'[s].at = "export_mark" /\ task'[s].todo = chosen /\ \A x \in chosen : Exists(x)
      BY <2>0, <2>8 DEF CreateExport, Begin, VaultOf, InVault
    <3> QED BY <1>1, <3>1 DEF HoldsRows, At
  <2> QED BY <1>4, <2>1, <2>2, <2>3, <2>4, <2>5, <2>6, <2>7, <2>8 DEF Acts
<1>5. CASE UNCHANGED task
  BY <1>3, <1>5
<1> QED BY <1>3, <1>4, <1>5, OthersWait, NextActs DEF vars, handlerVars, Tick, Move, ChangeGuild

\* Every step keeps the types.
LEMMA TypeStep == TypeInv /\ [Next]_vars => TypeInv'
<1> SUFFICES ASSUME TypeInv, [Next]_vars PROVE TypeInv'
  OBVIOUS
<1>h. \A s \in Slots : HoldsRows(s)'
  BY HoldsStep
<1> USE DEF TypeInv
<1>0. ASSUME NEW s \in Slots, NEW t \in Task, Begin(s, t) \/ Continue(s, t)
      PROVE  task' \in [Slots -> Task]
  BY <1>0 DEF Begin, Continue
<1>i. Idle \in Task
  BY DEF Task
<1>a. ASSUME NEW s \in Slots, Answer(s) PROVE task' \in [Slots -> Task]
  BY <1>0, <1>i, <1>a DEF Answer
<1>1. ASSUME NEW s \in Slots, NEW h \in Hunters, NEW m \in Media, NEW ready \in BOOLEAN,
             UploadVault(s, h, m, ready)
      PROVE  TypeInv'
  <2>1. [at |-> "insert_asset", media |-> m,
         asset |-> [owner |-> h, guild |-> guild[h], mode |-> "vault", ready |-> ready]] \in Task
    BY DEF Task, VaultUpload
  <2>2. task' \in [Slots -> Task]
    BY <1>0, <1>1, <2>1 DEF UploadVault
  <2> QED BY <1>h, <1>1, <2>2 DEF UploadVault, PersistMediaFile, history
<1>2. ASSUME NEW s \in Slots, NEW h \in Hunters, NEW m \in Media, NEW r \in Hunters,
             NEW ttl \in OnceTtls, SendOnce(s, h, r, m, ttl)
      PROVE  TypeInv'
  <2>1. now + ttl \in Nat
    BY MediaAssumption
  <2>2. [at |-> "insert_asset", media |-> m,
         asset |-> [owner |-> h, guild |-> guild[h], mode |-> "once", ready |-> FALSE],
         recipient |-> r, expires |-> now + ttl] \in Task
    BY <2>1 DEF Task, OnceUpload
  <2>3. task' \in [Slots -> Task]
    BY <1>0, <1>2, <2>2 DEF SendOnce
  <2> QED BY <1>h, <1>2, <2>3 DEF SendOnce, PersistMediaFile, history
<1>3. ASSUME NEW s \in Slots, NEW h \in Hunters, NEW m \in Media, UploadProof(s, h, m)
      PROVE  TypeInv'
  <2>1. [at |-> "insert_proof", media |-> m,
         asset |-> [owner |-> h, guild |-> guild[h], mode |-> "proof", ready |-> FALSE]] \in Task
    BY DEF Task, ProofUpload
  <2>2. task' \in [Slots -> Task]
    BY <1>0, <1>3, <2>1 DEF UploadProof
  <2> QED BY <1>h, <1>3, <2>2 DEF UploadProof, PersistMediaFile, history
<1>4. ASSUME NEW s \in Slots, NEW h \in Hunters, NEW m \in Media, ReadImage(s, h, m)
      PROVE  TypeInv'
  BY <1>h, <1>4 DEF ReadImage, ReadAsset, ReadProof, Send, rowVars, Once
<1>5. ASSUME NEW s \in Slots, InsertAsset(s) PROVE TypeInv'
  <2>1. task[s] \in Task /\ task[s].at = "insert_asset"
    BY <1>5 DEF InsertAsset, At
  <2>2. task[s].media \in Media /\ task[s].asset \in Asset
    BY <2>1, TaskMedia
  <2>3. task' \in [Slots -> Task]
    <3>1. CASE task[s].asset.mode = "once"
      <4>1. [task[s] EXCEPT !.at = "insert_delivery"] \in OnceUpload
        BY <2>1, <3>1, TaskKinds DEF OnceUpload
      <4> QED BY <1>0, <1>5, <3>1, <4>1 DEF InsertAsset, Task
    <3>2. CASE task[s].asset.mode # "once"
      BY <1>5, <1>a, <3>2 DEF InsertAsset
    <3> QED BY <3>1, <3>2
  <2> QED BY <1>h, <1>5, <2>2, <2>3 DEF InsertAsset, history
<1>6. ASSUME NEW s \in Slots, InsertDelivery(s) PROVE TypeInv'
  <2>1. task[s] \in OnceUpload
    BY <1>6, TaskKinds DEF InsertDelivery, At
  <2>2. [sender |-> task[s].asset.owner, recipient |-> task[s].recipient, opened |-> FALSE,
         consumed |-> FALSE, expires |-> task[s].expires,
         token |-> Null, tokenExpires |-> 0] \in Delivery
    BY <2>1 DEF OnceUpload, Delivery
  <2>3. task' \in [Slots -> Task]
    BY <1>6, <1>a DEF InsertDelivery
  <2> QED BY <1>h, <1>6, <2>1, <2>2, <2>3 DEF InsertDelivery, history, OnceUpload
<1>7. ASSUME NEW s \in Slots, InsertProof(s) PROVE TypeInv'
  <2>1. task[s].media \in Media /\ task[s].asset \in Asset
    BY <1>7, TaskMedia DEF InsertProof, At
  <2>2. task' \in [Slots -> Task]
    BY <1>7, <1>a DEF InsertProof
  <2> QED BY <1>h, <1>7, <2>1, <2>2 DEF InsertProof, history
<1>8. ASSUME NEW s \in Slots, ProofRefused(s) PROVE TypeInv'
  <2>1. task' \in [Slots -> Task]
    BY <1>8, <1>a DEF ProofRefused
  <2> QED BY <1>h, <1>8, <2>1 DEF ProofRefused, history
<1>9. ASSUME NEW s \in Slots, NEW m \in Media, BeginOpen(s, m) PROVE TypeInv'
  <2>1. [at |-> "open_write", media |-> m, consumed |-> FALSE, time |-> now] \in Task
    BY DEF Task, Opening
  <2>2. task' \in [Slots -> Task]
    BY <1>0, <1>9, <2>1 DEF BeginOpen
  <2> QED BY <1>h, <1>9, <2>2 DEF BeginOpen, rowVars, history
<1>10. ASSUME NEW s \in Slots, NEW m \in Media, BeginFetch(s, m) PROVE TypeInv'
  <2>1. deliveries[m] \in Delivery
    BY <1>10, RowTypes DEF BeginFetch
  <2>2. [at |-> "fetch_write", media |-> m, token |-> deliveries[m].token,
         consumed |-> deliveries[m].consumed, time |-> now] \in Task
    BY <2>1 DEF Task, Fetching, Delivery
  <2>3. task' \in [Slots -> Task]
    BY <1>0, <1>10, <2>2 DEF BeginFetch
  <2> QED BY <1>h, <1>10, <2>3 DEF BeginFetch, rowVars, history
<1>11. ASSUME NEW s \in Slots, NEW m \in Media, ExportMark(s, m) PROVE TypeInv'
  <2>1. task[s] \in Marking /\ m \in task[s].todo
    BY <1>11, TaskKinds DEF ExportMark, At
  <2>2. task' \in [Slots -> Task]
    <3>1. CASE task[s].todo \ {m} = {}
      BY <1>11, <1>a, <3>1 DEF ExportMark
    <3>2. CASE task[s].todo \ {m} # {}
      <4>1. [task[s] EXCEPT !.todo = task[s].todo \ {m}] \in Task
        BY <2>1 DEF Marking, Task
      <4> QED BY <1>0, <1>11, <3>2, <4>1 DEF ExportMark
    <3> QED BY <3>1, <3>2
  <2>3. [assets[m] EXCEPT !.ready = TRUE] \in Asset
    BY <1>11, RowTypes DEF ExportMark, HoldsRows, Asset
  <2>4. assets' = [assets EXCEPT ![m] = [assets[m] EXCEPT !.ready = TRUE]]
    BY <1>11 DEF ExportMark
  <2> QED BY <1>h, <1>11, <2>2, <2>3, <2>4 DEF ExportMark, history
<1>12. ASSUME NEW s \in Slots, NEW token \in Tokens, OpenWrite(s, token) PROVE TypeInv'
  <2>1. task[s] \in Opening /\ deliveries[task[s].media] \in Delivery
    BY <1>12, TaskKinds, TaskMedia, RowTypes DEF OpenWrite, At, HoldsRows
  <2>2. task[s].time + TokenTtl \in Nat /\ task[s].media \in Media
    BY <2>1, MediaAssumption DEF Opening
  <2>3. [deliveries[task[s].media] EXCEPT !.opened = TRUE, !.token = token,
           !.tokenExpires = task[s].time + TokenTtl] \in Delivery
    BY <2>1, <2>2 DEF Delivery
  <2>4. deliveries' = [deliveries EXCEPT ![task[s].media] =
          [deliveries[task[s].media] EXCEPT !.opened = TRUE, !.token = token,
             !.tokenExpires = task[s].time + TokenTtl]]
    BY <1>12 DEF OpenWrite
  <2>5. deliveries' \in [Media -> Delivery \cup {NoRow}]
    BY <2>3, <2>4
  <2>6. task' \in [Slots -> Task] /\ contested' \subseteq Media
    BY <1>12, <1>a, <2>2 DEF OpenWrite, Stale
  <2> QED BY <1>h, <1>12, <2>5, <2>6 DEF OpenWrite
<1>13. ASSUME NEW s \in Slots, FetchWrite(s) PROVE TypeInv'
  <2>1. task[s].media \in Media /\ deliveries[task[s].media] \in Delivery
    BY <1>13, TaskMedia, RowTypes DEF FetchWrite, At, HoldsRows
  <2>2. [deliveries[task[s].media] EXCEPT !.opened = TRUE, !.consumed = TRUE,
           !.token = Null, !.tokenExpires = 0] \in Delivery
    BY <2>1 DEF Delivery
  <2>3. deliveries' = [deliveries EXCEPT ![task[s].media] =
          [deliveries[task[s].media] EXCEPT !.opened = TRUE, !.consumed = TRUE,
             !.token = Null, !.tokenExpires = 0]]
    BY <1>13 DEF FetchWrite
  <2>4. deliveries' \in [Media -> Delivery \cup {NoRow}]
    BY <2>2, <2>3
  <2>5. [at |-> "fetch_serve", media |-> task[s].media] \in Task
    BY <2>1 DEF Task, ServingTask
  <2>6. task' \in [Slots -> Task] /\ contested' \subseteq Media
    BY <1>0, <1>13, <2>1, <2>5 DEF FetchWrite, Stale
  <2> QED BY <1>h, <1>13, <2>4, <2>6 DEF FetchWrite
<1>14. ASSUME NEW s \in Slots, FetchServe(s) PROVE TypeInv'
  <2>1. task[s].media \in Media /\ deliveries[task[s].media] \in Delivery
    BY <1>14, TaskMedia, RowTypes DEF FetchServe, At, HoldsRows
  <2>2. deliveries[task[s].media].recipient \in Hunters
    BY <2>1 DEF Delivery
  <2>3. task' \in [Slots -> Task]
    BY <1>14, <1>a DEF FetchServe
  <2> QED BY <1>h, <1>14, <2>1, <2>2, <2>3 DEF FetchServe, rowVars
<1>15. ASSUME NEW s \in Slots, NEW h \in Hunters, NEW chosen \in SUBSET Media,
              CreateExport(s, h, chosen)
       PROVE  TypeInv'
  <2>1. [at |-> "export_mark", todo |-> chosen] \in Task
    BY DEF Task, Marking
  <2>2. task' \in [Slots -> Task]
    BY <1>0, <1>15, <2>1 DEF CreateExport
  <2> QED BY <1>h, <1>15, <2>2 DEF CreateExport, history, Export
<1>16. ASSUME NEW s \in Slots, Drop(s) PROVE TypeInv'
  <2>1. task' \in [Slots -> Task]
    BY <1>16, <1>a DEF Drop, Abandon
  <2>2. Unfinished(s) \subseteq Media
    BY TaskMedia DEF Unfinished, At
  <2> QED BY <1>h, <1>16, <2>1, <2>2 DEF Drop, rowVars
<1>17. CASE Tick \/ Move
  BY <1>h, <1>17, MediaAssumption DEF Tick, Move, ChangeGuild, rowVars, history, handlerVars
<1>18. CASE UNCHANGED vars
  BY <1>h, <1>18 DEF vars, rowVars, history, handlerVars
<1> QED
  BY <1>1, <1>2, <1>3, <1>4, <1>5, <1>6, <1>7, <1>8, <1>9, <1>10, <1>11, <1>12, <1>13, <1>14,
     <1>15, <1>16, <1>17, <1>18 DEF Next, Move

\* The first state has the types.
LEMMA TypeInit == Init => TypeInv
  BY MediaAssumption DEF Init, HandlersInit, Idle, Task, TypeInv, HoldsRows, At

-------------------------------------------------------------------------------
(* Uploads: the file is there before its rows, and one handler at a time   *)
(* writes the rows of an image.                                            *)

Uploading(s) == task[s].at \in {"insert_asset", "insert_delivery", "insert_proof"}

\* What an upload, and the marking of an export, may rely on
UploadTask(s) ==
  LET t == task[s] IN
  /\ Uploading(s) => t.media \in files /\ ~Sent(t.media)
  /\ At(s, "insert_asset") \/ At(s, "insert_proof") => ~Exists(t.media)
  /\ At(s, "insert_delivery") =>
       Exists(t.media) /\ assets[t.media].mode = "once" /\ assets[t.media].owner = t.asset.owner
  /\ t \in OnceUpload => <<t.asset.owner, t.recipient>> \in Friend
  /\ At(s, "export_mark") => \A m \in t.todo : assets[m].mode = "vault"

\* What the rows of an image say of each other
Rows(m) ==
  /\ Exists(m) => m \in files
  /\ Sent(m) => /\ Exists(m) /\ assets[m].mode = "once"
                /\ deliveries[m].sender = assets[m].owner
                /\ <<deliveries[m].sender, deliveries[m].recipient>> \in Friend

UploadInv ==
  /\ \A s \in Slots : UploadTask(s)
  /\ \A r, s \in Slots : r # s /\ Uploading(r) /\ Uploading(s) => task[r].media # task[s].media
  /\ \A m \in Media : Rows(m)

\* A row is inserted once, by the handler that has its image in hand, and only a refused
\* proof loses its file.
LEMMA NewRows ==
  ASSUME TypeInv, UploadInv, [Next]_vars, NEW m \in Media
  PROVE  /\ assets'[m] # assets[m] =>
              \/ /\ Exists(m) /\ assets[m].mode = "vault"
                 /\ assets'[m] = [assets[m] EXCEPT !.ready = TRUE]
              \/ \E s \in Slots : /\ InsertAsset(s) \/ InsertProof(s)
                                  /\ m = task[s].media /\ assets'[m] = task[s].asset
         /\ ~Sent(m) /\ deliveries'[m] # deliveries[m] =>
              \E s \in Slots : InsertDelivery(s) /\ m = task[s].media
         /\ m \in files \ files' => \E s \in Slots : ProofRefused(s) /\ m = task[s].media
<1>1. assets'[m] # assets[m] =>
        \/ /\ Exists(m) /\ assets[m].mode = "vault"
           /\ assets'[m] = [assets[m] EXCEPT !.ready = TRUE]
        \/ \E s \in Slots : /\ InsertAsset(s) \/ InsertProof(s)
                            /\ m = task[s].media /\ assets'[m] = task[s].asset
  <2> SUFFICES ASSUME assets'[m] # assets[m]
               PROVE  \/ /\ Exists(m) /\ assets[m].mode = "vault"
                         /\ assets'[m] = [assets[m] EXCEPT !.ready = TRUE]
                      \/ \E s \in Slots : /\ InsertAsset(s) \/ InsertProof(s)
                                          /\ m = task[s].media /\ assets'[m] = task[s].asset
    OBVIOUS
  <2>1. ASSUME NEW s \in Slots, InsertAsset(s) \/ InsertProof(s)
        PROVE  m = task[s].media /\ assets'[m] = task[s].asset
    BY <2>1 DEF InsertAsset, InsertProof, TypeInv
  <2>2. ASSUME NEW s \in Slots, NEW x \in Media, ExportMark(s, x)
        PROVE  /\ Exists(m) /\ assets[m].mode = "vault"
               /\ assets'[m] = [assets[m] EXCEPT !.ready = TRUE]
    <3>1. assets' = [assets EXCEPT ![x] = [assets[x] EXCEPT !.ready = TRUE]]
          /\ x \in task[s].todo /\ At(s, "export_mark")
      BY <2>2 DEF ExportMark
    <3>2. m = x /\ assets'[m] = [assets[m] EXCEPT !.ready = TRUE]
      BY <3>1 DEF TypeInv
    <3> QED BY <3>1, <3>2 DEF TypeInv, HoldsRows, UploadInv, UploadTask
  <2> QED BY <2>1, <2>2, NextActs, WhoWrites DEF vars, rowVars, Tick, Move, ChangeGuild
<1>2. ~Sent(m) /\ deliveries'[m] # deliveries[m] =>
        \E s \in Slots : InsertDelivery(s) /\ m = task[s].media
  <2> SUFFICES ASSUME ~Sent(m), deliveries'[m] # deliveries[m]
               PROVE  \E s \in Slots : InsertDelivery(s) /\ m = task[s].media
    OBVIOUS
  <2>1. ASSUME NEW s \in Slots, InsertDelivery(s) PROVE m = task[s].media
    BY <2>1 DEF InsertDelivery, TypeInv
  <2>2. ASSUME NEW s \in Slots, FetchWrite(s) \/ \E token \in Tokens : OpenWrite(s, token)
        PROVE  FALSE
    <3>1. task[s].at \in {"open_write", "fetch_write"}
      BY <2>2 DEF FetchWrite, OpenWrite, At
    <3>2. Sent(task[s].media)
      BY <3>1 DEF TypeInv, HoldsRows
    <3>3. deliveries'[m] = deliveries[m] \/ m = task[s].media
      BY <2>2 DEF FetchWrite, OpenWrite, TypeInv
    <3> QED BY <3>2, <3>3
  <2> QED BY <2>1, <2>2, NextActs, WhoWrites DEF vars, rowVars, Tick, Move, ChangeGuild
<1>3. m \in files \ files' => \E s \in Slots : ProofRefused(s) /\ m = task[s].media
  <2>1. ASSUME NEW s \in Slots, ProofRefused(s), m \in files \ files' PROVE m = task[s].media
    BY <2>1 DEF ProofRefused
  <2>2. ASSUME NEW s \in Slots, Acts(s), ~ProofRefused(s) PROVE files \subseteq files'
    BY <2>2 DEF Acts, UploadVault, SendOnce, UploadProof, PersistMediaFile, ReadImage,
       ReadAsset, ReadProof, Send, InsertAsset,
       InsertDelivery, InsertProof, BeginOpen, BeginFetch, ExportMark, OpenWrite, FetchWrite,
       FetchServe, CreateExport, Drop, rowVars
  <2> QED BY <2>1, <2>2, NextActs DEF vars, rowVars, Tick, Move, ChangeGuild
<1> QED BY <1>1, <1>2, <1>3

\* Owner, guild and mode of an asset stay, and what is ready stays ready; sender, recipient and
\* expiry of a delivery stay, and what is consumed stays consumed.
LEMMA RowsKeep ==
  ASSUME TypeInv, UploadInv, [Next]_vars, NEW m \in Media
  PROVE  /\ Exists(m) => /\ Exists(m)'
                         /\ assets'[m].owner = assets[m].owner
                         /\ assets'[m].guild = assets[m].guild
                         /\ assets'[m].mode = assets[m].mode
                         /\ assets[m].ready => assets'[m].ready
         /\ Sent(m) => /\ Sent(m)'
                       /\ deliveries'[m].sender = deliveries[m].sender
                       /\ deliveries'[m].recipient = deliveries[m].recipient
                       /\ deliveries'[m].expires = deliveries[m].expires
                       /\ deliveries[m].consumed => deliveries'[m].consumed
<1>1. ASSUME Exists(m)
      PROVE  /\ Exists(m)'
             /\ assets'[m].owner = assets[m].owner
             /\ assets'[m].guild = assets[m].guild
             /\ assets'[m].mode = assets[m].mode
             /\ assets[m].ready => assets'[m].ready
  <2>1. assets[m] \in Asset
    BY <1>1, RowTypes
  <2>2. ASSUME NEW s \in Slots, InsertAsset(s) \/ InsertProof(s), m = task[s].media PROVE FALSE
    BY <1>1, <2>2 DEF InsertAsset, InsertProof, UploadInv, UploadTask
  <2>3. assets'[m] = assets[m] \/ assets'[m] = [assets[m] EXCEPT !.ready = TRUE]
    BY <2>2, NewRows
  <2>4. CASE assets'[m] = assets[m]
    BY <1>1, <2>4 DEF Exists
  <2>5. CASE assets'[m] = [assets[m] EXCEPT !.ready = TRUE]
    <3>1. assets'[m] \in Asset
      BY <2>1, <2>5 DEF Asset
    <3>2. /\ assets'[m].owner = assets[m].owner /\ assets'[m].guild = assets[m].guild
          /\ assets'[m].mode = assets[m].mode /\ assets'[m].ready
      BY <2>1, <2>5 DEF Asset
    <3> QED BY <3>1, <3>2, NoRowAssumption DEF Exists
  <2> QED BY <2>3, <2>4, <2>5
<1>2. ASSUME Sent(m)
      PROVE  /\ Sent(m)'
             /\ deliveries'[m].sender = deliveries[m].sender
             /\ deliveries'[m].recipient = deliveries[m].recipient
             /\ deliveries'[m].expires = deliveries[m].expires
             /\ deliveries[m].consumed => deliveries'[m].consumed
  <2>1. deliveries[m] \in Delivery
    BY <1>2, RowTypes
  <2>2. ASSUME NEW s \in Slots, InsertDelivery(s) PROVE deliveries'[m] = deliveries[m]
    <3>1. m # task[s].media
      BY <1>2, <2>2 DEF InsertDelivery, At, Uploading, UploadInv, UploadTask
    <3> QED BY <2>2, <3>1 DEF InsertDelivery, TypeInv
  <2>3. ASSUME NEW s \in Slots, FetchWrite(s), m = task[s].media
        PROVE  /\ deliveries'[m] \in Delivery
               /\ deliveries'[m].sender = deliveries[m].sender
               /\ deliveries'[m].recipient = deliveries[m].recipient
               /\ deliveries'[m].expires = deliveries[m].expires
               /\ deliveries'[m].consumed
    <3>1. deliveries' = [deliveries EXCEPT ![m] =
            [deliveries[m] EXCEPT !.opened = TRUE, !.consumed = TRUE,
               !.token = Null, !.tokenExpires = 0]]
      BY <2>3 DEF FetchWrite
    <3>2. deliveries'[m] = [deliveries[m] EXCEPT !.opened = TRUE, !.consumed = TRUE,
               !.token = Null, !.tokenExpires = 0]
      BY <3>1 DEF TypeInv
    <3>a. [deliveries[m] EXCEPT !.opened = TRUE, !.consumed = TRUE,
               !.token = Null, !.tokenExpires = 0] \in Delivery
      BY <2>1 DEF Delivery
    <3>3. deliveries'[m] \in Delivery
      BY <3>2, <3>a
    <3>4. deliveries'[m].sender = deliveries[m].sender
          /\ deliveries'[m].recipient = deliveries[m].recipient
      BY <2>1, <3>2 DEF Delivery
    <3>5. deliveries'[m].expires = deliveries[m].expires /\ deliveries'[m].consumed
      BY <2>1, <3>2 DEF Delivery
    <3> QED BY <3>3, <3>4, <3>5
  <2>4. ASSUME NEW s \in Slots, NEW token \in Tokens, OpenWrite(s, token), m = task[s].media
        PROVE  /\ deliveries'[m] \in Delivery
               /\ deliveries'[m].sender = deliveries[m].sender
               /\ deliveries'[m].recipient = deliveries[m].recipient
               /\ deliveries'[m].expires = deliveries[m].expires
               /\ deliveries'[m].consumed = deliveries[m].consumed
    <3>a. task[s] \in Opening
      BY <2>4, TaskKinds DEF OpenWrite, At, TypeInv
    <3>b. task[s].time \in Nat
      BY <3>a DEF Opening
    <3>c. PICK until \in Nat : until = task[s].time + TokenTtl
      BY <3>b, MediaAssumption
    <3>1. deliveries' = [deliveries EXCEPT ![m] =
            [deliveries[m] EXCEPT !.opened = TRUE, !.token = token, !.tokenExpires = until]]
      BY <2>4, <3>c DEF OpenWrite
    <3>2. deliveries'[m] = [deliveries[m] EXCEPT !.opened = TRUE, !.token = token,
               !.tokenExpires = until]
      BY <3>1 DEF TypeInv
    <3>3. deliveries'[m] \in Delivery
      BY <2>1, <3>2 DEF Delivery
    <3> QED BY <2>1, <3>2, <3>3 DEF Delivery
  <2>5. ASSUME NEW s \in Slots, FetchWrite(s) \/ (\E token \in Tokens : OpenWrite(s, token)),
               m # task[s].media
        PROVE  deliveries'[m] = deliveries[m]
    BY <2>5 DEF FetchWrite, OpenWrite, TypeInv
  <2>6. CASE deliveries'[m] = deliveries[m]
    BY <1>2, <2>6 DEF Sent
  <2>7. deliveries'[m] \in Delivery => Sent(m)'
    BY NoRowAssumption DEF Sent
  <2> QED BY <2>2, <2>3, <2>4, <2>5, <2>6, <2>7, NextActs, WhoWrites DEF vars, rowVars, Tick,
     Move, ChangeGuild
<1> QED BY <1>1, <1>2

\* How a handler comes to hold an image that it uploads: it begins with a new one, or it
\* has inserted the asset and goes on to the delivery.
LEMMA HowUploading ==
  ASSUME TypeInv, NEW s \in Slots, Acts(s), Uploading(s)'
  PROVE  \/ \E m \in Media :
              /\ Fresh(m) /\ task'[s].media = m /\ files' = files \cup {m}
              /\ task'[s].at \in {"insert_asset", "insert_proof"}
              /\ UNCHANGED <<assets, deliveries>>
              /\ task'[s] \in OnceUpload => <<task'[s].asset.owner, task'[s].recipient>> \in Friend
         \/ /\ InsertAsset(s) /\ task[s] \in OnceUpload
            /\ task'[s] = [task[s] EXCEPT !.at = "insert_delivery"]
<1>0. task \in [Slots -> Task] /\ task[s] \in Task
  BY DEF TypeInv
<1>1. ASSUME NEW h \in Hunters, NEW m \in Media, NEW ready \in BOOLEAN, UploadVault(s, h, m, ready)
      PROVE  /\ Fresh(m) /\ task'[s].media = m /\ files' = files \cup {m}
             /\ task'[s].at = "insert_asset" /\ task'[s] \notin OnceUpload
             /\ UNCHANGED <<assets, deliveries>>
  <2>1. task'[s] = [at |-> "insert_asset", media |-> m,
                    asset |-> [owner |-> h, guild |-> guild[h], mode |-> "vault", ready |-> ready]]
    BY <1>0, <1>1 DEF UploadVault, Begin
  <2> QED BY <1>1, <2>1 DEF UploadVault, PersistMediaFile, OnceUpload
<1>2. ASSUME NEW h \in Hunters, NEW m \in Media, NEW r \in Hunters, NEW ttl \in OnceTtls,
             SendOnce(s, h, r, m, ttl)
      PROVE  /\ Fresh(m) /\ task'[s].media = m /\ files' = files \cup {m}
             /\ task'[s].at = "insert_asset"
             /\ UNCHANGED <<assets, deliveries>>
             /\ <<task'[s].asset.owner, task'[s].recipient>> \in Friend
  <2>1. task'[s] = [at |-> "insert_asset", media |-> m,
                    asset |-> [owner |-> h, guild |-> guild[h], mode |-> "once", ready |-> FALSE],
                    recipient |-> r, expires |-> now + ttl]
    BY <1>0, <1>2 DEF SendOnce, Begin
  <2> QED BY <1>2, <2>1 DEF SendOnce, PersistMediaFile
<1>3. ASSUME NEW h \in Hunters, NEW m \in Media, UploadProof(s, h, m)
      PROVE  /\ Fresh(m) /\ task'[s].media = m /\ files' = files \cup {m}
             /\ task'[s].at = "insert_proof" /\ task'[s] \notin OnceUpload
             /\ UNCHANGED <<assets, deliveries>>
  <2>1. task'[s] = [at |-> "insert_proof", media |-> m,
                    asset |-> [owner |-> h, guild |-> guild[h], mode |-> "proof", ready |-> FALSE]]
    BY <1>0, <1>3 DEF UploadProof, Begin
  <2> QED BY <1>3, <2>1 DEF UploadProof, PersistMediaFile, OnceUpload
<1>4. ASSUME InsertAsset(s)
      PROVE  /\ task[s] \in OnceUpload
             /\ task'[s] = [task[s] EXCEPT !.at = "insert_delivery"]
  <2>1. CASE task[s].asset.mode = "once"
    BY <1>0, <1>4, <2>1, TaskKinds DEF InsertAsset, At, Continue
  <2>2. CASE task[s].asset.mode # "once"
    <3>1. task'[s] = Idle
      BY <1>0, <1>4, <2>2 DEF InsertAsset, Answer, Continue
    <3> QED BY <3>1 DEF Uploading, Idle
  <2> QED BY <2>1, <2>2
<1>5. ASSUME task'[s] = Idle PROVE FALSE
  BY <1>5 DEF Uploading, Idle
<1>6. ASSUME \/ InsertDelivery(s) \/ InsertProof(s) \/ ProofRefused(s) \/ FetchServe(s) \/ Drop(s)
             \/ \E token \in Tokens : OpenWrite(s, token)
             \/ \E h \in Hunters, m \in Media : ReadImage(s, h, m)
      PROVE  FALSE
  <2>1. Answer(s) \/ Once(s)
    BY <1>6 DEF InsertDelivery, InsertProof, ProofRefused, FetchServe, Drop, OpenWrite, Abandon,
       ReadImage, ReadAsset, ReadProof, Send
  <2>2. task'[s] = Idle
    BY <1>0, <2>1 DEF Answer, Continue, Once
  <2> QED BY <1>5, <2>2
<1>7. ASSUME NEW m \in Media, BeginOpen(s, m) \/ BeginFetch(s, m) PROVE FALSE
  <2>1. task'[s].at \in {"open_write", "fetch_write"}
    BY <1>0, <1>7 DEF BeginOpen, BeginFetch, Begin
  <2> QED BY <2>1 DEF Uploading
<1>8. ASSUME FetchWrite(s) PROVE FALSE
  <2>1. task'[s].at = "fetch_serve"
    BY <1>0, <1>8 DEF FetchWrite, Continue
  <2> QED BY <2>1 DEF Uploading
<1>9. ASSUME NEW m \in Media, ExportMark(s, m) PROVE FALSE
  <2>1. task'[s] = Idle \/ task'[s] = [task[s] EXCEPT !.todo = task[s].todo \ {m}]
    BY <1>0, <1>9 DEF ExportMark, Answer, Continue
  <2>2. task[s] \in Marking
    BY <1>0, <1>9, TaskKinds DEF ExportMark, At
  <2>3. task'[s] = Idle \/ task'[s].at = "export_mark"
    BY <2>1, <2>2 DEF Marking
  <2> QED BY <1>5, <2>3 DEF Uploading
<1>10. ASSUME NEW h \in Hunters, NEW chosen \in SUBSET Media, CreateExport(s, h, chosen) PROVE FALSE
  <2>1. task'[s].at = "export_mark"
    BY <1>0, <1>10 DEF CreateExport, Begin
  <2> QED BY <2>1 DEF Uploading
<1> QED BY <1>1, <1>2, <1>3, <1>4, <1>6, <1>7, <1>8, <1>9, <1>10 DEF Acts

\* How a handler comes to mark assets: it has found them in a vault, or has marked another.
LEMMA HowMarking ==
  ASSUME TypeInv, NEW s \in Slots, Acts(s), At(s, "export_mark")'
  PROVE  \/ \E h \in Hunters : task'[s].todo \subseteq VaultOf(h)
         \/ At(s, "export_mark") /\ task'[s].todo \subseteq task[s].todo
<1>0. task \in [Slots -> Task] /\ task[s] \in Task
  BY DEF TypeInv
<1>1. ASSUME task'[s] = Idle PROVE FALSE
  BY <1>1 DEF At, Idle
<1>2. ASSUME NEW h \in Hunters, NEW m \in Media,
             \/ \E ready \in BOOLEAN : UploadVault(s, h, m, ready)
             \/ \E r \in Hunters, ttl \in OnceTtls : SendOnce(s, h, r, m, ttl)
             \/ UploadProof(s, h, m)
      PROVE  FALSE
  <2>1. ASSUME NEW ready \in BOOLEAN, UploadVault(s, h, m, ready)
        PROVE  task'[s].at = "insert_asset"
    BY <1>0, <2>1 DEF UploadVault, Begin
  <2>2. ASSUME NEW r \in Hunters, NEW ttl \in OnceTtls, SendOnce(s, h, r, m, ttl)
        PROVE  task'[s].at = "insert_asset"
    BY <1>0, <2>2 DEF SendOnce, Begin
  <2>3. ASSUME UploadProof(s, h, m) PROVE task'[s].at = "insert_proof"
    BY <1>0, <2>3 DEF UploadProof, Begin
  <2> QED BY <1>2, <2>1, <2>2, <2>3 DEF At
<1>3. ASSUME InsertAsset(s) PROVE FALSE
  <2>1. task'[s] = Idle \/ task'[s] = [task[s] EXCEPT !.at = "insert_delivery"]
    BY <1>0, <1>3 DEF InsertAsset, Answer, Continue
  <2>2. CASE task'[s] = [task[s] EXCEPT !.at = "insert_delivery"]
    <3>1. task[s] \in VaultUpload \cup OnceUpload
      BY <1>0, <1>3, TaskKinds DEF InsertAsset, At
    <3>2. task'[s].at = "insert_delivery"
      BY <2>2, <3>1 DEF VaultUpload, OnceUpload
    <3> QED BY <3>2 DEF At
  <2> QED BY <1>1, <2>1, <2>2
<1>6. ASSUME \/ InsertDelivery(s) \/ InsertProof(s) \/ ProofRefused(s) \/ FetchServe(s) \/ Drop(s)
             \/ \E token \in Tokens : OpenWrite(s, token)
             \/ \E h \in Hunters, m \in Media : ReadImage(s, h, m)
      PROVE  FALSE
  <2>1. Answer(s) \/ Once(s)
    BY <1>6 DEF InsertDelivery, InsertProof, ProofRefused, FetchServe, Drop, OpenWrite, Abandon,
       ReadImage, ReadAsset, ReadProof, Send
  <2>2. task'[s] = Idle
    BY <1>0, <2>1 DEF Answer, Continue, Once
  <2> QED BY <1>1, <2>2
<1>7. ASSUME NEW m \in Media, BeginOpen(s, m) \/ BeginFetch(s, m) PROVE FALSE
  <2>1. task'[s].at \in {"open_write", "fetch_write"}
    BY <1>0, <1>7 DEF BeginOpen, BeginFetch, Begin
  <2> QED BY <2>1 DEF At
<1>8. ASSUME FetchWrite(s) PROVE FALSE
  <2>1. task'[s].at = "fetch_serve"
    BY <1>0, <1>8 DEF FetchWrite, Continue
  <2> QED BY <2>1 DEF At
<1>9. ASSUME NEW m \in Media, ExportMark(s, m)
      PROVE  At(s, "export_mark") /\ task'[s].todo \subseteq task[s].todo
  <2>1. task'[s] = [task[s] EXCEPT !.todo = task[s].todo \ {m}]
    BY <1>0, <1>1, <1>9 DEF ExportMark, Answer, Continue
  <2>2. task[s] \in Marking /\ At(s, "export_mark")
    BY <1>0, <1>9, TaskKinds DEF ExportMark, At
  <2> QED BY <2>1, <2>2 DEF Marking
<1>10. ASSUME NEW h \in Hunters, NEW chosen \in SUBSET Media, CreateExport(s, h, chosen)
       PROVE  task'[s].todo \subseteq VaultOf(h)
  BY <1>0, <1>10 DEF CreateExport, Begin
<1> QED BY <1>2, <1>3, <1>6, <1>7, <1>8, <1>9, <1>10 DEF Acts

\* Every step keeps it.
LEMMA UploadStep == TypeInv /\ UploadInv /\ [Next]_vars => UploadInv'
<1> SUFFICES ASSUME TypeInv, UploadInv, [Next]_vars PROVE UploadInv'
  OBVIOUS
<1>0. TypeInv' /\ task \in [Slots -> Task]
  BY TypeStep DEF TypeInv
<1>1. CASE UNCHANGED <<files, assets, deliveries, task>>
  BY <1>1 DEF UploadInv, UploadTask, Uploading, At, Exists, Sent, Rows
<1>2. ASSUME NEW s \in Slots, Acts(s) PROVE UploadInv'
  \* The images of the others are not touched.
  <2>1. ASSUME NEW r \in Slots \ {s}, Uploading(r)
        PROVE  /\ task'[r] = task[r] /\ task[r].media \in Media
               /\ assets'[task[r].media] = assets[task[r].media]
               /\ deliveries'[task[r].media] = deliveries[task[r].media]
               /\ task[r].media \in files'
    <3>1. task'[r] = task[r] /\ task[r].media \in Media
      BY <1>2, <1>0, <2>1, OthersWait, TaskMedia DEF Uploading
    <3>2. Uploading(s) => task[s].media # task[r].media
      BY <2>1 DEF UploadInv
    <3>3. ~Sent(task[r].media) /\ task[r].media \in files
      BY <2>1 DEF UploadInv, UploadTask
    <3>4. ASSUME NEW q \in Slots, task'[q] # task[q] PROVE q = s
      BY <1>2, <3>4, OthersWait
    <3>5. ASSUME NEW q \in Slots, InsertAsset(q) \/ InsertProof(q) \/ InsertDelivery(q) \/ ProofRefused(q)
          PROVE  q = s /\ Uploading(s)
      <4>1. Uploading(q)
        BY <3>5 DEF InsertAsset, InsertProof, InsertDelivery, ProofRefused, At, Uploading
      <4>2. task'[q] # task[q]
        <5>1. CASE InsertProof(q) \/ InsertDelivery(q) \/ ProofRefused(q)
          <6>1. task'[q] = Idle
            BY <1>0, <5>1 DEF InsertProof, InsertDelivery, ProofRefused, Answer, Continue
          <6> QED BY <4>1, <6>1 DEF Uploading, Idle
        <5>2. CASE InsertAsset(q)
          <6>1. task'[q] = Idle \/ task'[q] = [task[q] EXCEPT !.at = "insert_delivery"]
            BY <1>0, <5>2 DEF InsertAsset, Answer, Continue
          <6>2. task[q] \in VaultUpload \cup OnceUpload /\ task[q].at = "insert_asset"
            BY <1>0, <5>2, TaskKinds DEF InsertAsset, At
          <6>3. task'[q].at # "insert_asset"
            BY <6>1, <6>2 DEF VaultUpload, OnceUpload, Idle
          <6> QED BY <6>2, <6>3
        <5> QED BY <3>5, <5>1, <5>2
      <4> QED BY <3>4, <4>1, <4>2
    <3>6. assets'[task[r].media] = assets[task[r].media]
      <4>1. CASE task[r].at = "insert_delivery"
        <5>1. assets[task[r].media].mode = "once"
          BY <2>1, <4>1 DEF UploadInv, UploadTask, At
        <5> QED BY <3>1, <3>2, <3>5, <5>1, NewRows
      <4>2. CASE task[r].at # "insert_delivery"
        <5>1. ~Exists(task[r].media)
          BY <2>1, <4>2 DEF UploadInv, UploadTask, At, Uploading
        <5> QED BY <3>1, <3>2, <3>5, <5>1, NewRows
      <4> QED BY <4>1, <4>2
    <3>7. deliveries'[task[r].media] = deliveries[task[r].media]
      BY <3>1, <3>2, <3>3, <3>5, NewRows
    <3>8. task[r].media \in files'
      BY <3>1, <3>2, <3>3, <3>5, NewRows
    <3> QED BY <3>1, <3>6, <3>7, <3>8
  <2>2. ASSUME NEW r \in Slots \ {s} PROVE UploadTask(r)'
    <3>1. task'[r] = task[r] /\ UploadTask(r)
      BY <1>2, OthersWait DEF UploadInv
    <3>2. CASE Uploading(r)
      <4>1. /\ assets'[task[r].media] = assets[task[r].media]
            /\ deliveries'[task[r].media] = deliveries[task[r].media]
            /\ task[r].media \in files' /\ task[r].at # "export_mark"
        BY <2>1, <3>2 DEF Uploading
      <4> QED BY <3>1, <4>1 DEF UploadTask, Uploading, At, Exists, Sent
    <3>3. CASE At(r, "export_mark")
      <4>1. \A m \in task[r].todo : m \in Media /\ Exists(m) /\ assets[m].mode = "vault"
        BY <1>0, <3>1, <3>3, TaskMedia DEF At, UploadTask, TypeInv, HoldsRows
      <4>2. \A m \in task[r].todo : assets'[m].mode = "vault"
        BY <4>1, RowsKeep
      <4>3. ~Uploading(r) /\ task[r] \notin OnceUpload
        BY <3>3 DEF At, Uploading, OnceUpload
      <4> QED BY <3>1, <3>3, <4>2, <4>3 DEF UploadTask, Uploading, At
    <3>4. CASE ~Uploading(r) /\ ~At(r, "export_mark")
      BY <3>1, <3>4 DEF UploadTask, Uploading, At
    <3> QED BY <3>2, <3>3, <3>4
  <2>3. ASSUME Uploading(s)'
        PROVE  /\ UploadTask(s)'
               /\ \A r \in Slots \ {s} : Uploading(r) => task[r].media # task'[s].media
    <3>1. ASSUME NEW m \in Media, Fresh(m), task'[s].media = m, files' = files \cup {m},
                 task'[s].at \in {"insert_asset", "insert_proof"},
                 UNCHANGED <<assets, deliveries>>,
                 task'[s] \in OnceUpload => <<task'[s].asset.owner, task'[s].recipient>> \in Friend
          PROVE  /\ UploadTask(s)'
                 /\ \A r \in Slots \ {s} : Uploading(r) => task[r].media # task'[s].media
      <4>1. ~Sent(m) /\ ~Exists(m)
        BY <3>1 DEF Fresh, UploadInv, Rows
      <4>2. UploadTask(s)'
        BY <3>1, <4>1 DEF UploadTask, Uploading, At, Exists, Sent
      <4>3. \A r \in Slots \ {s} : Uploading(r) => task[r].media # m
        BY <1>0, <3>1, TaskMedia DEF Fresh, Uploading
      <4> QED BY <3>1, <4>2, <4>3
    <3>2. ASSUME InsertAsset(s), task[s] \in OnceUpload,
                 task'[s] = [task[s] EXCEPT !.at = "insert_delivery"]
          PROVE  /\ UploadTask(s)'
                 /\ \A r \in Slots \ {s} : Uploading(r) => task[r].media # task'[s].media
      <4>1. /\ task'[s].at = "insert_delivery" /\ task'[s].media = task[s].media
            /\ task'[s].asset = task[s].asset /\ task'[s].recipient = task[s].recipient
            /\ task[s].media \in Media /\ task[s].asset.mode = "once"
        BY <3>2 DEF OnceUpload
      <4>2. Uploading(s) /\ UploadTask(s)
        BY <3>2 DEF InsertAsset, At, Uploading, UploadInv
      <4>3. assets'[task[s].media] = task[s].asset /\ task[s].asset # NoRow
            /\ UNCHANGED <<files, deliveries>>
        BY <1>0, <3>2, <4>1, TaskMedia DEF InsertAsset, TypeInv, At
      <4>4. <<task[s].asset.owner, task[s].recipient>> \in Friend
        BY <3>2, <4>2 DEF UploadTask
      <4>5. UploadTask(s)'
        BY <4>1, <4>2, <4>3, <4>4 DEF UploadTask, Uploading, At, Exists, Sent
      <4>6. \A r \in Slots \ {s} : Uploading(r) => task[r].media # task'[s].media
        BY <4>1, <4>2 DEF UploadInv
      <4> QED BY <4>5, <4>6
    <3> QED BY <1>2, <2>3, <3>1, <3>2, HowUploading
  <2>4. ASSUME ~Uploading(s)' PROVE UploadTask(s)'
    <3>1. task'[s] \notin OnceUpload
      BY <2>4 DEF Uploading, OnceUpload
    <3>2. At(s, "export_mark")' => \A m \in task'[s].todo : assets'[m].mode = "vault"
      <4> SUFFICES ASSUME At(s, "export_mark")', NEW m \in task'[s].todo
                   PROVE  assets'[m].mode = "vault"
        OBVIOUS
      <4>1. m \in Media /\ Exists(m) /\ assets[m].mode = "vault"
        <5>1. CASE \E h \in Hunters : task'[s].todo \subseteq VaultOf(h)
          BY <5>1 DEF VaultOf, InVault
        <5>2. CASE At(s, "export_mark") /\ task'[s].todo \subseteq task[s].todo
          BY <1>0, <5>2, TaskMedia DEF At, UploadInv, UploadTask, TypeInv, HoldsRows
        <5> QED BY <1>2, <5>1, <5>2, HowMarking
      <4> QED BY <4>1, RowsKeep
    <3> QED BY <2>4, <3>1, <3>2 DEF UploadTask, Uploading, At
  <2>5. \A r \in Slots : UploadTask(r)'
    BY <2>2, <2>3, <2>4
  <2>6. ASSUME NEW r \in Slots, NEW q \in Slots, r # q, Uploading(r)', Uploading(q)'
        PROVE  task'[r].media # task'[q].media
    <3>1. \A x \in Slots \ {s} : task'[x] = task[x] /\ (Uploading(x)' <=> Uploading(x))
      BY <1>2, OthersWait DEF Uploading
    <3>2. CASE r # s /\ q # s
      BY <2>6, <3>1, <3>2 DEF UploadInv
    <3>3. CASE r = s
      BY <2>3, <2>6, <3>1, <3>3
    <3>4. CASE q = s
      BY <2>3, <2>6, <3>1, <3>4
    <3> QED BY <3>2, <3>3, <3>4
  <2>7. ASSUME NEW m \in Media PROVE Rows(m)'
    <3>1. ASSUME Exists(m)' PROVE m \in files'
      <4>1. ASSUME Exists(m), m \notin files' PROVE FALSE
        <5>1. PICK q \in Slots : ProofRefused(q) /\ m = task[q].media
          BY <4>1, NewRows DEF UploadInv, Rows
        <5> QED BY <4>1, <5>1 DEF ProofRefused, UploadInv, UploadTask, At
      <4>2. ASSUME ~Exists(m) PROVE m \in files'
        <5>1. assets'[m] # assets[m]
          BY <3>1, <4>2 DEF Exists
        <5>2. PICK q \in Slots : (InsertAsset(q) \/ InsertProof(q)) /\ m = task[q].media
          BY <4>2, <5>1, NewRows
        <5> QED BY <5>2 DEF InsertAsset, InsertProof, UploadInv, UploadTask, Uploading, At
      <4> QED BY <4>1, <4>2
    <3>2. ASSUME Sent(m), Sent(m)'
          PROVE  /\ Exists(m)' /\ assets'[m].mode = "once"
                 /\ deliveries'[m].sender = assets'[m].owner
                 /\ <<deliveries'[m].sender, deliveries'[m].recipient>> \in Friend
      BY <3>2, RowsKeep DEF UploadInv, Rows
    <3>3. ASSUME ~Sent(m), Sent(m)'
          PROVE  /\ Exists(m)' /\ assets'[m].mode = "once"
                 /\ deliveries'[m].sender = assets'[m].owner
                 /\ <<deliveries'[m].sender, deliveries'[m].recipient>> \in Friend
      <4>1. PICK q \in Slots : InsertDelivery(q) /\ m = task[q].media
        BY <3>3, NewRows DEF Sent
      <4>2. /\ task[q] \in OnceUpload /\ UNCHANGED assets
            /\ deliveries'[m] = [sender |-> task[q].asset.owner, recipient |-> task[q].recipient,
                 opened |-> FALSE, consumed |-> FALSE, expires |-> task[q].expires,
                 token |-> Null, tokenExpires |-> 0]
        BY <1>0, <4>1, TaskKinds DEF InsertDelivery, At, TypeInv
      <4>3. Exists(m) /\ assets[m].mode = "once" /\ assets[m].owner = task[q].asset.owner
            /\ <<task[q].asset.owner, task[q].recipient>> \in Friend
        BY <4>1, <4>2 DEF InsertDelivery, UploadInv, UploadTask
      <4> QED BY <4>2, <4>3 DEF Exists
    <3> QED BY <3>1, <3>2, <3>3 DEF Rows
  <2> QED BY <2>5, <2>6, <2>7 DEF UploadInv
<1> QED BY <1>1, <1>2, NextActs DEF vars, rowVars, handlerVars, Tick, Move, ChangeGuild

-------------------------------------------------------------------------------
(* What is unfinished is in hand or was abandoned.                         *)

\* What a handler has in hand stays so, unless it gets what it misses.
LEMMA HandOver ==
  ASSUME TypeInv, UploadInv, [Next]_vars, NEW m \in Media, InHand(m)
  PROVE  \/ InHand(m)' \/ m \in abandoned'
         \/ (~Exists(m) /\ (Exists(m)' \/ m \notin files'))
         \/ (Exists(m) /\ assets[m].mode = "once" /\ Sent(m)')
         \/ (Exists(m) /\ assets[m].mode = "vault" /\ assets'[m].ready)
<1>1. PICK s \in Slots : m \in Unfinished(s)
  BY DEF InHand
<1>0. task \in [Slots -> Task] /\ task[s] \in Task
  BY DEF TypeInv
<1>2. CASE task'[s] = task[s]
  <2>1. m \in Unfinished(s)'
    BY <1>1, <1>2 DEF Unfinished, At
  <2> QED BY <2>1 DEF InHand
<1>3. CASE task'[s] # task[s]
  <2>1. Acts(s)
    BY <1>3, OthersWait, NextActs DEF vars, handlerVars, Tick, Move, ChangeGuild
  <2>2. task[s].at \in {"insert_asset", "insert_delivery", "insert_proof", "export_mark"}
    BY <1>1 DEF Unfinished, At
  <2>3. task[s].at # "export_mark" => m = task[s].media
    BY <1>1 DEF Unfinished, At
  <2>4. CASE InsertAsset(s) \/ InsertProof(s)
    <3>1. ~Exists(m) /\ task[s].asset # NoRow /\ m = task[s].media
      BY <1>0, <2>3, <2>4, TaskMedia DEF InsertAsset, InsertProof, At, UploadInv, UploadTask
    <3>2. Exists(m)'
      BY <2>4, <3>1 DEF InsertAsset, InsertProof, Exists, TypeInv
    <3> QED BY <3>1, <3>2
  <2>5. CASE InsertDelivery(s)
    <3>1. m = task[s].media /\ Exists(m) /\ assets[m].mode = "once"
      BY <2>3, <2>5 DEF InsertDelivery, At, UploadInv, UploadTask
    <3>2. task[s] \in OnceUpload
      BY <1>0, <2>5, TaskKinds DEF InsertDelivery, At
    <3>3. [sender |-> task[s].asset.owner, recipient |-> task[s].recipient, opened |-> FALSE,
           consumed |-> FALSE, expires |-> task[s].expires,
           token |-> Null, tokenExpires |-> 0] \in Delivery
      BY <3>2 DEF OnceUpload, Delivery
    <3>4. Sent(m)'
      BY <2>5, <3>1, <3>3, NoRowAssumption DEF InsertDelivery, Sent, TypeInv
    <3> QED BY <3>1, <3>4
  <2>6. CASE ProofRefused(s)
    <3>1. ~Exists(m) /\ m \notin files'
      BY <2>3, <2>6 DEF ProofRefused, At, UploadInv, UploadTask
    <3> QED BY <3>1
  <2>7. ASSUME NEW x \in Media, ExportMark(s, x)
        PROVE  InHand(m)' \/ (Exists(m) /\ assets[m].mode = "vault" /\ assets'[m].ready)
    <3>1. m \in task[s].todo /\ task[s] \in Marking
      BY <1>0, <1>1, <2>7, TaskKinds DEF ExportMark, Unfinished, At
    <3>2. Exists(m) /\ assets[m].mode = "vault"
      BY <2>7, <3>1 DEF ExportMark, UploadInv, UploadTask, TypeInv, HoldsRows
    <3>3. CASE x = m
      <4>1. assets[m] \in Asset
        BY <3>2, RowTypes
      <4>2. assets'[m] = [assets[m] EXCEPT !.ready = TRUE]
        BY <2>7, <3>3 DEF ExportMark, TypeInv
      <4>3. assets'[m].ready
        BY <4>1, <4>2 DEF Asset
      <4> QED BY <3>2, <4>3
    <3>4. CASE x # m
      <4>1. task'[s] = [task[s] EXCEPT !.todo = task[s].todo \ {x}]
        BY <1>0, <2>7, <3>1, <3>4 DEF ExportMark, Continue
      <4>2. task'[s].at = "export_mark" /\ m \in task'[s].todo
        BY <3>1, <3>4, <4>1 DEF Marking
      <4>3. m \in Unfinished(s)'
        BY <4>2 DEF Unfinished, At
      <4> QED BY <4>3 DEF InHand
    <3> QED BY <3>3, <3>4
  <2>8. CASE Drop(s)
    BY <1>1, <2>8 DEF Drop
  <2>9. ASSUME \/ \E h \in Hunters, x \in Media :
                    \/ \E ready \in BOOLEAN : UploadVault(s, h, x, ready)
                    \/ \E r \in Hunters, ttl \in OnceTtls : SendOnce(s, h, r, x, ttl)
                    \/ UploadProof(s, h, x)
                    \/ ReadImage(s, h, x)
               \/ \E x \in Media : BeginOpen(s, x) \/ BeginFetch(s, x)
               \/ \E h \in Hunters, chosen \in SUBSET Media : CreateExport(s, h, chosen)
        PROVE  FALSE
    <3>1. task[s] = Idle
      BY <2>9 DEF UploadVault, SendOnce, UploadProof, ReadImage, ReadAsset, ReadProof, Send,
         BeginOpen, BeginFetch,
         CreateExport, Begin, Once
    <3> QED BY <2>2, <3>1 DEF Idle
  <2>10. ASSUME FetchWrite(s) \/ FetchServe(s) \/ \E token \in Tokens : OpenWrite(s, token)
         PROVE  FALSE
    BY <2>2, <2>10 DEF FetchWrite, FetchServe, OpenWrite, At
  <2> QED BY <2>1, <2>4, <2>5, <2>6, <2>7, <2>8, <2>9, <2>10 DEF Acts
<1> QED BY <1>2, <1>3

\* A new file is in the hand of the handler that uploads it.
LEMMA NewFiles ==
  ASSUME TypeInv, [Next]_vars, NEW m \in Media, m \in files' \ files
  PROVE  InHand(m)'
<1>0. task \in [Slots -> Task]
  BY DEF TypeInv
<1>1. ASSUME NEW s \in Slots, task'[s].at \in {"insert_asset", "insert_proof"}, task'[s].media = m
      PROVE  InHand(m)'
  <2>1. m \in Unfinished(s)'
    BY <1>1 DEF Unfinished, At
  <2> QED BY <2>1 DEF InHand
<1>2. ASSUME NEW s \in Slots, NEW h \in Hunters, NEW x \in Media, NEW ready \in BOOLEAN,
             UploadVault(s, h, x, ready)
      PROVE  InHand(m)'
  <2>1. x = m
    BY <1>2 DEF UploadVault, PersistMediaFile
  <2>2. task'[s].at = "insert_asset" /\ task'[s].media = x
    BY <1>0, <1>2 DEF UploadVault, Begin
  <2> QED BY <1>1, <2>1, <2>2
<1>3. ASSUME NEW s \in Slots, NEW h \in Hunters, NEW x \in Media, NEW r \in Hunters,
             NEW ttl \in OnceTtls, SendOnce(s, h, r, x, ttl)
      PROVE  InHand(m)'
  <2>1. x = m
    BY <1>3 DEF SendOnce, PersistMediaFile
  <2>2. task'[s].at = "insert_asset" /\ task'[s].media = x
    BY <1>0, <1>3 DEF SendOnce, Begin
  <2> QED BY <1>1, <2>1, <2>2
<1>4. ASSUME NEW s \in Slots, NEW h \in Hunters, NEW x \in Media, UploadProof(s, h, x)
      PROVE  InHand(m)'
  <2>1. x = m
    BY <1>4 DEF UploadProof, PersistMediaFile
  <2>2. task'[s].at = "insert_proof" /\ task'[s].media = x
    BY <1>0, <1>4 DEF UploadProof, Begin
  <2> QED BY <1>1, <2>1, <2>2
<1>5. ASSUME NEW s \in Slots, Acts(s), InsertAsset(s) \/ InsertDelivery(s) \/ InsertProof(s)
             \/ FetchWrite(s) \/ FetchServe(s) \/ Drop(s) \/ ProofRefused(s)
      PROVE  files' \subseteq files
  BY <1>5 DEF InsertAsset, InsertDelivery, InsertProof, FetchWrite, FetchServe, Drop,
     ProofRefused, rowVars
<1>6. ASSUME NEW s \in Slots, NEW x \in Media, BeginOpen(s, x) \/ BeginFetch(s, x) \/ ExportMark(s, x)
      PROVE  files' \subseteq files
  BY <1>6 DEF BeginOpen, BeginFetch, ExportMark, rowVars
<1>7. ASSUME NEW s \in Slots, NEW token \in Tokens, OpenWrite(s, token) PROVE files' \subseteq files
  BY <1>7 DEF OpenWrite
<1>8. ASSUME NEW s \in Slots, NEW h \in Hunters, NEW chosen \in SUBSET Media,
             CreateExport(s, h, chosen)
      PROVE  files' \subseteq files
  BY <1>8 DEF CreateExport
<1>9. ASSUME NEW s \in Slots, NEW h \in Hunters, NEW x \in Media, ReadImage(s, h, x)
      PROVE  files' \subseteq files
  BY <1>9 DEF ReadImage, ReadAsset, ReadProof, Send, rowVars
<1>10. CASE UNCHANGED files
  BY <1>10
<1> QED BY <1>2, <1>3, <1>4, <1>5, <1>6, <1>7, <1>8, <1>9, <1>10, NextActs
        DEF Acts, vars, rowVars, Tick, Move, ChangeGuild

\* What was abandoned stays so; a new export is in hand.
LEMMA NewExports ==
  ASSUME TypeInv, [Next]_vars
  PROVE  /\ abandoned \subseteq abandoned'
         /\ \A e \in exports' : e \in exports \/
              \A m \in e.assets : m \in VaultOf(e.owner) /\ UNCHANGED assets /\ InHand(m)'
<1>0. task \in [Slots -> Task]
  BY DEF TypeInv
<1>1. ASSUME NEW s \in Slots, NEW h \in Hunters, NEW chosen \in SUBSET Media,
             CreateExport(s, h, chosen)
      PROVE  /\ abandoned \subseteq abandoned'
             /\ \A e \in exports' : e \in exports \/
                  \A m \in e.assets : m \in VaultOf(e.owner) /\ UNCHANGED assets /\ InHand(m)'
  <2>1. task'[s].at = "export_mark" /\ task'[s].todo = chosen
    BY <1>0, <1>1 DEF CreateExport, Begin
  <2>2. \A m \in chosen : m \in Unfinished(s)'
    BY <2>1 DEF Unfinished, At
  <2>3. \A m \in chosen : m \in VaultOf(h) /\ UNCHANGED assets /\ InHand(m)'
    BY <1>1, <2>2 DEF CreateExport, InHand
  <2> QED BY <1>1, <2>3 DEF CreateExport, history
<1>2. ASSUME NEW s \in Slots, Acts(s),
             ~ \E h \in Hunters, chosen \in SUBSET Media : CreateExport(s, h, chosen)
      PROVE  UNCHANGED exports /\ abandoned \subseteq abandoned'
  <2>1. ASSUME NEW h \in Hunters, NEW m \in Media,
               \/ \E ready \in BOOLEAN : UploadVault(s, h, m, ready)
               \/ \E r \in Hunters, ttl \in OnceTtls : SendOnce(s, h, r, m, ttl)
               \/ UploadProof(s, h, m) \/ ReadImage(s, h, m)
        PROVE  UNCHANGED <<exports, abandoned>>
    BY <2>1 DEF UploadVault, SendOnce, UploadProof, ReadImage, ReadAsset, ReadProof, Send,
       rowVars, history
  <2>2. ASSUME NEW m \in Media, BeginOpen(s, m) \/ BeginFetch(s, m) \/ ExportMark(s, m)
        PROVE  UNCHANGED <<exports, abandoned>>
    BY <2>2 DEF BeginOpen, BeginFetch, ExportMark, rowVars, history
  <2>3. ASSUME \/ InsertAsset(s) \/ InsertDelivery(s) \/ InsertProof(s) \/ ProofRefused(s)
               \/ FetchWrite(s) \/ FetchServe(s) \/ \E token \in Tokens : OpenWrite(s, token)
        PROVE  UNCHANGED <<exports, abandoned>>
    BY <2>3 DEF InsertAsset, InsertDelivery, InsertProof, ProofRefused, FetchWrite, FetchServe,
       OpenWrite, rowVars, history
  <2>4. Drop(s) => UNCHANGED exports /\ abandoned \subseteq abandoned'
    BY DEF Drop, rowVars
  <2> QED BY <1>2, <2>1, <2>2, <2>3, <2>4 DEF Acts
<1>3. CASE UNCHANGED <<exports, abandoned>>
  BY <1>3
<1> QED BY <1>1, <1>2, <1>3, NextActs DEF vars, rowVars, history, Tick, Move, ChangeGuild

\* Every step keeps the accounts.
LEMMA AccountStep ==
  TypeInv /\ UploadInv /\ UploadsAccounted /\ ExportsMarked /\ [Next]_vars
    => UploadsAccounted' /\ ExportsMarked'
<1> SUFFICES ASSUME TypeInv, UploadInv, UploadsAccounted, ExportsMarked, [Next]_vars
             PROVE  UploadsAccounted' /\ ExportsMarked'
  OBVIOUS
<1>0. UploadInv' /\ abandoned \subseteq abandoned' /\ TypeInv'
  BY TypeStep, UploadStep, NewExports
<1>1. ASSUME NEW m \in Media, m \in files', ~Exists(m)'
      PROVE  InHand(m)' \/ m \in abandoned'
  <2>1. ~Exists(m)
    BY <1>1, RowsKeep
  <2>2. CASE m \in files
    <3>1. InHand(m) \/ m \in abandoned
      BY <2>1, <2>2 DEF UploadsAccounted
    <3> QED BY <1>0, <1>1, <2>1, <3>1, HandOver
  <2>3. CASE m \notin files
    BY <1>1, <2>3, NewFiles
  <2> QED BY <2>2, <2>3
<1>2. ASSUME NEW m \in Media, Exists(m)', assets'[m].mode = "once", ~Sent(m)'
      PROVE  InHand(m)' \/ m \in abandoned'
  <2>1. ~Sent(m)
    BY <1>2, RowsKeep
  <2>2. CASE Exists(m)
    <3>1. assets[m].mode = "once"
      BY <1>2, <2>2, RowsKeep
    <3>2. InHand(m) \/ m \in abandoned
      BY <2>1, <2>2, <3>1 DEF UploadsAccounted
    <3> QED BY <1>0, <1>2, <2>2, <3>1, <3>2, HandOver
  <2>3. CASE ~Exists(m)
    <3>1. assets'[m] # assets[m]
      BY <1>2, <2>3 DEF Exists
    <3>2. PICK s \in Slots : /\ InsertAsset(s) \/ InsertProof(s)
                             /\ m = task[s].media /\ assets'[m] = task[s].asset
      BY <2>3, <3>1, NewRows
    <3>3. task[s] \in Task /\ task \in [Slots -> Task]
      BY DEF TypeInv
    <3>4. InsertAsset(s) /\ task[s] \in OnceUpload
      <4>1. CASE InsertAsset(s)
        BY <1>2, <3>2, <3>3, <4>1, TaskKinds DEF InsertAsset, At
      <4>2. CASE InsertProof(s)
        <5>1. task[s] \in ProofUpload
          BY <3>3, <4>2, TaskKinds DEF InsertProof, At
        <5> QED BY <1>2, <3>2, <5>1 DEF ProofUpload
      <4> QED BY <3>2, <4>1, <4>2
    <3>5. task'[s] = [task[s] EXCEPT !.at = "insert_delivery"]
      BY <1>2, <3>2, <3>3, <3>4 DEF InsertAsset, Continue
    <3>6. task'[s].at = "insert_delivery" /\ task'[s].media = m
      BY <3>2, <3>4, <3>5 DEF OnceUpload
    <3>7. m \in Unfinished(s)'
      BY <3>6 DEF Unfinished, At
    <3> QED BY <3>7 DEF InHand
  <2> QED BY <2>2, <2>3
<1>3. ASSUME NEW e \in exports', NEW m \in e.assets
      PROVE  /\ InVault(e.owner, m)'
             /\ assets'[m].ready \/ InHand(m)' \/ m \in abandoned'
  <2>1. CASE e \in exports
    <3>1. /\ m \in Media /\ Exists(m) /\ assets[m].owner = e.owner /\ assets[m].mode = "vault"
          /\ assets[m].ready \/ InHand(m) \/ m \in abandoned
      BY <2>1 DEF ExportsMarked, InVault, TypeInv, Export
    <3>2. InVault(e.owner, m)'
      BY <3>1, RowsKeep DEF InVault
    <3> QED BY <1>0, <3>1, <3>2, RowsKeep, HandOver
  <2>2. CASE e \notin exports
    <3>1. m \in VaultOf(e.owner) /\ UNCHANGED assets /\ InHand(m)'
      BY <2>2, NewExports
    <3> QED BY <3>1 DEF VaultOf, InVault, Exists
  <2> QED BY <2>1, <2>2
<1>4. UploadsAccounted'
  BY <1>0, <1>1, <1>2 DEF UploadsAccounted, UploadInv, Rows
<1>5. ExportsMarked'
  BY <1>3 DEF ExportsMarked
<1> QED BY <1>4, <1>5

\* The empty vault
LEMMA AccountInit == Init => UploadInv /\ UploadsAccounted /\ ExportsMarked
  BY DEF Init, HandlersInit, Idle, UploadInv, UploadTask, Uploading, At, Rows, Exists, Sent,
     UploadsAccounted, ExportsMarked, OnceUpload

\* A row has its file and a delivery its one-time asset; what is missing is in the hand of
\* a handler, or was abandoned by one.
THEOREM UploadsAddUp == Spec => []UploadsAccounted
<1>1. Init => TypeInv /\ UploadInv /\ UploadsAccounted /\ ExportsMarked
  BY TypeInit, AccountInit
<1>2. TypeInv /\ UploadInv /\ UploadsAccounted /\ ExportsMarked /\ [Next]_vars
        => (TypeInv /\ UploadInv /\ UploadsAccounted /\ ExportsMarked)'
  BY TypeStep, UploadStep, AccountStep
<1> QED BY <1>1, <1>2, PTL DEF Spec

\* An export lists vault images of its owner, marked unless that is in hand or abandoned.
THEOREM ExportsAreMarked == Spec => []ExportsMarked
<1>1. Init => TypeInv /\ UploadInv /\ UploadsAccounted /\ ExportsMarked
  BY TypeInit, AccountInit
<1>2. TypeInv /\ UploadInv /\ UploadsAccounted /\ ExportsMarked /\ [Next]_vars
        => (TypeInv /\ UploadInv /\ UploadsAccounted /\ ExportsMarked)'
  BY TypeStep, UploadStep, AccountStep
<1> QED BY <1>1, <1>2, PTL DEF Spec

-------------------------------------------------------------------------------
(* Who has seen what.                                                      *)

\* The guild a proof was uploaded for; otherwise the owner or a friend of the owner, and
\* for a one-time image the one it was sent to
MaySee(h, g, m) ==
  /\ Exists(m)
  /\ IF assets[m].mode = "proof"
     THEN assets[m].guild = g
     ELSE h # assets[m].owner =>
            /\ <<assets[m].owner, h>> \in Friend
            /\ assets[m].mode = "once" => Sent(m) /\ deliveries[m].recipient = h

SeenInv ==
  \A h \in Hunters, g \in Guilds, m \in Media : <<h, g, m>> \in seenBy => MaySee(h, g, m)

\* Who receives an image may see it.
LEMMA NewViewers ==
  ASSUME TypeInv, UploadInv, [Next]_vars, NEW h \in Hunters, NEW g \in Guilds, NEW m \in Media,
         <<h, g, m>> \in seenBy' \ seenBy
  PROVE  MaySee(h, g, m)
<1>0. task \in [Slots -> Task] /\ Rows(m)
  BY DEF TypeInv, UploadInv
<1>1. ASSUME NEW s \in Slots, FetchServe(s) PROVE MaySee(h, g, m)
  <2>1. task[s].at = "fetch_serve" /\ m = task[s].media /\ h = deliveries[m].recipient
    BY <1>1 DEF FetchServe, At
  <2>2. Sent(m)
    BY <2>1 DEF TypeInv, HoldsRows
  <2> QED BY <1>0, <2>1, <2>2 DEF Rows, MaySee
<1>2. ASSUME NEW s \in Slots, NEW k \in Hunters, NEW x \in Media, ReadImage(s, k, x)
      PROVE  MaySee(h, g, m)
  <2>1. k = h /\ guild[h] = g /\ x = m
    BY <1>2 DEF ReadImage, ReadAsset, ReadProof, Send
  <2>2. CASE ReadAsset(s, h, m)
    <3>1. Exists(m) /\ assets[m].mode # "proof" /\ MayReadAsset(h, m)
      BY <2>2 DEF ReadAsset
    <3> QED BY <1>0, <3>1 DEF Rows, MaySee, MayReadAsset
  <2>3. CASE ReadProof(s, h, m)
    BY <2>1, <2>3 DEF ReadProof, MaySee
  <2> QED BY <1>2, <2>1, <2>2, <2>3 DEF ReadImage
<1>3. ASSUME NEW s \in Slots, Acts(s), ~FetchServe(s),
             ~ \E k \in Hunters, x \in Media : ReadImage(s, k, x)
      PROVE  UNCHANGED seenBy
  <2>1. ASSUME NEW k \in Hunters, NEW x \in Media,
               \/ \E ready \in BOOLEAN : UploadVault(s, k, x, ready)
               \/ \E r \in Hunters, ttl \in OnceTtls : SendOnce(s, k, r, x, ttl)
               \/ UploadProof(s, k, x)
        PROVE  UNCHANGED seenBy
    BY <2>1 DEF UploadVault, SendOnce, UploadProof, history
  <2>2. ASSUME NEW x \in Media, BeginOpen(s, x) \/ BeginFetch(s, x) \/ ExportMark(s, x)
        PROVE  UNCHANGED seenBy
    BY <2>2 DEF BeginOpen, BeginFetch, ExportMark, history
  <2>3. ASSUME \/ InsertAsset(s) \/ InsertDelivery(s) \/ InsertProof(s) \/ ProofRefused(s)
               \/ FetchWrite(s) \/ Drop(s) \/ \E token \in Tokens : OpenWrite(s, token)
        PROVE  UNCHANGED seenBy
    BY <2>3 DEF InsertAsset, InsertDelivery, InsertProof, ProofRefused, FetchWrite, Drop,
       OpenWrite, history
  <2>4. ASSUME NEW k \in Hunters, NEW chosen \in SUBSET Media, CreateExport(s, k, chosen)
        PROVE  UNCHANGED seenBy
    BY <2>4 DEF CreateExport, history
  <2> QED BY <1>3, <2>1, <2>2, <2>3, <2>4 DEF Acts
<1> QED BY <1>1, <1>2, <1>3, NextActs DEF vars, history, Tick, Move, ChangeGuild

\* Rows keep their owner, guild, mode and recipient, so who could see an image still may.
LEMMA SeenStep == TypeInv /\ UploadInv /\ SeenInv /\ [Next]_vars => SeenInv'
<1> SUFFICES ASSUME TypeInv, UploadInv, SeenInv, [Next]_vars,
                    NEW h \in Hunters, NEW g \in Guilds, NEW m \in Media,
                    <<h, g, m>> \in seenBy'
             PROVE  MaySee(h, g, m)'
  BY DEF SeenInv
<1>1. MaySee(h, g, m)
  BY NewViewers DEF SeenInv
<1> QED BY <1>1, RowsKeep DEF MaySee

\* A vault image reaches only its owner and friends of its owner, a one-time image only its
\* sender and the friend it was sent to, the proof of a habit only hunters who are then in
\* the guild it was uploaded for.
THEOREM ImagesReachEntitled == Spec => []OnlyEntitledSee
<1>1. Init => TypeInv /\ UploadInv /\ SeenInv
  BY TypeInit, AccountInit DEF Init, SeenInv
<1>2. TypeInv /\ UploadInv /\ SeenInv /\ [Next]_vars => (TypeInv /\ UploadInv /\ SeenInv)'
  BY TypeStep, UploadStep, SeenStep
<1>3. SeenInv => OnlyEntitledSee
  BY DEF SeenInv, MaySee, OnlyEntitledSee
<1> QED BY <1>1, <1>2, <1>3, PTL DEF Spec

-------------------------------------------------------------------------------
(* Opening and fetching.                                                   *)

\* How a handler comes to open, fetch or serve a delivery
LEMMA HowViewing ==
  ASSUME TypeInv, NEW s \in Slots, Acts(s)
  PROVE  /\ At(s, "open_write")' => \E m \in Media : BeginOpen(s, m)
         /\ At(s, "fetch_write")' => \E m \in Media : BeginFetch(s, m)
         /\ At(s, "fetch_serve")' => FetchWrite(s)
<1>0. task \in [Slots -> Task] /\ task[s] \in Task
  BY DEF TypeInv
<1>1. ASSUME NEW h \in Hunters, NEW m \in Media,
             \/ \E ready \in BOOLEAN : UploadVault(s, h, m, ready)
             \/ \E r \in Hunters, ttl \in OnceTtls : SendOnce(s, h, r, m, ttl)
             \/ UploadProof(s, h, m)
             \/ ReadImage(s, h, m)
      PROVE  task'[s].at \in {"idle", "insert_asset", "insert_proof"}
  <2>1. ASSUME NEW ready \in BOOLEAN, UploadVault(s, h, m, ready)
        PROVE  task'[s].at = "insert_asset"
    BY <1>0, <2>1 DEF UploadVault, Begin
  <2>2. ASSUME NEW r \in Hunters, NEW ttl \in OnceTtls, SendOnce(s, h, r, m, ttl)
        PROVE  task'[s].at = "insert_asset"
    BY <1>0, <2>2 DEF SendOnce, Begin
  <2>3. ASSUME UploadProof(s, h, m) PROVE task'[s].at = "insert_proof"
    BY <1>0, <2>3 DEF UploadProof, Begin
  <2>4. ASSUME ReadImage(s, h, m) PROVE task'[s].at = "idle"
    BY <1>0, <2>4 DEF ReadImage, ReadAsset, ReadProof, Send, Once, Idle
  <2> QED BY <1>1, <2>1, <2>2, <2>3, <2>4
<1>2. ASSUME \/ InsertDelivery(s) \/ InsertProof(s) \/ ProofRefused(s) \/ FetchServe(s) \/ Drop(s)
             \/ \E token \in Tokens : OpenWrite(s, token)
      PROVE  task'[s].at = "idle"
  <2>1. Answer(s)
    BY <1>2 DEF InsertDelivery, InsertProof, ProofRefused, FetchServe, Drop, OpenWrite, Abandon
  <2> QED BY <1>0, <2>1 DEF Answer, Continue, Idle
<1>3. ASSUME InsertAsset(s) PROVE task'[s].at \in {"idle", "insert_delivery"}
  <2>1. CASE task[s].asset.mode = "once"
    <3>1. task'[s] = [task[s] EXCEPT !.at = "insert_delivery"]
      BY <1>0, <1>3, <2>1 DEF InsertAsset, Continue
    <3>2. task[s] \in OnceUpload
      BY <1>0, <1>3, <2>1, TaskKinds DEF InsertAsset, At
    <3> QED BY <3>1, <3>2 DEF OnceUpload
  <2>2. CASE task[s].asset.mode # "once"
    BY <1>0, <1>3, <2>2 DEF InsertAsset, Answer, Continue, Idle
  <2> QED BY <2>1, <2>2
<1>4. ASSUME NEW m \in Media, ExportMark(s, m) PROVE task'[s].at \in {"idle", "export_mark"}
  <2>1. task[s] \in Marking
    BY <1>0, <1>4, TaskKinds DEF ExportMark, At
  <2>2. CASE task[s].todo \ {m} = {}
    BY <1>0, <1>4, <2>2 DEF ExportMark, Answer, Continue, Idle
  <2>3. CASE task[s].todo \ {m} # {}
    <3>1. task'[s] = [task[s] EXCEPT !.todo = task[s].todo \ {m}]
      BY <1>0, <1>4, <2>3 DEF ExportMark, Continue
    <3> QED BY <2>1, <3>1 DEF Marking
  <2> QED BY <2>2, <2>3
<1>5. ASSUME NEW h \in Hunters, NEW chosen \in SUBSET Media, CreateExport(s, h, chosen)
      PROVE  task'[s].at = "export_mark"
  BY <1>0, <1>5 DEF CreateExport, Begin
<1>6. ASSUME NEW m \in Media, BeginOpen(s, m) PROVE task'[s].at = "open_write"
  BY <1>0, <1>6 DEF BeginOpen, Begin
<1>7. ASSUME NEW m \in Media, BeginFetch(s, m) PROVE task'[s].at = "fetch_write"
  BY <1>0, <1>7 DEF BeginFetch, Begin
<1>8. ASSUME FetchWrite(s) PROVE task'[s].at = "fetch_serve"
  BY <1>0, <1>8 DEF FetchWrite, Continue
<1> QED BY <1>1, <1>2, <1>3, <1>4, <1>5, <1>6, <1>7, <1>8 DEF Acts, At

\* The statements that write a delivery, and the row each leaves
LEMMA DeliveryWrites ==
  ASSUME TypeInv, UploadInv, [Next]_vars, NEW m \in Media
  PROVE  \/ deliveries'[m] = deliveries[m]
         \/ \E s \in Slots :
              /\ InsertDelivery(s) /\ ~Sent(m)
              /\ ~deliveries'[m].consumed /\ deliveries'[m].token = Null
         \/ \E s \in Slots, token \in Tokens :
              /\ OpenWrite(s, token) /\ task[s].media = m /\ Sent(m)
              /\ deliveries'[m].consumed = deliveries[m].consumed
              /\ deliveries'[m].tokenExpires = task[s].time + TokenTtl
         \/ \E s \in Slots :
              /\ FetchWrite(s) /\ task[s].media = m /\ Sent(m)
              /\ deliveries'[m].consumed /\ deliveries'[m].token = Null
<1>0. task \in [Slots -> Task]
  BY DEF TypeInv
<1>1. ASSUME NEW s \in Slots, InsertDelivery(s)
      PROVE  \/ deliveries'[m] = deliveries[m]
             \/ ~Sent(m) /\ ~deliveries'[m].consumed /\ deliveries'[m].token = Null
  <2>1. CASE m = task[s].media
    <3>1. ~Sent(m)
      BY <1>1, <2>1 DEF InsertDelivery, At, Uploading, UploadInv, UploadTask
    <3>2. deliveries'[m] = [sender |-> task[s].asset.owner, recipient |-> task[s].recipient,
            opened |-> FALSE, consumed |-> FALSE, expires |-> task[s].expires,
            token |-> Null, tokenExpires |-> 0]
      BY <1>1, <2>1 DEF InsertDelivery, TypeInv
    <3> QED BY <3>1, <3>2
  <2>2. CASE m # task[s].media
    BY <1>1, <2>2 DEF InsertDelivery, TypeInv
  <2> QED BY <2>1, <2>2
<1>2. ASSUME NEW s \in Slots, NEW token \in Tokens, OpenWrite(s, token)
      PROVE  \/ deliveries'[m] = deliveries[m]
             \/ /\ task[s].media = m /\ Sent(m)
                /\ deliveries'[m].consumed = deliveries[m].consumed
                /\ deliveries'[m].tokenExpires = task[s].time + TokenTtl
  <2>1. CASE m = task[s].media
    <3>1. Sent(m)
      BY <1>2, <2>1 DEF OpenWrite, At, TypeInv, HoldsRows
    <3>2. deliveries[m] \in Delivery
      BY <3>1, RowTypes
    <3>3. deliveries'[m] = [deliveries[m] EXCEPT !.opened = TRUE, !.token = token,
                              !.tokenExpires = task[s].time + TokenTtl]
      BY <1>2, <2>1 DEF OpenWrite, TypeInv
    <3> QED BY <2>1, <3>1, <3>2, <3>3 DEF Delivery
  <2>2. CASE m # task[s].media
    BY <1>2, <2>2 DEF OpenWrite, TypeInv
  <2> QED BY <2>1, <2>2
<1>3. ASSUME NEW s \in Slots, FetchWrite(s)
      PROVE  \/ deliveries'[m] = deliveries[m]
             \/ /\ task[s].media = m /\ Sent(m)
                /\ deliveries'[m].consumed /\ deliveries'[m].token = Null
  <2>1. CASE m = task[s].media
    <3>1. Sent(m)
      BY <1>3, <2>1 DEF FetchWrite, At, TypeInv, HoldsRows
    <3>2. deliveries[m] \in Delivery
      BY <3>1, RowTypes
    <3>3. deliveries'[m] = [deliveries[m] EXCEPT !.opened = TRUE, !.consumed = TRUE,
                              !.token = Null, !.tokenExpires = 0]
      BY <1>3, <2>1 DEF FetchWrite, TypeInv
    <3> QED BY <2>1, <3>1, <3>2, <3>3 DEF Delivery
  <2>2. CASE m # task[s].media
    BY <1>3, <2>2 DEF FetchWrite, TypeInv
  <2> QED BY <2>1, <2>2
<1>4. CASE UNCHANGED deliveries
  BY <1>4
<1> QED BY <1>1, <1>2, <1>3, <1>4, NextActs, WhoWrites DEF vars, rowVars, Tick, Move,
   ChangeGuild

-------------------------------------------------------------------------------
(* Views in time.                                                          *)

\* A token is opened before the delivery expires and lives for TokenTtl.
ExpiryInv ==
  /\ \A m \in Media : Sent(m) /\ deliveries[m].token # Null =>
       deliveries[m].tokenExpires < deliveries[m].expires + TokenTtl
  /\ \A s \in Slots : At(s, "open_write") =>
       task[s].time < deliveries[task[s].media].expires
  /\ NoViewAfterExpiry

\* Every step keeps the bound on late views.
LEMMA ExpiryStep == TypeInv /\ UploadInv /\ ExpiryInv /\ [Next]_vars => ExpiryInv'
<1> SUFFICES ASSUME TypeInv, UploadInv, ExpiryInv, [Next]_vars PROVE ExpiryInv'
  OBVIOUS
<1>0. task \in [Slots -> Task]
  BY DEF TypeInv
<1>1. ASSUME NEW m \in Media, Sent(m)', deliveries'[m].token # Null
      PROVE  deliveries'[m].tokenExpires < deliveries'[m].expires + TokenTtl
  <2>1. CASE deliveries'[m] = deliveries[m]
    BY <1>1, <2>1 DEF ExpiryInv, Sent
  <2>2. ASSUME NEW s \in Slots, NEW token \in Tokens, OpenWrite(s, token), task[s].media = m,
               Sent(m), deliveries'[m].tokenExpires = task[s].time + TokenTtl
        PROVE  deliveries'[m].tokenExpires < deliveries'[m].expires + TokenTtl
    <3>1. task[s] \in Opening
      BY <1>0, <2>2, TaskKinds DEF OpenWrite, At
    <3>2. task[s].time < deliveries[m].expires
      BY <2>2 DEF OpenWrite, ExpiryInv
    <3>3. deliveries[m] \in Delivery /\ deliveries'[m].expires = deliveries[m].expires
      BY <2>2, RowTypes, RowsKeep
    <3>4. PICK t \in Nat : t = task[s].time
      BY <3>1 DEF Opening
    <3>5. PICK e \in Nat : e = deliveries[m].expires
      BY <3>3 DEF Delivery
    <3>6. t + TokenTtl < e + TokenTtl
      BY <3>2, <3>4, <3>5, MediaAssumption
    <3> QED BY <2>2, <3>3, <3>4, <3>5, <3>6
  <2> QED BY <1>1, <2>1, <2>2, DeliveryWrites
<1>2. ASSUME NEW s \in Slots, At(s, "open_write")'
      PROVE  task'[s].time < deliveries'[task'[s].media].expires
  <2>1. CASE task'[s] = task[s]
    <3>1. /\ task[s].time < deliveries[task[s].media].expires
          /\ Sent(task[s].media) /\ task[s].media \in Media
      BY <1>0, <1>2, <2>1, TaskMedia DEF ExpiryInv, At, TypeInv, HoldsRows
    <3> QED BY <2>1, <3>1, RowsKeep
  <2>2. CASE Acts(s)
    <3>1. PICK m \in Media : BeginOpen(s, m)
      BY <1>2, <2>2, HowViewing
    <3>2. task'[s] = [at |-> "open_write", media |-> m, consumed |-> FALSE, time |-> now]
      BY <1>0, <3>1 DEF BeginOpen, Begin
    <3>3. deliveries' = deliveries /\ Sent(m) /\ deliveries[m].expires > now
      BY <3>1 DEF BeginOpen, rowVars
    <3>4. deliveries[m] \in Delivery
      BY <3>3, RowTypes
    <3>5. PICK e \in Nat : e = deliveries[m].expires
      BY <3>4 DEF Delivery
    <3>6. now < e
      BY <3>3, <3>5 DEF TypeInv
    <3> QED BY <3>2, <3>3, <3>5, <3>6
  <2> QED BY <2>1, <2>2, OthersWait, NextActs DEF vars, handlerVars, Tick, Move, ChangeGuild
<1>3. ASSUME NEW s \in Slots, At(s, "fetch_write")'
      PROVE  task'[s].time < deliveries'[task'[s].media].expires + TokenTtl
  <2>1. CASE task'[s] = task[s]
    <3>1. /\ task[s].time < deliveries[task[s].media].expires + TokenTtl
          /\ Sent(task[s].media) /\ task[s].media \in Media
      BY <1>0, <1>3, <2>1, TaskMedia DEF ExpiryInv, NoViewAfterExpiry, At, TypeInv, HoldsRows
    <3> QED BY <2>1, <3>1, RowsKeep
  <2>2. CASE Acts(s)
    <3>1. PICK m \in Media : BeginFetch(s, m)
      BY <1>3, <2>2, HowViewing
    <3>2. task'[s] = [at |-> "fetch_write", media |-> m, token |-> deliveries[m].token,
                      consumed |-> deliveries[m].consumed, time |-> now]
      BY <1>0, <3>1 DEF BeginFetch, Begin
    <3>3. /\ deliveries' = deliveries /\ Sent(m) /\ deliveries[m].tokenExpires > now
          /\ deliveries[m].token # Null
      BY <3>1 DEF BeginFetch, rowVars
    <3>4. deliveries[m] \in Delivery
      BY <3>3, RowTypes
    <3>5. deliveries[m].tokenExpires < deliveries[m].expires + TokenTtl
      BY <3>3 DEF ExpiryInv
    <3>6. PICK e \in Nat : e = deliveries[m].expires
      BY <3>4 DEF Delivery
    <3>7. PICK x \in Nat : x = deliveries[m].tokenExpires
      BY <3>4 DEF Delivery
    <3>8. now < e + TokenTtl
      BY <3>3, <3>5, <3>6, <3>7, MediaAssumption DEF TypeInv
    <3> QED BY <3>2, <3>3, <3>6, <3>8
  <2> QED BY <2>1, <2>2, OthersWait, NextActs DEF vars, handlerVars, Tick, Move, ChangeGuild
<1> QED BY <1>1, <1>2, <1>3 DEF ExpiryInv, NoViewAfterExpiry

\* A view starts at the latest as long after the expiry as a token lives.
THEOREM ViewsAreTimely == Spec => []NoViewAfterExpiry
<1>1. Init => TypeInv /\ UploadInv /\ ExpiryInv
  BY TypeInit, AccountInit DEF Init, HandlersInit, Idle, At, Sent, ExpiryInv, NoViewAfterExpiry
<1>2. TypeInv /\ UploadInv /\ ExpiryInv /\ [Next]_vars => (TypeInv /\ UploadInv /\ ExpiryInv)'
  BY TypeStep, UploadStep, ExpiryStep
<1>3. ExpiryInv => NoViewAfterExpiry
  BY DEF ExpiryInv
<1> QED BY <1>1, <1>2, <1>3, PTL DEF Spec

-------------------------------------------------------------------------------
(* View-once: a delivery is consumed before it is served, so that at most one    *)
(* handler serves it, if nobody writes it from a stale read.                     *)

View(m) ==
  IF Sent(m) /\ deliveries[m].consumed
  THEN /\ deliveries[m].token = Null
       /\ \/ served[m] \in {0, 1} /\ Serving(m) = {}
          \/ served[m] = 0 /\ \E s \in Slots : Serving(m) = {s}
  ELSE served[m] = 0 /\ Serving(m) = {}

ViewInv ==
  /\ \A m \in Media \ contested : View(m)
  /\ \A s \in Slots : At(s, "fetch_write") /\ task[s].consumed => task[s].media \in contested

\* A fetch is served by the handler that has consumed the delivery, and ends.
LEMMA ServingStep ==
  ASSUME TypeInv, [Next]_vars, NEW m \in Media
  PROVE  \/ Serving(m)' = Serving(m) /\ served'[m] = served[m]
         \/ /\ \E s \in Slots : /\ FetchWrite(s) /\ task[s].media = m
                                /\ Serving(m)' = Serving(m) \cup {s}
            /\ served'[m] = served[m]
         \/ /\ \E s \in Serving(m) : Serving(m)' = Serving(m) \ {s}
            /\ served'[m] \in {served[m], served[m] + 1}
            /\ UNCHANGED deliveries
<1>0. task \in [Slots -> Task] /\ served \in [Media -> Nat]
  BY DEF TypeInv
<1>1. ASSUME UNCHANGED <<task, served>>
      PROVE  Serving(m)' = Serving(m) /\ served'[m] = served[m]
  BY <1>1 DEF Serving, At
<1>2. ASSUME NEW s \in Slots, Acts(s), ~FetchServe(s) PROVE UNCHANGED served
  <2>1. ASSUME NEW h \in Hunters, NEW x \in Media,
               \/ \E ready \in BOOLEAN : UploadVault(s, h, x, ready)
               \/ \E r \in Hunters, ttl \in OnceTtls : SendOnce(s, h, r, x, ttl)
               \/ UploadProof(s, h, x) \/ ReadImage(s, h, x)
        PROVE  UNCHANGED served
    BY <2>1 DEF UploadVault, SendOnce, UploadProof, ReadImage, ReadAsset, ReadProof, Send,
       history
  <2>2. ASSUME NEW x \in Media, BeginOpen(s, x) \/ BeginFetch(s, x) \/ ExportMark(s, x)
        PROVE  UNCHANGED served
    BY <2>2 DEF BeginOpen, BeginFetch, ExportMark, history
  <2>3. ASSUME \/ InsertAsset(s) \/ InsertDelivery(s) \/ InsertProof(s) \/ ProofRefused(s)
               \/ FetchWrite(s) \/ Drop(s) \/ \E token \in Tokens : OpenWrite(s, token)
        PROVE  UNCHANGED served
    BY <2>3 DEF InsertAsset, InsertDelivery, InsertProof, ProofRefused, FetchWrite, Drop,
       OpenWrite, history
  <2>4. ASSUME NEW h \in Hunters, NEW chosen \in SUBSET Media, CreateExport(s, h, chosen)
        PROVE  UNCHANGED served
    BY <2>4 DEF CreateExport, history
  <2> QED BY <1>2, <2>1, <2>2, <2>3, <2>4 DEF Acts
<1>3. ASSUME NEW s \in Slots, Acts(s) PROVE \A r \in Slots \ {s} : r \in Serving(m)' <=> r \in Serving(m)
  BY <1>3, OthersWait DEF Serving, At
<1>4. ASSUME NEW s \in Slots, Acts(s), s \notin Serving(m), s \notin Serving(m)'
      PROVE  Serving(m)' = Serving(m) /\ served'[m] = served[m]
  <2>1. Serving(m)' = Serving(m)
    BY <1>3, <1>4 DEF Serving
  <2>2. CASE FetchServe(s)
    <3>1. task[s].media # m
      BY <1>4, <2>2 DEF FetchServe, Serving
    <3> QED BY <1>0, <2>1, <2>2, <3>1 DEF FetchServe
  <2> QED BY <1>2, <1>4, <2>1, <2>2
<1>5. ASSUME NEW s \in Slots, Acts(s), s \notin Serving(m), s \in Serving(m)'
      PROVE  /\ FetchWrite(s) /\ task[s].media = m
             /\ Serving(m)' = Serving(m) \cup {s} /\ served'[m] = served[m]
  <2>1. FetchWrite(s)
    BY <1>5, HowViewing DEF Serving, At
  <2>2. task'[s].media = task[s].media /\ UNCHANGED served
    BY <1>0, <2>1 DEF FetchWrite, Continue
  <2>3. Serving(m)' = Serving(m) \cup {s}
    BY <1>3, <1>5 DEF Serving
  <2>4. task[s].media = m
    BY <1>5, <2>2 DEF Serving
  <2> QED BY <2>1, <2>2, <2>3, <2>4
<1>6. ASSUME NEW s \in Slots, Acts(s), s \in Serving(m)
      PROVE  /\ Serving(m)' = Serving(m) \ {s} /\ UNCHANGED deliveries
             /\ served'[m] \in {served[m], served[m] + 1}
  <2>1. task[s].at = "fetch_serve" /\ task[s].media = m
    BY <1>6 DEF Serving, At
  <2>2. FetchServe(s) \/ Drop(s)
    <3>1. ASSUME \/ \E h \in Hunters, x \in Media :
                    \/ \E ready \in BOOLEAN : UploadVault(s, h, x, ready)
                    \/ \E r \in Hunters, ttl \in OnceTtls : SendOnce(s, h, r, x, ttl)
                    \/ UploadProof(s, h, x) \/ ReadImage(s, h, x)
               \/ \E x \in Media : BeginOpen(s, x) \/ BeginFetch(s, x)
               \/ \E h \in Hunters, chosen \in SUBSET Media : CreateExport(s, h, chosen)
          PROVE  FALSE
      <4>1. task[s] = Idle
        BY <3>1 DEF UploadVault, SendOnce, UploadProof, ReadImage, ReadAsset, ReadProof,
           Send, BeginOpen, BeginFetch,
           CreateExport, Begin, Once
      <4> QED BY <2>1, <4>1 DEF Idle
    <3>2. ASSUME \/ InsertAsset(s) \/ InsertDelivery(s) \/ InsertProof(s) \/ ProofRefused(s)
                 \/ FetchWrite(s) \/ \E token \in Tokens : OpenWrite(s, token)
                 \/ \E x \in Media : ExportMark(s, x)
          PROVE  FALSE
      BY <2>1, <3>2 DEF InsertAsset, InsertDelivery, InsertProof, ProofRefused, FetchWrite,
         OpenWrite, ExportMark, At
    <3> QED BY <1>6, <3>1, <3>2 DEF Acts
  <2>3. task'[s] = Idle /\ UNCHANGED deliveries
    BY <1>0, <2>2 DEF FetchServe, Drop, Abandon, Answer, Continue, rowVars
  <2>4. s \notin Serving(m)'
    BY <2>3 DEF Serving, At, Idle
  <2>5. Serving(m)' = Serving(m) \ {s}
    BY <1>3, <1>6, <2>4 DEF Serving
  <2>6. served'[m] \in {served[m], served[m] + 1}
    BY <1>0, <2>1, <2>2 DEF FetchServe, Drop
  <2> QED BY <2>3, <2>5, <2>6
<1>7. ASSUME NEW s \in Slots, Acts(s)
      PROVE  \/ Serving(m)' = Serving(m) /\ served'[m] = served[m]
             \/ /\ FetchWrite(s) /\ task[s].media = m
                /\ Serving(m)' = Serving(m) \cup {s} /\ served'[m] = served[m]
             \/ /\ s \in Serving(m) /\ Serving(m)' = Serving(m) \ {s} /\ UNCHANGED deliveries
                /\ served'[m] \in {served[m], served[m] + 1}
  BY <1>4, <1>5, <1>6, <1>7
<1> QED BY <1>1, <1>7, NextActs DEF vars, history, handlerVars, Tick, Move, ChangeGuild

\* What is contested stays so, and a stale write makes it so.
LEMMA ContestedGrows ==
  ASSUME TypeInv, [Next]_vars
  PROVE  /\ contested \subseteq contested'
         /\ \A s \in Slots : FetchWrite(s) \/ (\E token \in Tokens : OpenWrite(s, token))
              => Stale(s) \subseteq contested'
<1>1. ASSUME NEW s \in Slots, FetchWrite(s) \/ \E token \in Tokens : OpenWrite(s, token)
      PROVE  contested' = contested \cup Stale(s)
  BY <1>1 DEF FetchWrite, OpenWrite
<1>2. ASSUME NEW s \in Slots, Acts(s),
             ~(FetchWrite(s) \/ \E token \in Tokens : OpenWrite(s, token))
      PROVE  UNCHANGED contested
  <2>1. ASSUME NEW h \in Hunters, NEW x \in Media,
               \/ \E ready \in BOOLEAN : UploadVault(s, h, x, ready)
               \/ \E r \in Hunters, ttl \in OnceTtls : SendOnce(s, h, r, x, ttl)
               \/ UploadProof(s, h, x) \/ ReadImage(s, h, x)
        PROVE  UNCHANGED contested
    BY <2>1 DEF UploadVault, SendOnce, UploadProof, ReadImage, ReadAsset, ReadProof, Send,
       history
  <2>2. ASSUME NEW x \in Media, BeginOpen(s, x) \/ BeginFetch(s, x) \/ ExportMark(s, x)
        PROVE  UNCHANGED contested
    BY <2>2 DEF BeginOpen, BeginFetch, ExportMark, history
  <2>3. ASSUME \/ InsertAsset(s) \/ InsertDelivery(s) \/ InsertProof(s) \/ ProofRefused(s)
               \/ FetchServe(s) \/ Drop(s)
        PROVE  UNCHANGED contested
    BY <2>3 DEF InsertAsset, InsertDelivery, InsertProof, ProofRefused, FetchServe, Drop,
       history
  <2>4. ASSUME NEW h \in Hunters, NEW chosen \in SUBSET Media, CreateExport(s, h, chosen)
        PROVE  UNCHANGED contested
    BY <2>4 DEF CreateExport, history
  <2> QED BY <1>2, <2>1, <2>2, <2>3, <2>4 DEF Acts
<1> QED BY <1>1, <1>2, NextActs DEF vars, history, Tick, Move, ChangeGuild

\* Every step keeps the count of the views.
LEMMA ViewStep == TypeInv /\ UploadInv /\ ViewInv /\ [Next]_vars => ViewInv'
<1> SUFFICES ASSUME TypeInv, UploadInv, ViewInv, [Next]_vars PROVE ViewInv'
  OBVIOUS
<1>0. task \in [Slots -> Task] /\ served \in [Media -> Nat] /\ contested \subseteq contested'
  BY ContestedGrows DEF TypeInv
<1>1. ASSUME NEW m \in Media \ contested' PROVE View(m)'
  <2>0. View(m) /\ m \notin contested
    BY <1>0, <1>1 DEF ViewInv
  <2>1. ASSUME NEW s \in Slots, FetchWrite(s), task[s].media = m, Sent(m),
               deliveries'[m].consumed, deliveries'[m].token = Null
        PROVE  View(m)'
    <3>1. ~task[s].consumed
      BY <2>0, <2>1 DEF FetchWrite, ViewInv
    <3>2. ~deliveries[m].consumed
      BY <1>1, <2>1, <3>1, ContestedGrows DEF Stale
    <3>3. served[m] = 0 /\ Serving(m) = {}
      BY <2>0, <3>2 DEF View
    <3>4. Sent(m)'
      BY <2>1, RowsKeep
    <3>5. served'[m] = 0 /\ (Serving(m)' = {} \/ \E r \in Slots : Serving(m)' = {r})
      BY <3>3, ServingStep
    <3> QED BY <2>1, <3>4, <3>5 DEF View
  <2>2. ASSUME NEW s \in Slots, NEW token \in Tokens, OpenWrite(s, token), task[s].media = m,
               Sent(m), deliveries'[m].consumed = deliveries[m].consumed
        PROVE  View(m)'
    <3>1. task[s] \in Opening
      BY <1>0, <2>2, TaskKinds DEF OpenWrite, At
    <3>2. ~deliveries[m].consumed
      BY <1>1, <2>2, <3>1, ContestedGrows DEF Stale, Opening
    <3>3. served[m] = 0 /\ Serving(m) = {}
      BY <2>0, <3>2 DEF View
    <3>4. left' = left /\ task' = [task EXCEPT ![s] = Idle] /\ UNCHANGED served
      BY <2>2 DEF OpenWrite, Answer, Continue
    <3>5. Serving(m)' = {}
      BY <1>0, <3>3, <3>4 DEF Serving, At, Idle
    <3> QED BY <2>2, <3>2, <3>3, <3>4, <3>5 DEF View
  <2>3. ASSUME NEW s \in Slots, InsertDelivery(s), ~Sent(m), ~deliveries'[m].consumed
        PROVE  View(m)'
    <3>1. served[m] = 0 /\ Serving(m) = {}
      BY <2>0, <2>3 DEF View
    <3>2. task' = [task EXCEPT ![s] = Idle] /\ UNCHANGED served
      BY <2>3 DEF InsertDelivery, Answer, Continue, history
    <3>3. Serving(m)' = {}
      BY <1>0, <3>1, <3>2 DEF Serving, At, Idle
    <3> QED BY <2>3, <3>1, <3>2, <3>3 DEF View
  <2>4. CASE deliveries'[m] = deliveries[m]
    <3>1. ASSUME NEW s \in Slots, FetchWrite(s), task[s].media = m PROVE View(m)'
      <4>1. Sent(m)
        BY <3>1 DEF FetchWrite, At, TypeInv, HoldsRows
      <4>2. deliveries[m] \in Delivery
        BY <4>1, RowTypes
      <4>3. deliveries'[m] = [deliveries[m] EXCEPT !.opened = TRUE, !.consumed = TRUE,
                                !.token = Null, !.tokenExpires = 0]
        BY <3>1 DEF FetchWrite, TypeInv
      <4>4. deliveries'[m].consumed /\ deliveries'[m].token = Null
        BY <4>2, <4>3 DEF Delivery
      <4> QED BY <2>1, <3>1, <4>1, <4>4
    <3>2. CASE Serving(m)' = Serving(m) /\ served'[m] = served[m]
      BY <2>0, <2>4, <3>2 DEF View, Sent
    <3>3. ASSUME NEW s \in Serving(m), Serving(m)' = Serving(m) \ {s},
                 served'[m] \in {served[m], served[m] + 1}
          PROVE  View(m)'
      <4>1. Sent(m) /\ deliveries[m].consumed /\ deliveries[m].token = Null /\ served[m] = 0
        BY <2>0, <3>3 DEF View
      <4>2. Serving(m) = {s}
        BY <2>0, <3>3 DEF View
      <4>3. Serving(m)' = {} /\ served'[m] \in {0, 1}
        BY <3>3, <4>1, <4>2
      <4> QED BY <2>4, <4>1, <4>3 DEF View, Sent
    <3> QED BY <3>1, <3>2, <3>3, ServingStep
  <2> QED BY <2>1, <2>2, <2>3, <2>4, DeliveryWrites
<1>2. ASSUME NEW s \in Slots, At(s, "fetch_write")', task'[s].consumed
      PROVE  task'[s].media \in contested'
  <2>1. CASE task'[s] = task[s]
    BY <1>0, <1>2, <2>1 DEF ViewInv, At
  <2>2. CASE Acts(s)
    <3>1. PICK m \in Media : BeginFetch(s, m)
      BY <1>2, <2>2, HowViewing
    <3>2. task'[s] = [at |-> "fetch_write", media |-> m, token |-> deliveries[m].token,
                      consumed |-> deliveries[m].consumed, time |-> now]
      BY <1>0, <3>1 DEF BeginFetch, Begin
    <3>3. Sent(m) /\ deliveries[m].token # Null /\ deliveries[m].consumed
      BY <1>2, <3>1, <3>2 DEF BeginFetch
    <3>4. m \in contested
      BY <3>3 DEF ViewInv, View
    <3> QED BY <1>0, <3>2, <3>4
  <2> QED BY <2>1, <2>2, OthersWait, NextActs DEF vars, handlerVars, Tick, Move, ChangeGuild
<1> QED BY <1>1, <1>2 DEF ViewInv

\* A delivery that no stale handler has written is served once, and not armed again.
THEOREM OneView == Spec => []ViewedOnce
<1>1. Init => TypeInv /\ UploadInv /\ ViewInv
  <2>1. Init => ViewInv
    BY DEF Init, HandlersInit, Idle, At, Sent, ViewInv, View, Serving
  <2> QED BY <2>1, TypeInit, AccountInit
<1>2. TypeInv /\ UploadInv /\ ViewInv /\ [Next]_vars => (TypeInv /\ UploadInv /\ ViewInv)'
  BY TypeStep, UploadStep, ViewStep
<1>3. ViewInv => ViewedOnce
  <2> SUFFICES ASSUME ViewInv, NEW m \in Media \ contested
               PROVE  /\ served[m] + Cardinality(Serving(m)) <= 1
                      /\ Sent(m) /\ deliveries[m].consumed => deliveries[m].token = Null
    BY DEF ViewedOnce
  <2>1. View(m)
    BY DEF ViewInv
  <2>2. \/ served[m] \in {0, 1} /\ Serving(m) = {}
        \/ served[m] = 0 /\ \E s \in Slots : Serving(m) = {s}
    BY <2>1 DEF View
  <2>3. served[m] + Cardinality(Serving(m)) <= 1
    <3>1. CASE served[m] \in {0, 1} /\ Serving(m) = {}
      <4>1. Cardinality(Serving(m)) = 0
        BY <3>1, FS_EmptySet
      <4> QED BY <3>1, <4>1
    <3>2. ASSUME served[m] = 0, NEW s \in Slots, Serving(m) = {s}
          PROVE  served[m] + Cardinality(Serving(m)) <= 1
      <4>1. Cardinality(Serving(m)) = 1
        BY <3>2, FS_Singleton
      <4> QED BY <3>2, <4>1
    <3> QED BY <2>2, <3>1, <3>2
  <2> QED BY <2>1, <2>3 DEF View
<1> QED BY <1>1, <1>2, <1>3, PTL DEF Spec

===============================================================================
