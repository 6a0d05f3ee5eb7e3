------------------------ MODULE SettingsStoreProofs ------------------------
(***************************************************************************)
(* What is proved of the settings store for every set of client names and  *)
(* every number of saves and stops.                                        *)
(***************************************************************************)
EXTENDS SettingsProperties, TLAPS

(***************************************************************************)
(* Documents.                                                              *)
(***************************************************************************)
LEMMA DocumentsDiffer ==
  /\ \A d \in Document : d # NoDocument /\ d # Absent /\ d # Torn
  /\ Absent # Torn
<1>1. \A d \in Document : "key" \in DOMAIN d
  BY DEF Document
<1>2. DOMAIN NoDocument = {"none"} /\ DOMAIN Absent = {"absent"}
      /\ DOMAIN Torn = {"torn"}
  BY DEF NoDocument, Absent, Torn
<1> QED BY <1>1, <1>2

LEMMA DefaultsTyped == Settings \in Document
<1>1. <<>> \in Clients
  BY DEF Clients, SeqOf
<1>2. 0 \in Key /\ 0 \in Put
  BY SettingsBounds DEF Key, Put
<1> QED BY <1>1, <1>2 DEF Settings, Document

LEMMA EffectiveTyped ==
  ASSUME SettingsTypeOK
  PROVE  load_settings \in Document /\ Effective \in Document
BY DefaultsTyped DEF SettingsTypeOK, load_settings, Effective

\* A save is what readers see at once.
LEMMA SavedIsEffective ==
  ASSUME NEW doc \in Document, save_settings(doc)
  PROVE  Effective' = doc
BY DocumentsDiffer DEF save_settings, Effective

\* What does not write leaves the document as it is.
LEMMA EffectiveStays ==
  ASSUME UNCHANGED <<file, pending>>
  PROVE  Effective' = Effective
BY DEF Effective, load_settings

\* The end of a write makes the document the file.
LEMMA WrittenKeeps ==
  ASSUME SettingsTypeOK, Written
  PROVE  Effective' = Effective
<1>1. pending \in Document
  BY DEF Written, SettingsTypeOK
<1> QED BY <1>1, DocumentsDiffer DEF Written, Effective, load_settings

\* A document with another source is a document.
LEMMA SourceTyped ==
  ASSUME NEW doc \in Document, NEW s \in BOOLEAN
  PROVE  [doc EXCEPT !.source = s] \in Document
BY DEF Document

\* The stored client an incoming one stands for is one of them.
LEMMA MatchTyped ==
  ASSUME NEW clients \in Typed, NEW stored \in Clients,
         NEW i \in DOMAIN clients,
         Match(clients, stored).of[i] # 0
  PROVE  Match(clients, stored).of[i] \in DOMAIN stored
<1>1. DOMAIN stored \in SUBSET {1, 2}
  BY DEF Clients, SeqOf
<1>2. \A c : StoredAs(c, stored) # 0 => StoredAs(c, stored) \in DOMAIN stored
  BY <1>1 DEF StoredAs
<1> DEFINE byName == [k \in DOMAIN clients |-> StoredAs(clients[k], stored)]
           new == {k \in DOMAIN clients : byName[k] = 0}
           old == DOMAIN stored \ {byName[k] : k \in DOMAIN clients}
           renamed == \E k \in new, j \in old : new = {k} /\ old = {j}
<1>3. Match(clients, stored).of[i]
        = IF renamed /\ i \in new THEN CHOOSE j \in old : TRUE ELSE byName[i]
  BY DEF Match
<1>4. renamed => (CHOOSE j \in old : TRUE) \in DOMAIN stored
  OBVIOUS
<1> QED BY <1>2, <1>3, <1>4

LEMMA PreservedTyped ==
  ASSUME NEW clients \in Typed, NEW stored \in Clients, puts + 1 \in Put
  PROVE  Preserved(clients, stored) \in Clients
<1>1. PICK m \in 0 .. 2 :
        clients \in [1 .. m -> [name : Names, secret : {0, puts + 1}]]
  BY DEF Typed, SeqOf
<1>2. 0 \in Put
  BY SettingsBounds DEF Put
<1>3. \A i \in 1 .. m : clients[i] \in DownloadClient
  BY <1>1, <1>2 DEF DownloadClient
<1>4. \A j \in DOMAIN stored : stored[j].secret \in Put
  BY DEF Clients, SeqOf, DownloadClient
<1>5. \A i \in 1 .. m, s \in Put :
        [clients[i] EXCEPT !.secret = s] \in DownloadClient
  BY <1>3 DEF DownloadClient
<1>6. \A i \in 1 .. m : Preserved(clients, stored)[i] \in DownloadClient
  BY <1>1, <1>3, <1>4, <1>5, MatchTyped DEF Preserved
<1>7. DOMAIN Preserved(clients, stored) = 1 .. m
  BY <1>1 DEF Preserved
<1>8. Preserved(clients, stored) \in [1 .. m -> DownloadClient]
  BY <1>6, <1>7 DEF Preserved
<1> QED BY <1>8 DEF Clients, SeqOf

(***************************************************************************)
(* The steps, as far as the invariants tell them apart.                    *)
(***************************************************************************)
\* What a user saves: a page with a new choice, or with a new key.
UserSaves ==
  \E page \in Shown, clients \in Typed,
     password \in BOOLEAN, regenerate \in BOOLEAN :
    put_settings(page, clients, password, regenerate)

\* A coroutine saves the document it kept.
KeptSaved ==
  /\ Serving /\ kept # Nobody
  /\ save_settings(kept.doc)
  /\ kept' = Nobody
  /\ UNCHANGED <<up, form, keys, puts, cut, stops>>

\* A recorder saves the document as it is but for the source.
RecordSaves ==
  /\ Serving
  /\ \E s \in BOOLEAN : save_settings([load_settings EXCEPT !.source = s])
  /\ UNCHANGED <<up, kept, form, keys, puts, cut, stops>>

\* Every start draws one key at most, and so does every PUT.
KeysDrawn == keys <= stops + puts + (IF up THEN 1 ELSE 0)

\* A PUT from a page: what it saves, and what it leaves.
PageSaves(page, doc) ==
  /\ save_settings(doc) /\ doc.choice = puts + 1
  /\ form[page] \in Document
  /\ \/ doc.key = form[page].key /\ keys' = keys
     \/ doc.key = keys + 1 /\ keys' = keys + 1
  /\ Serving /\ puts' = puts + 1 /\ puts + 1 \in Put /\ keys' \in Key
  /\ form' = [form EXCEPT ![page] = NoDocument]
  /\ UNCHANGED <<up, kept, cut, stops>>

LEMMA PutTyped ==
  ASSUME SettingsTypeOK, KeysDrawn, UserSaves
  PROVE  \E page \in Page, doc \in Document : PageSaves(page, doc)
<1>1. PICK page \in Shown, clients \in Typed,
           password \in BOOLEAN, regenerate \in BOOLEAN :
        put_settings(page, clients, password, regenerate)
  BY DEF UserSaves
<1>2. page \in Page /\ Serving /\ form[page] # NoDocument /\ puts < MaxPuts
  BY DEF Shown
<1>3. puts + 1 \in Put
  BY <1>2, SettingsBounds DEF SettingsTypeOK, Put
<1>4. keys \in Key /\ keys + 1 \in Key
  <2>1. keys \in Nat /\ puts \in Nat /\ stops \in Nat /\ stops <= MaxStops
    BY SettingsBounds DEF SettingsTypeOK, Key, Put
  <2> QED BY <1>2, <2>1, SettingsBounds DEF SettingsTypeOK, KeysDrawn, Key
<1>5. form[page] \in Document
  BY <1>2 DEF SettingsTypeOK
<1>6. load_settings \in Document
  BY EffectiveTyped
<1>7. Preserved(clients, load_settings.clients) \in Clients
  BY <1>3, <1>6, PreservedTyped DEF Document
<1>8. (IF password THEN puts + 1 ELSE load_settings.hash) \in Put
  BY <1>3, <1>6 DEF Document
<1> DEFINE hash == IF password THEN puts + 1 ELSE load_settings.hash
           held == Preserved(clients, load_settings.clients)
           key == IF regenerate THEN keys + 1 ELSE form[page].key
           doc == [form[page] EXCEPT !.key = key, !.choice = puts + 1,
                                     !.hash = hash, !.clients = held]
<1>9. save_settings(doc)
  BY <1>1, Zenon DEF put_settings
<1>10. key \in Key
  BY <1>4, <1>5 DEF Document
<1>11. hash \in Put /\ held \in Clients
  BY <1>7, <1>8
<1>12. doc \in Document /\ doc.choice = puts + 1 /\ doc.key = key
  <2> HIDE DEF hash, held, key
  <2> QED BY <1>3, <1>5, <1>10, <1>11 DEF Document
<1>13. \/ key = form[page].key /\ keys' = keys
       \/ key = keys + 1 /\ keys' = keys + 1
  BY <1>1 DEF put_settings
<1>14. /\ puts' = puts + 1 /\ form' = [form EXCEPT ![page] = NoDocument]
       /\ UNCHANGED <<up, kept, cut, stops>>
  BY <1>1 DEF put_settings
<1> HIDE DEF doc, key
<1> QED BY <1>2, <1>3, <1>4, <1>5, <1>9, <1>12, <1>13, <1>14 DEF PageSaves

LEMMA Moves ==
  ASSUME SettingsTypeOK, [SettingsNext]_settingsVars
  PROVE  \/ Written \/ WriteFails \/ Stop \/ Start
         \/ \E page \in Page : get_settings(page)
         \/ UserSaves \/ RecordSaves \/ KeptSaved
         \/ \E k \in Keeper : LoadAndAwait(k)
         \/ UNCHANGED settingsVars
<1>1. load_settings \in Document
  BY EffectiveTyped
<1>2. Record => RecordSaves
  <2>1. [load_settings EXCEPT !.source = load_settings.source] = load_settings
        /\ load_settings.source \in BOOLEAN
    BY <1>1 DEF Document
  <2> QED BY <2>1 DEF Record, RecordSaves, RecordScan, RecordRefresh,
          RecordSearch, RecordDelivery, RecordSource, add_goodreads_source,
          delete_goodreads_source
<1>3. check_for_updates \/ record_liberatarr_sync => KeptSaved
  BY DEF check_for_updates, record_liberatarr_sync, KeptSaved, Nobody
<1>4. PutSettings => UserSaves
  BY DEF PutSettings, UserSaves, regenerateApiKey
<1> QED BY <1>2, <1>3, <1>4 DEF SettingsNext

(***************************************************************************)
(* The invariant.                                                          *)
(***************************************************************************)
\* A file is torn only while it is written, or after a write was cut.
WritesInv ==
  /\ pending # NoDocument => file = Torn
  /\ ~cut /\ file = Torn => pending # NoDocument
  /\ kept # Nobody \/ pending # NoDocument => up

\* As long as no write was cut, whatever was loaded holds a key.
KeysInv ==
  ~cut =>
    /\ up \/ (\E page \in Page : form[page] # NoDocument)
         => Effective.key # 0
    /\ kept # Nobody => kept.doc.key # 0
    /\ \A page \in Page : form[page] # NoDocument => form[page].key # 0

\* No document is of a save that has not been made.
ChoicesInv ==
  /\ Effective.choice <= puts
  /\ kept # Nobody => kept.doc.choice <= puts

Inv == SettingsTypeOK /\ WritesInv /\ KeysInv /\ KeysDrawn /\ ChoicesInv

LEMMA InitInv == SettingsInit => Inv
<1> SUFFICES ASSUME SettingsInit PROVE Inv
  OBVIOUS
<1>1. Effective = Settings
  BY DEF SettingsInit, Effective, load_settings
<1>2. SettingsTypeOK
  <2>1. puts \in Put /\ stops \in 0 .. MaxStops /\ keys \in Key
    BY SettingsBounds DEF SettingsInit, Put, Key
  <2> QED BY <2>1, Zenon DEF SettingsInit, SettingsTypeOK
<1>3. WritesInv
  BY DocumentsDiffer DEF SettingsInit, WritesInv
<1>4. KeysInv /\ KeysDrawn /\ ChoicesInv
  BY <1>1 DEF SettingsInit, KeysInv, KeysDrawn, ChoicesInv, Settings
<1> QED BY <1>2, <1>3, <1>4 DEF Inv

LEMMA NextInv == Inv /\ [SettingsNext]_settingsVars => Inv'
<1> SUFFICES ASSUME Inv, [SettingsNext]_settingsVars PROVE Inv'
  OBVIOUS
<1> USE SettingsBounds
<1>0. load_settings \in Document /\ Effective \in Document /\ SettingsTypeOK
  BY EffectiveTyped DEF Inv
<1>a. KeysDrawn'
  <2>1. keys \in Nat /\ puts \in Nat /\ stops \in Nat
    BY <1>0 DEF SettingsTypeOK, Key, Put
  <2>2. CASE Written \/ WriteFails \/ Stop \/ Start \/ RecordSaves
             \/ KeptSaved \/ UNCHANGED settingsVars
    BY <2>1, <2>2 DEF Inv, KeysDrawn, Written, WriteFails, Stop, Start,
       RecordSaves, KeptSaved, settingsVars
  <2>3. CASE UserSaves
    BY <1>0, <2>1, <2>3, PutTyped DEF Inv, KeysDrawn, PageSaves
  <2>4. ASSUME NEW page \in Page, get_settings(page) PROVE KeysDrawn'
    BY <2>1, <2>4 DEF Inv, KeysDrawn, get_settings
  <2>5. ASSUME NEW k \in Keeper, LoadAndAwait(k) PROVE KeysDrawn'
    BY <2>1, <2>5 DEF Inv, KeysDrawn, LoadAndAwait
  <2> QED BY <1>0, <2>2, <2>3, <2>4, <2>5, Moves
<1>1. CASE Written
  <2>1. pending \in Document
    BY <1>0, <1>1 DEF Written, SettingsTypeOK
  <2>2. Effective' = Effective
    BY <1>1, <2>1, DocumentsDiffer DEF Written, Effective, load_settings
  <2> QED BY <1>0, <1>1, <1>a, <2>1, <2>2, DocumentsDiffer
          DEF Written, Inv, SettingsTypeOK, WritesInv, KeysInv, ChoicesInv
<1>2. CASE WriteFails
  <2>1. Effective' = Settings
    BY <1>2 DEF WriteFails, Inv, WritesInv, Effective, load_settings
  <2> QED BY <1>0, <1>2, <1>a, <2>1 DEF WriteFails, Inv, SettingsTypeOK, WritesInv,
          KeysInv, ChoicesInv, Settings, Put
<1>3. CASE Stop
  <2>0. SettingsTypeOK'
    <3>1. stops' \in 0 .. MaxStops
      BY <1>0, <1>3 DEF Stop, SettingsTypeOK
    <3>2. cut' \in BOOLEAN
      BY <1>3, Zenon DEF Stop
    <3> QED BY <1>0, <1>3, <3>1, <3>2, Zenon DEF Stop, SettingsTypeOK
  <2>1. CASE pending = NoDocument
    <3>1. Effective' = Effective
      BY <1>3, <2>1 DEF Stop, Effective, load_settings
    <3>2. WritesInv' /\ KeysInv' /\ ChoicesInv'
      BY <1>0, <1>3, <2>1, <3>1 DEF Stop, Inv, WritesInv, KeysInv, ChoicesInv
    <3> QED BY <1>a, <2>0, <3>2 DEF Inv
  <2>2. CASE pending # NoDocument
    <3>1. Effective' = Settings
      BY <1>3, <2>2 DEF Stop, Inv, WritesInv, Effective, load_settings
    <3>2. WritesInv' /\ KeysInv'
      BY <1>3, <2>2 DEF Stop, Inv, WritesInv, KeysInv
    <3>3. ChoicesInv'
      BY <1>0, <1>3, <3>1 DEF Stop, SettingsTypeOK, ChoicesInv, Settings, Put
    <3> QED BY <1>a, <2>0, <3>2, <3>3 DEF Inv
  <2> QED BY <2>1, <2>2
<1>4. CASE Start
  <2>0. load_settings = Effective
    BY <1>4 DEF Start, Inv, WritesInv, Effective
  <2>1. CASE load_settings.key = 0
    <3>0. keys \in Nat /\ keys + 1 \in Key
      <4>1. keys \in Nat /\ puts \in 0 .. MaxPuts /\ stops \in 0 .. MaxStops
        BY <1>0 DEF SettingsTypeOK, Key, Put
      <4>2. keys <= stops + puts
        BY <1>4, <4>1 DEF Start, Inv, KeysDrawn
      <4> QED BY <4>1, <4>2 DEF Key
    <3>1. [load_settings EXCEPT !.key = keys + 1] \in Document
      BY <1>0, <3>0 DEF Document
    <3>2. PICK doc \in Document :
            /\ save_settings(doc) /\ doc.key = keys + 1
            /\ doc.choice = load_settings.choice
      BY <1>0, <1>4, <2>1, <3>1 DEF Start, Document
    <3>3. Effective' = doc
      BY <3>2, SavedIsEffective
    <3>4. SettingsTypeOK'
      BY <1>0, <1>4, <2>1, <3>0, <3>2 DEF Start, save_settings, SettingsTypeOK
    <3>5. kept = Nobody
      BY <1>4, <2>1, <2>0 DEF Start, Inv, WritesInv, KeysInv
    <3>6. doc.key # 0
      BY <3>0, <3>2
    <3>7. WritesInv' /\ KeysInv'
      BY <1>4, <3>2, <3>3, <3>5, <3>6, DocumentsDiffer
      DEF Start, save_settings, Inv, WritesInv, KeysInv
    <3>8. ChoicesInv'
      BY <1>4, <2>0, <3>2, <3>3, <3>5 DEF Start, Inv, ChoicesInv
    <3> QED BY <1>a, <3>4, <3>7, <3>8 DEF Inv
  <2>2. CASE load_settings.key # 0
    <3>1. Effective' = Effective
      BY <1>4, <2>2, EffectiveStays DEF Start
    <3>2. SettingsTypeOK'
      BY <1>0, <1>4, <2>2 DEF Start, SettingsTypeOK
    <3>3. WritesInv' /\ KeysInv' /\ ChoicesInv'
      BY <1>4, <2>0, <2>2, <3>1
      DEF Start, Inv, WritesInv, KeysInv, ChoicesInv
    <3> QED BY <1>a, <3>2, <3>3 DEF Inv
  <2> QED BY <2>1, <2>2
<1>5. ASSUME NEW page \in Page, get_settings(page) PROVE Inv'
  <2> DEFINE shown == [load_settings EXCEPT !.choice = 0, !.hash = 0,
                                            !.clients = <<>>]
  <2>1. shown \in Document /\ shown.key = Effective.key
    <3>1. <<>> \in Clients /\ 0 \in Put
      BY DefaultsTyped DEF Settings, Document
    <3> QED BY <1>0, <1>5, <3>1 DEF get_settings, Serving, Effective, Document
  <2>2. Effective' = Effective
    BY <1>5, EffectiveStays DEF get_settings
  <2>3. form' = [form EXCEPT ![page] = shown]
    BY <1>5 DEF get_settings
  <2> HIDE DEF shown
  <2>4. SettingsTypeOK'
    BY <1>0, <1>5, <2>1, <2>3 DEF get_settings, SettingsTypeOK
  <2>5. KeysInv'
    <3>1. up /\ up' /\ cut' = cut /\ kept' = kept
      BY <1>5 DEF get_settings, Serving
    <3>2. \A p \in Page : form'[p] = IF p = page THEN shown ELSE form[p]
      BY <1>0, <2>3 DEF SettingsTypeOK
    <3> QED BY <2>1, <2>2, <3>1, <3>2 DEF Inv, KeysInv
  <2>6. WritesInv' /\ ChoicesInv'
    BY <1>5, <2>2 DEF get_settings, Inv, WritesInv, ChoicesInv
  <2> QED BY <1>a, <2>4, <2>5, <2>6 DEF Inv
<1>6. CASE UserSaves
  <2>1. PICK page \in Page, doc \in Document : PageSaves(page, doc)
    BY <1>0, <1>6, PutTyped DEF Inv
  <2>2. Effective' = doc
    BY <2>1, SavedIsEffective DEF PageSaves
  <2>3. SettingsTypeOK'
    BY <1>0, <2>1 DEF PageSaves, save_settings, SettingsTypeOK
  <2>4. WritesInv'
    BY <2>1, DocumentsDiffer DEF PageSaves, save_settings, Serving, Inv, WritesInv
  <2>5. KeysInv'
    <3>1. keys \in Nat /\ form[page] # NoDocument
      BY <1>0, <2>1, DocumentsDiffer DEF PageSaves, SettingsTypeOK, Key
    <3>2. ~cut => doc.key # 0
      BY <2>1, <3>1 DEF PageSaves, Inv, KeysInv
    <3>3. \A p \in Page : form'[p] # NoDocument => form'[p] = form[p]
      BY <1>0, <2>1 DEF PageSaves, SettingsTypeOK
    <3> QED BY <2>1, <2>2, <3>2, <3>3 DEF PageSaves, Inv, KeysInv
  <2>6. ChoicesInv'
    <3>1. puts \in Nat
      BY <1>0 DEF SettingsTypeOK, Put
    <3>2. kept # Nobody => kept.doc.choice \in Nat
      BY <1>0 DEF SettingsTypeOK, Document, Put
    <3> QED BY <2>1, <2>2, <3>1, <3>2 DEF PageSaves, Inv, ChoicesInv
  <2> QED BY <1>a, <2>3, <2>4, <2>5, <2>6 DEF Inv
<1>7. CASE RecordSaves
  <2>1. PICK doc \in Document :
          /\ save_settings(doc) /\ doc.key = Effective.key
          /\ doc.choice = Effective.choice
    BY <1>0, <1>7 DEF RecordSaves, Serving, Effective, Document
  <2>2. Effective' = doc
    BY <2>1, SavedIsEffective
  <2>3. SettingsTypeOK'
    BY <1>0, <1>7, <2>1 DEF RecordSaves, save_settings, SettingsTypeOK
  <2>4. WritesInv'
    BY <1>7, <2>1, DocumentsDiffer
    DEF RecordSaves, save_settings, Serving, Inv, WritesInv
  <2>5. KeysInv' /\ ChoicesInv'
    BY <1>7, <2>1, <2>2 DEF RecordSaves, Serving, Inv, KeysInv, ChoicesInv
  <2> QED BY <1>a, <2>3, <2>4, <2>5 DEF Inv
<1>8. CASE KeptSaved
  <2>1. kept.doc \in Document
    BY <1>0, <1>8 DEF KeptSaved, SettingsTypeOK
  <2>2. Effective' = kept.doc
    BY <1>8, <2>1, SavedIsEffective DEF KeptSaved
  <2> QED BY <1>0, <1>8, <1>a, <2>1, <2>2, DocumentsDiffer DEF KeptSaved,
          save_settings, Serving, Inv, SettingsTypeOK, WritesInv, KeysInv,
          ChoicesInv
<1>9. ASSUME NEW k \in Keeper, LoadAndAwait(k) PROVE Inv'
  <2>1. Effective' = Effective
    BY <1>9, EffectiveStays DEF LoadAndAwait
  <2>2. load_settings = Effective
    BY <1>9 DEF LoadAndAwait, Serving, Effective
  <2> QED BY <1>0, <1>9, <1>a, <2>1, <2>2 DEF LoadAndAwait, Serving, Inv,
          SettingsTypeOK, WritesInv, KeysInv, ChoicesInv
<1>10. CASE UNCHANGED settingsVars
  <2>1. Effective' = Effective
    BY <1>10, EffectiveStays DEF settingsVars
  <2> QED BY <1>10, <1>a, <2>1 DEF settingsVars, Inv, SettingsTypeOK, WritesInv,
          KeysInv, ChoicesInv
<1> QED BY <1>0, <1>1, <1>2, <1>3, <1>4, <1>5, <1>6, <1>7, <1>8, <1>9, <1>10,
        Moves

LEMMA InvAlways == Spec => []Inv
BY InitInv, NextInv, PTL DEF Spec

(***************************************************************************)
(* The theorems.                                                           *)
(***************************************************************************)
(* Every variable keeps its type: what is saved is a whole document.       *)
THEOREM TypeCorrect == Spec => []TypeOK
<1>1. Inv => TypeOK
  BY DEF Inv, TypeOK
<1> QED BY <1>1, InvAlways, PTL

(* A key is replaced by a new one only when a user regenerates it or a     *)
(* start finds none, and a replaced key comes back only from a document    *)
(* loaded before: in an open page, or in a coroutine in its await.         *)
THEOREM ReplacedKeyAlwaysStaysReplaced == Spec => ReplacedKeyStaysReplaced
<1>1. Inv /\ [SettingsNext]_settingsVars
        => [Effective'.key # Effective.key
              => \/ KeyDrawn \/ StalePageSaves \/ KeeperSaves
                 \/ cut' /\ file' = Torn]_settingsVars
  <2> SUFFICES ASSUME Inv, [SettingsNext]_settingsVars,
                      Effective'.key # Effective.key,
                      ~KeeperSaves, ~(cut' /\ file' = Torn)
               PROVE  KeyDrawn \/ StalePageSaves
    OBVIOUS
  <2>0. SettingsTypeOK /\ load_settings \in Document /\ Effective \in Document
    BY EffectiveTyped DEF Inv
  <2>1. ~Written
    BY <2>0, WrittenKeeps
  <2>2. ~WriteFails
    BY DEF WriteFails, Inv, WritesInv
  <2>3. ~Stop
    <3>1. CASE pending = NoDocument
      BY <3>1 DEF Stop, Effective, load_settings
    <3>2. CASE pending # NoDocument
      BY <3>2 DEF Stop, Inv, WritesInv
    <3> QED BY <3>1, <3>2
  <2>4. CASE Start
    <3>1. load_settings = Effective
      BY <2>4 DEF Start, Inv, WritesInv, Effective
    <3>2. load_settings.key = 0
      BY <2>4, EffectiveStays DEF Start
    <3>3. keys + 1 \in Key
      <4>1. keys \in Nat /\ puts \in 0 .. MaxPuts /\ stops \in 0 .. MaxStops
        BY <2>0, SettingsBounds DEF SettingsTypeOK, Key, Put
      <4>2. keys <= stops + puts
        BY <2>4, <4>1 DEF Start, Inv, KeysDrawn
      <4> QED BY <4>1, <4>2, SettingsBounds DEF Key
    <3>4. [load_settings EXCEPT !.key = keys + 1] \in Document
      BY <2>0, <3>3 DEF Document
    <3>5. Effective' = [load_settings EXCEPT !.key = keys + 1]
      BY <2>4, <3>2, <3>4, SavedIsEffective DEF Start
    <3>6. Effective'.key = keys' /\ keys' = keys + 1
      BY <2>0, <2>4, <3>2, <3>5 DEF Start, Document
    <3> QED BY <3>1, <3>2, <3>6 DEF KeyDrawn
  <2>5. ASSUME NEW page \in Page PROVE ~get_settings(page)
    BY EffectiveStays DEF get_settings
  <2>6. CASE UserSaves
    <3>1. PICK page \in Page, doc \in Document : PageSaves(page, doc)
      BY <2>0, <2>6, PutTyped DEF Inv
    <3>2. Effective' = doc
      BY <3>1, SavedIsEffective DEF PageSaves
    <3>3. CASE doc.key = form[page].key
      <4>1. form[page] # NoDocument /\ form'[page] = NoDocument
        BY <2>0, <3>1, DocumentsDiffer DEF PageSaves, SettingsTypeOK
      <4>2. form[page].key # 0 \/ cut
        BY <4>1 DEF Inv, KeysInv
      <4> QED BY <3>2, <3>3, <4>1, <4>2 DEF StalePageSaves
    <3>4. CASE doc.key = keys + 1 /\ keys' = keys + 1
      <4>1. puts' # puts
        BY <2>0, <3>1 DEF PageSaves, SettingsTypeOK, Put
      <4> QED BY <3>2, <3>4, <4>1 DEF KeyDrawn
    <3> QED BY <3>1, <3>3, <3>4 DEF PageSaves
  <2>7. ~RecordSaves
    <3> SUFFICES ASSUME RecordSaves PROVE FALSE
      OBVIOUS
    <3>1. PICK s \in BOOLEAN :
            save_settings([load_settings EXCEPT !.source = s])
      BY DEF RecordSaves
    <3>2. Effective' = [load_settings EXCEPT !.source = s]
      BY <2>0, <3>1, SourceTyped, SavedIsEffective
    <3>3. load_settings = Effective
      BY DEF RecordSaves, Serving, Effective
    <3> QED BY <2>0, <3>2, <3>3 DEF Document
  <2>8. ~KeptSaved
    BY DEF KeptSaved, KeeperSaves, Saved, Serving, save_settings
  <2>9. ASSUME NEW k \in Keeper PROVE ~LoadAndAwait(k)
    BY EffectiveStays DEF LoadAndAwait
  <2>10. ~UNCHANGED settingsVars
    BY EffectiveStays DEF settingsVars
  <2> QED BY <2>0, <2>1, <2>2, <2>3, <2>4, <2>5, <2>6, <2>7, <2>8, <2>9, <2>10,
          Moves
<1> QED BY <1>1, InvAlways, PTL DEF Spec, ReplacedKeyStaysReplaced

(* What a user saved is undone only by a coroutine that saves the document *)
(* it loaded before its await, or when a write is cut short.               *)
THEOREM ChoicesAlwaysKept == Spec => ChoicesUndoneOnlyByKeeper
<1>1. Inv /\ [SettingsNext]_settingsVars
        => [Undone => KeeperSaves \/ (cut' /\ file' = Torn)]_settingsVars
  <2> SUFFICES ASSUME Inv, [SettingsNext]_settingsVars,
                      ~KeeperSaves, ~(cut' /\ file' = Torn)
               PROVE  ~Undone
    OBVIOUS
  <2>0. SettingsTypeOK /\ load_settings \in Document /\ Effective \in Document
    BY EffectiveTyped DEF Inv
  <2>a. Effective.choice \in Nat
    BY <2>0 DEF Document, Put
  <2>b. ASSUME Effective' = Effective PROVE ~Undone
    BY <2>a, <2>b DEF Undone
  <2>1. CASE Written
    BY <2>0, <2>1, <2>b, WrittenKeeps
  <2>2. CASE WriteFails
    BY <2>2 DEF WriteFails, Inv, WritesInv
  <2>3. CASE Stop
    <3>1. CASE pending = NoDocument
      BY <2>3, <2>b, <3>1 DEF Stop, Effective, load_settings
    <3>2. CASE pending # NoDocument
      BY <2>3, <3>2 DEF Stop, Inv, WritesInv
    <3> QED BY <3>1, <3>2
  <2>4. CASE Start
    <3>1. load_settings = Effective
      BY <2>4 DEF Start, Inv, WritesInv, Effective
    <3>2. CASE load_settings.key = 0
      <4>1. keys + 1 \in Key
        <5>1. /\ keys \in Nat /\ puts \in 0 .. MaxPuts
              /\ stops \in 0 .. MaxStops
          BY <2>0, SettingsBounds DEF SettingsTypeOK, Key, Put
        <5>2. keys <= stops + puts
          BY <2>4, <5>1 DEF Start, Inv, KeysDrawn
        <5> QED BY <5>1, <5>2, SettingsBounds DEF Key
      <4>a. [load_settings EXCEPT !.key = keys + 1] \in Document
        BY <2>0, <4>1 DEF Document
      <4>2. Effective' = [load_settings EXCEPT !.key = keys + 1]
        BY <2>4, <3>2, <4>a, SavedIsEffective DEF Start
      <4>3. Effective'.choice = Effective.choice
            /\ Effective'.source = Effective.source
        BY <2>0, <3>1, <4>2 DEF Document
      <4> QED BY <2>a, <4>3 DEF Undone
    <3>3. CASE load_settings.key # 0
      BY <2>4, <2>b, <3>3, EffectiveStays DEF Start
    <3> QED BY <3>2, <3>3
  <2>5. ASSUME NEW page \in Page, get_settings(page) PROVE ~Undone
    BY <2>5, <2>b, EffectiveStays DEF get_settings
  <2>6. CASE UserSaves
    <3>1. PICK page \in Page, doc \in Document : PageSaves(page, doc)
      BY <2>0, <2>6, PutTyped DEF Inv
    <3>2. Effective'.choice = puts + 1 /\ puts' = puts + 1
      BY <3>1, SavedIsEffective DEF PageSaves
    <3>3. puts \in Nat /\ Effective.choice <= puts
      BY <2>0 DEF SettingsTypeOK, Put, Inv, ChoicesInv
    <3> QED BY <2>a, <3>1, <3>2, <3>3 DEF Undone
  <2>7. CASE RecordSaves
    <3>1. PICK s \in BOOLEAN :
            save_settings([load_settings EXCEPT !.source = s])
      BY <2>7 DEF RecordSaves
    <3>2. load_settings = Effective
      BY <2>7 DEF RecordSaves, Serving, Effective
    <3>3. Effective' = [Effective EXCEPT !.source = s]
      BY <2>0, <3>1, <3>2, SourceTyped, SavedIsEffective
    <3>4. Effective'.choice = Effective.choice
          /\ (~Effective'.source
                => Effective' = [Effective EXCEPT !.source = FALSE])
      BY <2>0, <3>3 DEF Document
    <3> QED BY <2>a, <3>4 DEF Undone
  <2>8. CASE KeptSaved
    BY <2>8 DEF KeptSaved, KeeperSaves, Saved, Serving, save_settings
  <2>9. ASSUME NEW k \in Keeper, LoadAndAwait(k) PROVE ~Undone
    BY <2>9, <2>b, EffectiveStays DEF LoadAndAwait
  <2>10. CASE UNCHANGED settingsVars
    BY <2>10, <2>b, EffectiveStays DEF settingsVars
  <2> QED BY <2>0, <2>1, <2>2, <2>3, <2>4, <2>5, <2>6, <2>7, <2>8, <2>9, <2>10,
          Moves
<1> QED BY <1>1, InvAlways, PTL DEF Spec, ChoicesUndoneOnlyByKeeper

(***************************************************************************)
(* What a PUT keeps of the secrets a page leaves blank.                    *)
(***************************************************************************)
\* The stored entry found under a name is one of that name, if there is one.
LEMMA StoredAsFound ==
  ASSUME NEW stored \in Clients, NEW c
  PROVE  /\ StoredAs(c, stored) # 0
              => /\ StoredAs(c, stored) \in DOMAIN stored
                 /\ stored[StoredAs(c, stored)].name = c.name
         /\ \A i \in DOMAIN stored :
              stored[i].name = c.name => StoredAs(c, stored) # 0
<1>1. DOMAIN stored \in SUBSET {1, 2}
  BY DEF Clients, SeqOf
<1> DEFINE same == {j \in DOMAIN stored : stored[j].name = c.name}
<1>2. ASSUME same # {}
      PROVE  \E j \in same : \A k \in same : k <= j
  <2>1. same \in SUBSET {1, 2}
    BY <1>1
  <2> HIDE DEF same
  <2>2. CASE 2 \in same
    BY <2>1, <2>2
  <2>3. CASE 2 \notin same
    <3>1. \A k \in same : k = 1
      BY <2>1, <2>3
    <3>2. 1 \in same
      BY <1>2, <3>1
    <3> QED BY <3>1, <3>2
  <2> QED BY <2>2, <2>3
<1>3. same # {} => StoredAs(c, stored) \in same
  <2>1. same # {}
          => StoredAs(c, stored)
               = CHOOSE j \in same : \A k \in same : k <= j
    BY DEF StoredAs
  <2> HIDE DEF same
  <2> QED BY <1>2, <2>1
<1>4. same = {} => StoredAs(c, stored) = 0
  BY DEF StoredAs
<1>5. 0 \notin same
  BY <1>1
<1> QED BY <1>3, <1>4, <1>5

\* Match, without the names its definition has for the parts.
LEMMA Matches ==
  ASSUME NEW clients \in Typed, NEW stored \in Clients,
         ~Match(clients, stored).would_lose
  PROVE  /\ \A i \in DOMAIN clients :
              StoredAs(clients[i], stored) # 0
                => Match(clients, stored).of[i] = StoredAs(clients[i], stored)
         /\ \A i \in DOMAIN clients, j \in DOMAIN stored :
              /\ StoredAs(clients[i], stored) = 0
              /\ \A k \in DOMAIN clients : StoredAs(clients[k], stored) # j
              => \/ Match(clients, stored).of[i] = j
                 \/ clients[i].secret # 0
                 \/ stored[j].secret = 0
<1> DEFINE byName == [k \in DOMAIN clients |-> StoredAs(clients[k], stored)]
           new == {k \in DOMAIN clients : byName[k] = 0}
           old == DOMAIN stored \ {byName[k] : k \in DOMAIN clients}
           renamed == \E k \in new, j \in old : new = {k} /\ old = {j}
<1>1. \A i \in DOMAIN clients :
        Match(clients, stored).of[i]
          = IF renamed /\ i \in new THEN CHOOSE j \in old : TRUE ELSE byName[i]
  BY DEF Match
<1>2. \/ renamed
      \/ \A i \in new, j \in old :
           clients[i].secret # 0 \/ stored[j].secret = 0
  BY DEF Match
<1>3. ASSUME NEW i \in DOMAIN clients, StoredAs(clients[i], stored) # 0
      PROVE  Match(clients, stored).of[i] = StoredAs(clients[i], stored)
  BY <1>1, <1>3
<1>4. ASSUME NEW i \in DOMAIN clients, NEW j \in DOMAIN stored,
             StoredAs(clients[i], stored) = 0,
             \A k \in DOMAIN clients : StoredAs(clients[k], stored) # j
      PROVE  \/ Match(clients, stored).of[i] = j
             \/ clients[i].secret # 0
             \/ stored[j].secret = 0
  <2>1. i \in new /\ j \in old
    BY <1>4
  <2>2. CASE renamed
    <3>1. old = {j}
      BY <2>1, <2>2
    <3>2. (CHOOSE l \in old : TRUE) = j
      BY <3>1
    <3> QED BY <1>1, <2>1, <2>2, <3>2
  <2>3. CASE ~renamed
    BY <1>2, <2>1, <2>3
  <2> QED BY <2>2, <2>3
<1> QED BY <1>3, <1>4

\* What is saved of an incoming client: its name, and the secret it has or
\* that of the client it stands for.
LEMMA PreservedNamesAndSecrets ==
  ASSUME NEW clients \in Typed, NEW stored \in Clients, puts \in Nat
  PROVE  /\ DOMAIN Preserved(clients, stored) = DOMAIN clients
         /\ \A i \in DOMAIN clients :
              LET c == Preserved(clients, stored)[i]
                  of == Match(clients, stored).of[i]
              IN /\ clients[i].secret \in {0, puts + 1}
                 /\ c.name = clients[i].name
                 /\ c.secret = IF clients[i].secret = 0 /\ of # 0
                                 THEN stored[of].secret ELSE clients[i].secret
<1>1. DOMAIN Preserved(clients, stored) = DOMAIN clients
  BY DEF Preserved
<1>2. ASSUME NEW i \in DOMAIN clients
      PROVE  clients[i] \in [name : Names, secret : {0, puts + 1}]
  BY DEF Typed, SeqOf
<1>3. ASSUME NEW i \in DOMAIN clients
      PROVE  Preserved(clients, stored)[i]
               = IF clients[i].secret = 0 /\ Match(clients, stored).of[i] # 0
                   THEN [clients[i] EXCEPT !.secret =
                           stored[Match(clients, stored).of[i]].secret]
                   ELSE clients[i]
  BY DEF Preserved
<1> QED BY <1>1, <1>2, <1>3

\* A PUT that is not refused keeps the secrets.
LEMMA PutKeepsSecrets ==
  ASSUME NEW clients \in Typed, NEW stored \in Clients, puts \in Nat,
         puts' = puts + 1, ~Match(clients, stored).would_lose,
         DistinctNames(stored)
  PROVE  /\ NoneDropped(stored, Preserved(clients, stored))
         /\ EachKeepsItsOwn(stored, Preserved(clients, stored))
<1> DEFINE saved == Preserved(clients, stored)
           of(i) == Match(clients, stored).of[i]
<1>1. /\ DOMAIN saved = DOMAIN clients
      /\ \A i \in DOMAIN clients :
           /\ clients[i].secret \in {0, puts + 1}
           /\ saved[i].name = clients[i].name
           /\ saved[i].secret = IF clients[i].secret = 0 /\ of(i) # 0
                                  THEN stored[of(i)].secret
                                  ELSE clients[i].secret
  BY PreservedNamesAndSecrets
<1>2. \A i \in DOMAIN clients :
        /\ StoredAs(clients[i], stored) # 0
             => /\ StoredAs(clients[i], stored) \in DOMAIN stored
                /\ stored[StoredAs(clients[i], stored)].name = clients[i].name
                /\ of(i) = StoredAs(clients[i], stored)
        /\ \A j \in DOMAIN stored :
             stored[j].name = clients[i].name
               => StoredAs(clients[i], stored) # 0
  BY StoredAsFound, Matches
<1>3. \A i \in DOMAIN clients, j \in DOMAIN stored :
        /\ StoredAs(clients[i], stored) = 0
        /\ \A k \in DOMAIN clients : StoredAs(clients[k], stored) # j
        => of(i) = j \/ clients[i].secret # 0 \/ stored[j].secret = 0
  BY Matches
<1>4. 0 \notin DOMAIN stored
  BY DEF Clients, SeqOf
<1> HIDE DEF saved, of
<1>5. NoneDropped(stored, saved)
  <2> SUFFICES ASSUME NEW j \in DOMAIN saved, saved[j].secret = 0,
                      saved[j].name \notin Named(stored),
                      NEW i \in DOMAIN stored,
                      stored[i].secret # 0
               PROVE  stored[i].name \in Named(saved)
    BY DEF NoneDropped
  <2>1. StoredAs(clients[j], stored) = 0
    BY <1>1, <1>2 DEF Named
  <2>2. clients[j].secret = 0
    BY <1>1
  <2>3. of(j) # i
    BY <1>1, <1>4, <2>2
  <2>4. PICK k \in DOMAIN clients : StoredAs(clients[k], stored) = i
    BY <1>1, <1>3, <2>1, <2>2, <2>3
  <2> QED BY <1>1, <1>2, <1>4, <2>4 DEF Named
<1>6. EachKeepsItsOwn(stored, saved)
  <2> SUFFICES ASSUME NEW i \in DOMAIN stored, NEW j \in DOMAIN saved,
                      stored[i].name = saved[j].name
               PROVE  saved[j].secret \in {stored[i].secret, puts'}
    BY DEF EachKeepsItsOwn
  <2>1. of(j) = i /\ of(j) # 0
    BY <1>1, <1>2, <1>4 DEF DistinctNames
  <2> QED BY <1>1, <2>1
<1> QED BY <1>5, <1>6 DEF saved

(* As long as names are distinct, a PUT with blank secrets leaves each     *)
(* client its own secret and drops none in favour of a blank one.          *)
THEOREM SecretsAlwaysKept == Spec => SecretsKept
<1>1. Inv /\ [SettingsNext]_settingsVars
        => [puts' # puts /\ DistinctNames(Effective.clients)
              /\ DistinctNames(pending'.clients)
              => /\ NoneDropped(Effective.clients, pending'.clients)
                 /\ EachKeepsItsOwn(Effective.clients, pending'.clients)
           ]_settingsVars
  <2> SUFFICES ASSUME Inv, [SettingsNext]_settingsVars, puts' # puts,
                      DistinctNames(Effective.clients)
               PROVE  /\ NoneDropped(Effective.clients, pending'.clients)
                      /\ EachKeepsItsOwn(Effective.clients, pending'.clients)
    OBVIOUS
  <2>0. SettingsTypeOK /\ load_settings \in Document
    BY EffectiveTyped DEF Inv
  <2>1. UserSaves
    BY <2>0, Moves DEF Written, WriteFails, Stop, Start, get_settings,
       RecordSaves, KeptSaved, LoadAndAwait, settingsVars
  <2>2. PICK page \in Shown, clients \in Typed,
             password \in BOOLEAN, regenerate \in BOOLEAN :
          put_settings(page, clients, password, regenerate)
    BY <2>1 DEF UserSaves
  <2>3. Effective = load_settings
    BY DEF Shown, Serving, Effective
  <2> DEFINE stored == load_settings.clients
  <2>4. stored \in Clients
    BY <2>0 DEF Document
  <2>5. puts \in Nat /\ puts' = puts + 1 /\ ~Match(clients, stored).would_lose
    BY <2>0, <2>2 DEF put_settings, SettingsTypeOK, Put
  <2>6. pending'.clients = Preserved(clients, stored)
    <3>1. form[page] \in Document
      BY <2>0 DEF Shown, SettingsTypeOK
    <3> DEFINE hash == IF password THEN puts + 1 ELSE load_settings.hash
               held == Preserved(clients, stored)
               key == IF regenerate THEN keys + 1 ELSE form[page].key
    <3>2. pending' = [form[page] EXCEPT !.key = key, !.choice = puts + 1,
                                        !.hash = hash, !.clients = held]
      BY <2>2, Zenon DEF put_settings, save_settings
    <3>3. pending'.clients = held
      <4> HIDE DEF hash, held, key
      <4> QED BY <3>1, <3>2 DEF Document
    <3> QED BY <3>3
  <2> HIDE DEF stored
  <2>7. DistinctNames(stored)
    BY <2>3 DEF stored
  <2>8. /\ NoneDropped(stored, pending'.clients)
        /\ EachKeepsItsOwn(stored, pending'.clients)
    BY <2>4, <2>5, <2>6, <2>7, PutKeepsSecrets
  <2> QED BY <2>3, <2>8 DEF stored
<1> QED BY <1>1, InvAlways, PTL DEF Spec, SecretsKept
=============================================================================
