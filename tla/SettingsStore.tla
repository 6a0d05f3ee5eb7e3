--------------------------- MODULE SettingsStore ---------------------------
(***************************************************************************)
(* settings.json as the parts of the program share it.  Each of them loads *)
(* the whole document, changes its own part and writes the whole document  *)
(* back.  The event loop runs one of them at a time between two awaits, so *)
(* what matters is who awaits between the load and the save, what a thread *)
(* or a restart finds when a write is cut, and what a PUT keeps of the     *)
(* fields a client never sees.                                             *)
(*                                                                         *)
(* A document is reduced to the API key (0: empty), the number of the PUT  *)
(* its settings come from (0: defaults), the PUT its password comes from,  *)
(* the download clients of one type with their secret (0: blank), and      *)
(* whether a reading-list source is saved.  The results that background    *)
(* tasks and webhooks record are fields nothing else depends on: a writer  *)
(* of such a field saves the rest of the document as it loaded it.         *)
(***************************************************************************)
EXTENDS Naturals, Sequences, SequencesExt

CONSTANTS
  Names,        \* names of download clients
  Page,         \* browsers with the settings page
  MaxPuts,      \* bound: accepted PUTs
  MaxStops      \* bound: crashes, failed writes and orderly restarts

ASSUME SettingsBounds == MaxPuts \in Nat /\ MaxStops \in Nat

(* The coroutines that keep the document they loaded across an await.      *)
Keeper == {"update_check", "liberatarr"}

Key == 0 .. MaxStops + 1 + MaxPuts
Put == 0 .. MaxPuts
DownloadClient == [name : Names, secret : Put]
Clients == SeqOf(DownloadClient, 2)
Document == [key : Key, choice : Put, hash : Put, clients : Clients,
             source : BOOLEAN]

Settings == [key |-> 0, choice |-> 0, hash |-> 0, clients |-> <<>>,
             source |-> FALSE]
NoDocument == [none |-> TRUE]
Nobody == [by |-> "nobody", doc |-> NoDocument]
Absent == [absent |-> TRUE]
Torn == [torn |-> TRUE]

VARIABLES
  file,     \* settings.json: Absent, Torn (cut short) or a document
  pending,  \* the document a write_text in progress is writing
  up,       \* the process serves requests
  kept,     \* the coroutine in its await, and the document it loaded
  form,     \* [Page -> its last GET, until it is sent back]
  keys,     \* API keys drawn so far
  puts,     \* accepted PUTs so far
  cut,      \* a write has been cut short, by a crash or a full disk
  stops     \* bound

settingsVars == <<file, pending, up, kept, form, keys, puts, cut, stops>>

(***************************************************************************)
(* config.py                                                               *)
(***************************************************************************)
(* A missing and an unreadable file both give the defaults.                *)
load_settings == IF file \in {Absent, Torn} THEN Settings ELSE file

(* The document readers on the loop will see once no write is in progress. *)
Effective == IF pending # NoDocument THEN pending ELSE load_settings

(* write_text truncates the file, then writes it: a save is two steps for  *)
(* whoever does not run on the event loop.                                 *)
save_settings(doc) == file' = Torn /\ pending' = doc

(* Nothing on the event loop runs while a write is in progress.            *)
Serving == up /\ pending = NoDocument

(* The end of write_text.                                                  *)
Written ==
  /\ pending # NoDocument
  /\ file' = pending
  /\ pending' = NoDocument
  /\ UNCHANGED <<up, kept, form, keys, puts, cut, stops>>

(* A full disk cuts the write; the request fails and the process goes on.  *)
WriteFails ==
  /\ pending # NoDocument /\ stops < MaxStops
  /\ pending' = NoDocument
  /\ cut' = TRUE /\ stops' = stops + 1
  /\ UNCHANGED <<file, up, kept, form, keys, puts>>

(* A crash, in the middle of a write or not, or an orderly end: what is    *)
(* held across an await is gone either way.                                *)
Stop ==
  /\ up /\ stops < MaxStops
  /\ up' = FALSE
  /\ pending' = NoDocument
  /\ kept' = Nobody
  /\ cut' = (cut \/ pending # NoDocument)
  /\ stops' = stops + 1
  /\ UNCHANGED <<file, form, keys, puts>>

(* lifespan: a document without an API key gets one, and is saved.  Keys   *)
(* are random; the model numbers them, so that no key is drawn twice.      *)
Start ==
  LET doc == load_settings IN
  /\ ~up
  /\ up' = TRUE
  /\ IF doc.key = 0
       THEN save_settings([doc EXCEPT !.key = keys + 1]) /\ keys' = keys + 1
       ELSE UNCHANGED <<file, pending, keys>>
  /\ UNCHANGED <<kept, form, puts, cut, stops>>

(***************************************************************************)
(* routes_settings.py                                                      *)
(***************************************************************************)
(* Mutant of get_settings: the response leaves out the API key as well.    *)
GetSettingsWithoutKey(page) ==
  /\ Serving
  /\ form' = [form EXCEPT ![page] =
       [load_settings EXCEPT !.key = 0, !.choice = 0, !.hash = 0,
                             !.clients = <<>>]]
  /\ UNCHANGED <<file, pending, up, kept, keys, puts, cut, stops>>

(* get_settings: the response holds neither the password hash nor a secret *)
(* of a client.  The choice and the clients are left out of the page too:  *)
(* what is sent back of them is chosen at the PUT.                         *)
get_settings(page) ==
  /\ Serving
  /\ form' = [form EXCEPT ![page] =
       [load_settings EXCEPT !.choice = 0, !.hash = 0, !.clients = <<>>]]
  /\ UNCHANGED <<file, pending, up, kept, keys, puts, cut, stops>>

(* Of two stored entries with one name the later is the one found.         *)
StoredAs(c, stored) ==
  LET same == {j \in DOMAIN stored : stored[j].name = c.name}
  IN IF same = {} THEN 0 ELSE CHOOSE j \in same : \A k \in same : k <= j

(* Mutant of Match: a rename is never recognised, and nothing is refused.  *)
MatchByName(incoming, stored) ==
  [of |-> [i \in DOMAIN incoming |-> StoredAs(incoming[i], stored)],
   would_lose |-> FALSE]

(* _preserve_download_client_secrets for clients of one type: the stored   *)
(* entry each incoming one stands for, by name, or by type when one entry  *)
(* is left on both sides.                                                  *)
Match(incoming, stored) ==
  LET byName == [i \in DOMAIN incoming |-> StoredAs(incoming[i], stored)]
      new == {i \in DOMAIN incoming : byName[i] = 0}
      old == DOMAIN stored \ {byName[i] : i \in DOMAIN incoming}
      renamed == \E i \in new, j \in old : new = {i} /\ old = {j}
  IN [of |-> [i \in DOMAIN incoming |->
                IF renamed /\ i \in new THEN CHOOSE j \in old : TRUE
                ELSE byName[i]],
      would_lose |-> /\ ~renamed
                     /\ \E i \in new, j \in old :
                          incoming[i].secret = 0 /\ stored[j].secret # 0]

(* Mutant of Preserved: stored clients the page does not list are kept.    *)
PreservedAll(incoming, stored) ==
  incoming \o SelectSeq(stored, LAMBDA c : StoredAs(c, incoming) = 0)

Preserved(incoming, stored) ==
  LET of == Match(incoming, stored).of
  IN [i \in DOMAIN incoming |->
        IF incoming[i].secret = 0 /\ of[i] # 0
          THEN [incoming[i] EXCEPT !.secret = stored[of[i]].secret]
          ELSE incoming[i]]

(* The pages that can save.                                                *)
Shown ==
  {page \in Page : Serving /\ form[page] # NoDocument /\ puts < MaxPuts}

(* put_settings: the page's document with a new choice, a new password or  *)
(* a blank one, and edited download clients whose secrets are typed in or  *)
(* blank; the save is refused when a secret would be dropped.  The API key *)
(* is the one the page was shown, or, when regenerateApiKey sends it, a    *)
(* key that the page has drawn.                                            *)
put_settings(page, clients, password, regenerate) ==
  LET stored == load_settings IN
  /\ page \in Shown
  /\ ~Match(clients, stored.clients).would_lose
  /\ puts' = puts + 1
  /\ keys' = IF regenerate THEN keys + 1 ELSE keys
  /\ save_settings(
       [form[page] EXCEPT
          !.key = IF regenerate THEN keys + 1 ELSE @,
          !.choice = puts + 1,
          !.hash = IF password THEN puts + 1 ELSE stored.hash,
          !.clients = Preserved(clients, stored.clients)])
  /\ form' = [form EXCEPT ![page] = NoDocument]
  /\ UNCHANGED <<up, kept, cut, stops>>

(* What the page may send: secrets are blank or typed in for this PUT.     *)
Typed == SeqOf([name : Names, secret : {0, puts + 1}], 2)

(* regenerateApiKey of settings.js: a GET sent back with another key only, *)
(* so that the password and the secrets are blank.                         *)
regenerateApiKey(page, clients) ==
  /\ \A i \in DOMAIN clients : clients[i].secret = 0
  /\ put_settings(page, clients, FALSE, TRUE)

PutSettings ==
  \E page \in Shown, clients \in Typed :
    \/ \E password \in BOOLEAN : put_settings(page, clients, password, FALSE)
    \/ regenerateApiKey(page, clients)

(***************************************************************************)
(* The other writers                                                       *)
(***************************************************************************)
(* The tail of a tick of the import scheduler.                             *)
RecordScan == save_settings(load_settings)

(* Mutant of RecordRefresh: the tick saves the settings another coroutine  *)
(* loaded before.                                                          *)
RecordRefreshShared ==
  save_settings(IF kept = Nobody THEN load_settings ELSE kept.doc)

(* The tail of a tick of the metadata scheduler.                           *)
RecordRefresh == save_settings(load_settings)

(* The tail of a tick of the wanted scheduler.                             *)
RecordSearch == save_settings(load_settings)

(* dispatch_event keeps of the settings only the webhooks to call; each is *)
(* sent the event, twice at most, without raising, and its result goes     *)
(* into a document that _record_result loads after the answer.             *)
RecordDelivery == save_settings(load_settings)

(* A reading-list source is saved; saving it twice is refused.             *)
add_goodreads_source ==
  /\ ~load_settings.source
  /\ save_settings([load_settings EXCEPT !.source = TRUE])

(* update_goodreads_source and record_source_import: the document is saved *)
(* only while the source is in it.                                         *)
RecordSource ==
  /\ load_settings.source
  /\ save_settings(load_settings)

delete_goodreads_source ==
  /\ load_settings.source
  /\ save_settings([load_settings EXCEPT !.source = FALSE])

(* Any of them: each loads, changes its part and saves at one go.          *)
Record ==
  /\ Serving
  /\ \/ RecordScan \/ RecordRefresh \/ RecordSearch \/ RecordDelivery
     \/ add_goodreads_source \/ RecordSource \/ delete_goodreads_source
  /\ UNCHANGED <<up, kept, form, keys, puts, cut, stops>>

(* check_for_updates and sync_liberatarr load the document, then await.    *)
LoadAndAwait(k) ==
  /\ Serving /\ kept = Nobody
  /\ kept' = [by |-> k, doc |-> load_settings]
  /\ UNCHANGED <<file, pending, up, form, keys, puts, cut, stops>>

(* check_for_updates after the answer: the document of before the request  *)
(* is saved.                                                               *)
check_for_updates ==
  /\ Serving /\ kept.by = "update_check"
  /\ save_settings(kept.doc)
  /\ kept' = Nobody
  /\ UNCHANGED <<up, form, keys, puts, cut, stops>>

(* record_liberatarr_sync after the library was fetched, or failed to be.  *)
record_liberatarr_sync ==
  /\ Serving /\ kept.by = "liberatarr"
  /\ save_settings(kept.doc)
  /\ kept' = Nobody
  /\ UNCHANGED <<up, form, keys, puts, cut, stops>>

SettingsInit ==
  /\ file = Absent /\ pending = NoDocument /\ up = FALSE
  /\ kept = Nobody
  /\ form = [page \in Page |-> NoDocument]
  /\ keys = 0 /\ puts = 0 /\ cut = FALSE /\ stops = 0

SettingsNext ==
  \/ Written \/ WriteFails \/ Stop \/ Start
  \/ (\E page \in Page : get_settings(page)) \/ PutSettings \/ Record
  \/ \E k \in Keeper : LoadAndAwait(k)
  \/ check_for_updates \/ record_liberatarr_sync

SettingsTypeOK ==
  /\ file \in Document \cup {Absent, Torn}
  /\ pending \in Document \cup {NoDocument}
  /\ up \in BOOLEAN
  /\ kept \in [by : Keeper, doc : Document] \cup {Nobody}
  /\ form \in [Page -> Document \cup {NoDocument}]
  /\ keys \in Key /\ puts \in Put /\ cut \in BOOLEAN /\ stops \in 0 .. MaxStops
=============================================================================
