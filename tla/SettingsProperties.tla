------------------------- MODULE SettingsProperties -------------------------
(* What the users of the settings store rely on.                           *)
EXTENDS SettingsStore

Spec == SettingsInit /\ [][SettingsNext]_settingsVars

(* Every variable keeps its type: what a PUT, a recorder or a restart      *)
(* saves is always a whole document of Settings.                           *)
TypeOK == SettingsTypeOK

Saved(doc) == pending' = doc /\ pending = NoDocument

(* What a user saved through put_settings, or a reading-list source that   *)
(* was added, is gone from the document.                                   *)
Undone ==
  \/ Effective'.choice < Effective.choice
  \/ /\ Effective.source /\ ~Effective'.source
     /\ puts' = puts
     /\ Effective' # [Effective EXCEPT !.source = FALSE]

(* The coroutine that awaited with a document in its hands saves it.       *)
KeeperSaves == kept # Nobody /\ kept' = Nobody /\ Saved(kept.doc)

(* No ticks of the schedulers, webhook deliveries and source edits undo    *)
(* what a user has saved: a saved choice goes back only when               *)
(* check_for_updates or a Liberatarr sync saves the document it loaded     *)
(* before its request, or at the instant a write is cut short.             *)
ChoicesUndoneOnlyByKeeper ==
  [][Undone => KeeperSaves \/ (cut' /\ file' = Torn)]_settingsVars

(* A page sends back a key that gave way to another one after it loaded.   *)
(* A page has a key, unless a write was cut.                               *)
StalePageSaves ==
  \E page \in Page :
    /\ form[page] # NoDocument /\ form'[page] = NoDocument
    /\ Effective'.key = form[page].key
    /\ form[page].key # 0 \/ cut

(* A new key is drawn: by a page that regenerates it, or at a start that   *)
(* finds none.                                                             *)
KeyDrawn ==
  /\ keys' = keys + 1 /\ Effective'.key = keys'
  /\ puts' # puts \/ Effective.key = 0

(* Sessions and API clients depend on the API key: it is replaced by a new *)
(* one only when a user regenerates it, and a key that was replaced comes  *)
(* back only from a document loaded before: in a page that was open then,  *)
(* in check_for_updates or a Liberatarr sync in its await, or at the       *)
(* instant a write is cut short.  No tick, webhook delivery, source edit,  *)
(* restart or page loaded since does it.                                   *)
ReplacedKeyStaysReplaced ==
  [][Effective'.key # Effective.key
       => \/ KeyDrawn \/ StalePageSaves \/ KeeperSaves
          \/ cut' /\ file' = Torn]_settingsVars

DistinctNames(clients) ==
  \A i, j \in DOMAIN clients : clients[i].name = clients[j].name => i = j

Named(clients) == {clients[i].name : i \in DOMAIN clients}

(* A client of a new name is left without a secret only when every client  *)
(* that had one is still there, under its own name or with its secret.     *)
NoneDropped(stored, saved) ==
  (\E j \in DOMAIN saved : saved[j].secret = 0
                           /\ saved[j].name \notin Named(stored))
    => \A i \in DOMAIN stored :
         \/ stored[i].secret = 0 \/ stored[i].name \in Named(saved)
         \/ \E j \in DOMAIN saved : saved[j].secret = stored[i].secret

(* A client that keeps its name keeps its secret, or takes the one typed.  *)
EachKeepsItsOwn(stored, saved) ==
  \A i \in DOMAIN stored, j \in DOMAIN saved :
    stored[i].name = saved[j].name
      => saved[j].secret \in {stored[i].secret, puts'}

(* put_settings with blank secrets: as long as names are distinct a client *)
(* keeps its own secret, and none is dropped in favour of a blank one.     *)
SecretsKept ==
  [][puts' # puts /\ DistinctNames(Effective.clients)
       /\ DistinctNames(pending'.clients)
     => /\ NoneDropped(Effective.clients, pending'.clients)
        /\ EachKeepsItsOwn(Effective.clients, pending'.clients)]_settingsVars
=============================================================================
