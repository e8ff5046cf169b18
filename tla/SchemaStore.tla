------------------------------ MODULE SchemaStore ------------------------------
(***************************************************************************)
(* runtime/schema_store.py: the ONVIF documents kept beside the program,   *)
(* the manifest that describes them, `schemas refresh`, which fetches the  *)
(* closure of the services' WSDLs again, and `schemas verify`.             *)
(*                                                                         *)
(* Several processes share the directory and take no lock; each keeps the  *)
(* manifest it read.  A refresh is stepwise, for it may be killed between  *)
(* any two writes, and in one.                                             *)
(*                                                                         *)
(* External: the web, which may publish another edition in the middle of a *)
(* crawl, and people who edit a vendored document by hand.                 *)
(***************************************************************************)
EXTENDS Integers, Sequences, FiniteSets, SequencesExt

CONSTANTS
  Key,        \* where a document is kept: its URL without the scheme
  Text,       \* the contents a document can have
  Refs,       \* the references in each of them
  Seeds,      \* the WSDLs of the services
  Editions,   \* what the web may hold: a Text at each Key, or a reason why not
  Vendored,   \* the stores that may have been committed: a Text at some Keys
  Process,    \* the processes that refresh, by number
  MaxChanges, \* bound: new editions, hand edits
  MaxFaults   \* bound: fetches lost, processes killed

Tag == {"import", "include", "redefine", "wsdl_import"}
Url == [scheme : {"http", "https"}, key : Key]

\* A schemaLocation names a document by its URL, or from where it stands.
Ref == [tag : Tag, scheme : {"http", "https", "relative"}, key : Key]

\* What a file or the web holds when it holds no document.
NoText == {"absent", "torn", "gone", "malformed"}

\* Everything a vendored document refers to is vendored, and every WSDL is.
Whole(docs) ==
  /\ \A i \in DOMAIN Seeds : Seeds[i].key \in DOMAIN docs
  /\ \A k \in DOMAIN docs : \A r \in Refs[docs[k]] : r.key \in DOMAIN docs

\* What was committed came from a refresh.
ASSUME SchemaStoreAssumption ==
  /\ Refs \in [Text -> SUBSET Ref] /\ \A t \in Text : IsFiniteSet(Refs[t])
  /\ Text \cap NoText = {}
  /\ Seeds \in Seq(Url) /\ Seeds # <<>>
  /\ \A e \in Editions :
       DOMAIN e = Key /\ \A k \in Key : e[k] \in Text \cup {"gone", "malformed"}
  /\ \A v \in Vendored :
       /\ DOMAIN v \subseteq Key /\ \A k \in DOMAIN v : v[k] \in Text
       /\ DOMAIN v = {} \/ Whole(v)
  /\ Process \subseteq Nat \ {0}
  /\ MaxChanges \in Nat /\ MaxFaults \in Nat

VARIABLES
  edition,   \* external: what the web holds
  files,     \* SCHEMA_ROOT
  manifest,  \* MANIFEST.json
  cache,     \* _MANIFEST of each process
  refresh,   \* each process's refresh()
  mixed,     \* history: the processes in whose refresh someone else wrote
  changes, faults

disk == <<files, manifest>>
bounds == <<changes, faults>>
storeVars == <<edition, disk, cache, refresh, mixed, bounds>>

------------------------------------------------------------------------------
(***************************************************************************)
(* The manifest and verify().                                              *)
(***************************************************************************)
NoDocuments == [k \in {} |-> "absent"]

\* _load_manifest: a missing manifest is an empty one; a broken one raises.
Manifest(state, docs) == [state |-> state, docs |-> docs]
NotLoaded == [loaded |-> FALSE, docs |-> NoDocuments]

\* Whether manifest() returns in a process that has loaded c, and what.
CanLoad(c) == c.loaded \/ manifest.state # "broken"
Loaded(c) == IF c.loaded THEN c ELSE [loaded |-> TRUE, docs |-> manifest.docs]

\* Files the manifest does not know, and documents that are not there, or not
\* as it says.
Problems(docs) ==
  {k \in DOMAIN docs : files[k] # docs[k]} \cup
  {k \in Key \ DOMAIN docs : files[k] # "absent"}

\* verify() in a process that has loaded c finds nothing.
Verifies(c) ==
  /\ CanLoad(c)
  /\ DOMAIN Loaded(c).docs # {}
  /\ Problems(Loaded(c).docs) = {}

------------------------------------------------------------------------------
(***************************************************************************)
(* _referenced: every document that one imports or includes.               *)
(***************************************************************************)
\* Mutant: includes are not followed.
ImportsOnly == {"import", "wsdl_import"}

Followed == Tag

\* urljoin.
Join(url, ref) ==
  [scheme |-> IF ref.scheme = "relative" THEN url.scheme ELSE ref.scheme,
   key    |-> ref.key]

\* In the document's order, which is any.
Referenced(url, text) ==
  SetToSeqs({Join(url, r) : r \in {s \in Refs[text] : s.tag \in Followed}})

------------------------------------------------------------------------------
NoRefresh == [pc |-> "idle", queue |-> <<>>, documents |-> <<>>, written |-> 0,
              stale |-> {}]

Init ==
  /\ edition \in Editions
  /\ \E v \in Vendored :
       /\ files = [k \in Key |-> IF k \in DOMAIN v THEN v[k] ELSE "absent"]
       /\ manifest = Manifest(IF DOMAIN v = {} THEN "missing" ELSE "whole", v)
  /\ cache = [p \in Process |-> NotLoaded]
  /\ refresh = [p \in Process |-> NoRefresh]
  /\ mixed = {}
  /\ changes = 0 /\ faults = 0

\* p has begun to write and someone else does.
Mix(others) == mixed' = mixed \cup
  {p \in others : refresh[p].pc \notin {"idle", "crawl"}}

Fail(p) == refresh' = [refresh EXCEPT ![p] = [NoRefresh EXCEPT !.pc = "failed"]]

Documents(r) == [k \in {d.key : d \in ToSet(r.documents)} |->
                   (CHOOSE d \in ToSet(r.documents) : d.key = k).text]

------------------------------------------------------------------------------
\* Anything that asks for the manifest.
LoadManifest(p) ==
  /\ refresh[p].pc \in {"idle", "done"}
  /\ ~cache[p].loaded /\ CanLoad(cache[p])
  /\ cache' = [cache EXCEPT ![p] = Loaded(@)]
  /\ UNCHANGED <<edition, disk, refresh, mixed, bounds>>

\* refresh() is called.
Begin(p) ==
  /\ refresh[p].pc = "idle"
  /\ refresh' = [refresh EXCEPT ![p].pc = "crawl", ![p].queue = Seeds]
  /\ UNCHANGED <<edition, disk, cache, mixed, bounds>>

Visited(r, url) == \E d \in ToSet(r.documents) : d.key = url.key

\* Mutant: a document is fetched as often as it is referred to.
VisitAlways(p) ==
  LET r    == refresh[p]
      url  == Head(r.queue)
      text == edition[url.key]
  IN
  /\ r.pc = "crawl" /\ r.queue # <<>>
  /\ \/ text \notin Text /\ Fail(p)
     \/ /\ text \in Text
        /\ \E refs \in Referenced(url, text) :
             refresh' = [refresh EXCEPT
               ![p].queue = Tail(@) \o refs,
               ![p].documents =
                  IF Visited(r, url) THEN @
                  ELSE Append(@, [key |-> url.key, text |-> text])]
  /\ UNCHANGED <<edition, disk, cache, mixed, bounds>>

\* Mutant: what cannot be fetched is kept as it is.
VisitRegardless(p) ==
  LET r    == refresh[p]
      url  == Head(r.queue)
      text == edition[url.key]
  IN
  /\ r.pc = "crawl" /\ r.queue # <<>>
  /\ \/ /\ Visited(r, url)
        /\ refresh' = [refresh EXCEPT ![p].queue = Tail(@)]
     \/ /\ ~Visited(r, url)
        /\ \E refs \in IF text \in Text THEN Referenced(url, text) ELSE {<<>>} :
             refresh' = [refresh EXCEPT
               ![p].queue = Tail(@) \o refs,
               ![p].documents = Append(@, [key |-> url.key, text |-> text])]
  /\ UNCHANGED <<edition, disk, cache, mixed, bounds>>

\* A turn of the crawl.  A document that cannot be fetched, or parsed, ends the
\* refresh; nothing has been written then.
Visit(p) ==
  LET r    == refresh[p]
      url  == Head(r.queue)
      text == edition[url.key]
  IN
  /\ r.pc = "crawl" /\ r.queue # <<>>
  /\ \/ /\ Visited(r, url)
        /\ refresh' = [refresh EXCEPT ![p].queue = Tail(@)]
     \/ ~Visited(r, url) /\ text \notin Text /\ Fail(p)
     \/ /\ ~Visited(r, url) /\ text \in Text
        /\ \E refs \in Referenced(url, text) :
             refresh' = [refresh EXCEPT
               ![p].queue = Tail(@) \o refs,
               ![p].documents = Append(@, [key |-> url.key, text |-> text])]
  /\ UNCHANGED <<edition, disk, cache, mixed, bounds>>

EndCrawl(p) ==
  /\ refresh[p].pc = "crawl" /\ refresh[p].queue = <<>>
  /\ refresh' = [refresh EXCEPT ![p].pc = "write"]
  /\ UNCHANGED <<edition, disk, cache, mixed, bounds>>

\* path.write_bytes for the next document, in the order of the crawl.
Write(p) ==
  LET r == refresh[p] IN
  /\ r.pc = "write" /\ r.written < Len(r.documents)
  /\ LET d == r.documents[r.written + 1]
     IN  files' = [files EXCEPT ![d.key] = d.text]
  /\ refresh' = [refresh EXCEPT ![p].written = @ + 1]
  /\ Mix(Process \ {p})
  /\ UNCHANGED <<edition, manifest, cache, bounds>>

\* Mutant: what a larger closure left behind stays.
KeepStale(p) ==
  LET r == refresh[p] IN
  /\ r.pc = "write" /\ r.written = Len(r.documents)
  /\ refresh' = [refresh EXCEPT ![p].pc = "delete", ![p].stale = {}]
  /\ UNCHANGED <<edition, disk, cache, mixed, bounds>>

\* The files of this refresh are all there; the directory is listed.
EndWrite(p) ==
  LET r == refresh[p] IN
  /\ r.pc = "write" /\ r.written = Len(r.documents)
  /\ refresh' = [refresh EXCEPT
       ![p].pc = "delete",
       ![p].stale = {k \in Key \ DOMAIN Documents(r) : files[k] # "absent"}]
  /\ UNCHANGED <<edition, disk, cache, mixed, bounds>>

\* path.unlink, for a file that is still there.
Delete(p) ==
  /\ refresh[p].pc = "delete"
  /\ \E k \in refresh[p].stale :
       /\ files' = [files EXCEPT ![k] = "absent"]
       /\ refresh' = [refresh EXCEPT ![p].stale = @ \ {k}]
  /\ Mix(Process \ {p})
  /\ UNCHANGED <<edition, manifest, cache, bounds>>

\* The manifest is written, last, and this process will read it again.
WriteManifest(p) ==
  LET r == refresh[p] IN
  /\ r.pc = "delete" /\ r.stale = {}
  /\ manifest' = Manifest("whole", Documents(r))
  /\ cache' = [cache EXCEPT ![p] = NotLoaded]
  /\ refresh' = [refresh EXCEPT ![p] = [NoRefresh EXCEPT !.pc = "done"]]
  /\ Mix(Process \ {p})
  /\ UNCHANGED <<edition, files, bounds>>

Turn(p) ==
  Visit(p) \/ EndCrawl(p) \/ Write(p) \/ EndWrite(p) \/ Delete(p) \/ WriteManifest(p)

------------------------------------------------------------------------------
Fault ==
  /\ faults < MaxFaults
  /\ faults' = faults + 1

\* A fetch times out, or the connection breaks.
LoseFetch(p) ==
  /\ refresh[p].pc = "crawl" /\ refresh[p].queue # <<>>
  /\ ~Visited(refresh[p], Head(refresh[p].queue))
  /\ Fault
  /\ Fail(p)
  /\ UNCHANGED <<edition, disk, cache, mixed, changes>>

\* The process is killed, between two writes or in one: the file it had opened
\* is left empty, or short.
Kill(p) ==
  LET r == refresh[p] IN
  /\ r.pc \in {"crawl", "write", "delete"}
  /\ Fault
  /\ \/ UNCHANGED disk
     \/ /\ r.pc = "write" /\ r.written < Len(r.documents)
        /\ files' = [files EXCEPT ![r.documents[r.written + 1].key] = "torn"]
        /\ UNCHANGED manifest
     \/ /\ r.pc = "delete" /\ r.stale = {}
        /\ manifest' = Manifest("broken", NoDocuments)
        /\ UNCHANGED files
  /\ refresh' = [refresh EXCEPT ![p] = [NoRefresh EXCEPT !.pc = "died"]]
  /\ Mix(Process \ {p})
  /\ UNCHANGED <<edition, cache, changes>>

Change ==
  /\ changes < MaxChanges
  /\ changes' = changes + 1

\* External: the standards body publishes.
Publish ==
  /\ Change
  /\ edition' \in Editions \ {edition}
  /\ UNCHANGED <<disk, cache, refresh, mixed, faults>>

\* External: somebody spoils a vendored document, or puts that of another edition
\* in its place.
Edit ==
  /\ Change
  /\ \E k \in Key :
       \E t \in ({e[k] : e \in Editions} \cap Text) \cup {"torn"} :
         t # files[k] /\ files' = [files EXCEPT ![k] = t]
  /\ Mix(Process)
  /\ UNCHANGED <<edition, manifest, cache, refresh, faults>>

StoreNext ==
  \/ \E p \in Process :
       LoadManifest(p) \/ Begin(p) \/ Turn(p) \/ LoseFetch(p) \/ Kill(p)
  \/ Publish
  \/ Edit

StoreOver ==
  \A p \in Process : refresh[p].pc \in {"idle", "done", "failed", "died"}

\* A refresh goes on: every fetch has its timeout of 60 seconds, and what comes
\* after is the local disk.
StoreFairness == \A p \in Process : WF_storeVars(Turn(p))

StoreSpec == Init /\ [][StoreNext]_storeVars /\ StoreFairness

------------------------------------------------------------------------------
IsDocuments(docs) ==
  DOMAIN docs \subseteq Key /\ \A k \in DOMAIN docs : docs[k] \in Text

DiskOK ==
  /\ DOMAIN edition = Key
  /\ files \in [Key -> Text \cup {"absent", "torn"}]
  /\ manifest.state \in {"missing", "broken", "whole"}
  /\ IsDocuments(manifest.docs)
  /\ manifest.state # "whole" => DOMAIN manifest.docs = {}

Document == [key : Key, text : Text]

Refresh == [
  pc        : {"idle", "crawl", "write", "delete", "done", "failed", "died"},
  queue     : Seq(Url),
  documents : Seq(Document),
  written   : Nat,
  stale     : SUBSET Key ]

StoreTypeOK ==
  /\ DiskOK
  /\ DOMAIN cache = Process /\ \A p \in Process : IsDocuments(cache[p].docs)
  /\ refresh \in [Process -> Refresh]
  /\ \A p \in Process : refresh[p].written <= Len(refresh[p].documents)
  /\ mixed \subseteq Process
  /\ changes \in 0..MaxChanges /\ faults \in 0..MaxFaults

------------------------------------------------------------------------------
OnDisk == [k \in {j \in Key : files[j] \in Text} |-> files[k]]

\* When verify() finds nothing the store is whole: whatever refresh was killed
\* or failed before, however many ran at once, whatever the web published in the
\* middle of a crawl, and whichever manifest the process had read
\* (schema_store.py:152-179, 217-227, 229-254).
VerifiedIsWhole ==
  /\ \A p \in Process : Verifies(cache[p]) => Whole(OnDisk)
  /\ Verifies(NotLoaded) => Whole(OnDisk)

\* After a refresh verify() finds nothing in its own process, the one that read
\* the manifest before included, whatever state earlier refreshes and edits had
\* left the store in, unless someone else wrote meanwhile or since
\* (schema_store.py:229-257).
DoneMeansVerified ==
  \A p \in Process :
    refresh[p].pc = "done" /\ p \notin mixed => Verifies(cache[p])

\* A crawl comes to an end, though documents refer to each other in circles and
\* by two schemes, and the web changes under it (schema_store.py:217-227).
RefreshEnds ==
  \A p \in Process :
    refresh[p].pc = "crawl" ~> refresh[p].pc \in {"done", "failed", "died"}
==============================================================================
