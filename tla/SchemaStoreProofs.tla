-------------------------- MODULE SchemaStoreProofs --------------------------
(***************************************************************************)
(* Theorems of SchemaStore, for any documents, any editions of the web and *)
(* any number of processes, kills and edits.  A crawl keeps what is        *)
(* referred to either visited or in its queue, so what it ends with is     *)
(* whole, and so is every manifest ever written or read; a store that      *)
(* agrees with a manifest is then whole itself.  And what a refresh that   *)
(* nobody disturbs leaves on disk is what its manifest says.               *)
(***************************************************************************)
EXTENDS SchemaStore, ElementLemmas, SequenceTheorems, FiniteSetTheorems, TLAPS

\* The references of a document, in whatever order they are queued: all of them,
\* and URLs.
LEMMA ReferencedIsComplete ==
  ASSUME NEW url \in Url, NEW text \in Text, NEW refs \in Referenced(url, text)
  PROVE  /\ refs \in Seq(Url)
         /\ \A r \in Refs[text] : \E u \in ToSet(refs) : u.key = r.key
<1> DEFINE R == {s \in Refs[text] : s.tag \in Followed}
           U == {Join(url, r) : r \in R}
           f == [r \in R |-> Join(url, r)]
<1>1. R = Refs[text] /\ R \subseteq Ref
  BY SchemaStoreAssumption DEF Followed, Ref
<1>2. U \subseteq Url
  BY <1>1 DEF Join, Url, Ref
<1>3. IsFiniteSet(U)
  <2>1. IsFiniteSet(R)
    BY <1>1, SchemaStoreAssumption
  <2>2. f \in Surjection(R, U)
    BY DEF Surjection
  <2> QED
    BY <2>1, <2>2, FS_Surjection
<1>4. PICK n \in Nat : n = Cardinality(U)
  BY <1>3, FS_CardinalityType
<1>5. refs \in Injection(1..n, U)
  BY <1>4 DEF Referenced, SetToSeqs, Injection, IsInjective
<1>6. refs \in Surjection(1..n, U)
  BY <1>3, <1>4, <1>5, FS_Injection, FS_Interval
<1>7. refs \in Seq(Url)
  BY <1>2, <1>5 DEF Injection
<1>8. ASSUME NEW r \in Refs[text]
      PROVE  \E u \in ToSet(refs) : u.key = r.key
  <2>1. Join(url, r) \in U
    BY <1>1
  <2>2. PICK i \in 1..n : refs[i] = Join(url, r)
    BY <1>6, <2>1 DEF Surjection
  <2>3. DOMAIN refs = 1..n
    BY <1>5 DEF Injection
  <2> QED
    BY <2>2, <2>3 DEF ToSet, Join
<1> QED
  BY <1>7, <1>8

------------------------------------------------------------------------------
\* The inductive invariant.
\* Keys visited, and keys in the queue.
Keys(r) == {d.key : d \in ToSet(r.documents)}
Queued(r) == {u.key : u \in ToSet(r.queue)}

\* What is needed is visited or queued, and at the end of the crawl visited.
Closed(r) ==
  /\ \A i \in DOMAIN Seeds : Seeds[i].key \in Keys(r) \cup Queued(r)
  /\ \A d \in ToSet(r.documents) :
       \A ref \in Refs[d.text] : ref.key \in Keys(r) \cup Queued(r)

CrawlOK(r) ==
  /\ r.pc = "idle" => r.documents = <<>>
  /\ r.pc \in {"crawl", "write", "delete"} => Closed(r)
  /\ r.pc \in {"write", "delete"} => r.queue = <<>>

\* A manifest that lists anything lists a whole store.
ManifestOK(docs) == DOMAIN docs = {} \/ Whole(docs)

DiskInv == DiskOK /\ ManifestOK(manifest.docs)

CacheInv ==
  /\ DOMAIN cache = Process
  /\ \A p \in Process : IsDocuments(cache[p].docs) /\ ManifestOK(cache[p].docs)

RefreshInv ==
  /\ refresh \in [Process -> Refresh]
  /\ \A p \in Process : refresh[p].written <= Len(refresh[p].documents)
  /\ \A p \in Process : CrawlOK(refresh[p])

BoundsInv ==
  /\ mixed \subseteq Process
  /\ changes \in 0..MaxChanges /\ faults \in 0..MaxFaults

StoreInv == DiskInv /\ CacheInv /\ RefreshInv /\ BoundsInv

------------------------------------------------------------------------------
\* The documents of a refresh, as a function on their keys.
LEMMA DocumentsType ==
  ASSUME NEW r \in Refresh
  PROVE  /\ DOMAIN Documents(r) = Keys(r)
         /\ IsDocuments(Documents(r))
         /\ \A k \in Keys(r) : \E d \in ToSet(r.documents) :
              d.key = k /\ Documents(r)[k] = d.text
<1>1. DOMAIN Documents(r) = Keys(r)
  BY DEF Documents, Keys
<1>2. \A d \in ToSet(r.documents) : d \in Document
  BY ToSetType DEF Refresh
<1>3. ASSUME NEW k \in Keys(r)
      PROVE  \E d \in ToSet(r.documents) : d.key = k /\ Documents(r)[k] = d.text
  <2>1. \E d \in ToSet(r.documents) : d.key = k
    BY <1>3 DEF Keys
  <2> DEFINE c == CHOOSE d \in ToSet(r.documents) : d.key = k
  <2>2. c \in ToSet(r.documents) /\ c.key = k
    BY <2>1
  <2>3. Documents(r)[k] = c.text
    BY <1>3 DEF Documents, Keys
  <2> QED
    BY <2>2, <2>3
<1>4. IsDocuments(Documents(r))
  BY <1>1, <1>2, <1>3 DEF IsDocuments, Keys, Document
<1> QED
  BY <1>1, <1>3, <1>4

\* At the end of a crawl they are whole.
LEMMA CrawlIsWhole ==
  ASSUME NEW r \in Refresh, Closed(r), r.queue = <<>>
  PROVE  Whole(Documents(r))
<1>1. Queued(r) = {}
  BY DEF Queued, ToSet
<1>2. \A i \in DOMAIN Seeds : Seeds[i].key \in DOMAIN Documents(r)
  BY <1>1, DocumentsType DEF Closed
<1>3. ASSUME NEW k \in DOMAIN Documents(r), NEW ref \in Refs[Documents(r)[k]]
      PROVE  ref.key \in DOMAIN Documents(r)
  <2>1. PICK d \in ToSet(r.documents) : d.key = k /\ Documents(r)[k] = d.text
    BY DocumentsType
  <2> QED
    BY <1>1, <2>1, DocumentsType DEF Closed
<1> QED
  BY <1>2, <1>3 DEF Whole

\* A process that begins has the seeds in its queue.
LEMMA BeginCloses ==
  ASSUME NEW r, r.queue = Seeds, r.documents = <<>>
  PROVE  Closed(r)
  BY DEF Closed, Keys, Queued, ToSet

\* What is closed depends on what was visited and what is queued, no more.
LEMMA SameCrawl ==
  ASSUME NEW r, NEW s, Closed(r), s.queue = r.queue, s.documents = r.documents
  PROVE  Closed(s)
  BY DEF Closed, Keys, Queued

\* A document that was visited before may leave the queue.
LEMMA SkipCloses ==
  ASSUME NEW r \in Refresh, NEW s, r.queue # <<>>, Closed(r),
         Head(r.queue).key \in Keys(r),
         s.queue = Tail(r.queue), s.documents = r.documents
  PROVE  Closed(s)
<1>1. Queued(r) \subseteq Queued(s) \cup {Head(r.queue).key}
  BY ToSetTail DEF Refresh, Queued
<1>2. Keys(s) = Keys(r)
  BY DEF Keys
<1> QED
  BY <1>1, <1>2 DEF Closed

\* One that is visited now leaves its references there.
LEMMA VisitCloses ==
  ASSUME NEW r \in Refresh, NEW s, NEW refs \in Seq(Url), NEW text \in Text,
         r.queue # <<>>, Closed(r),
         \A ref \in Refs[text] : \E u \in ToSet(refs) : u.key = ref.key,
         s.queue = Tail(r.queue) \o refs,
         s.documents = Append(r.documents,
                              [key |-> Head(r.queue).key, text |-> text])
  PROVE  Closed(s)
<1> DEFINE d == [key |-> Head(r.queue).key, text |-> text]
<1>1. /\ Head(r.queue) \in Url /\ Tail(r.queue) \in Seq(Url)
      /\ \A u \in ToSet(r.queue) : u = Head(r.queue) \/ u \in ToSet(Tail(r.queue))
  BY ToSetTail DEF Refresh
<1>2. d \in Document
  BY <1>1 DEF Url, Document
<1>3. ToSet(s.documents) = ToSet(r.documents) \cup {d}
  <2>1. r.documents \in Seq(Document)
    BY DEF Refresh
  <2>2. s.documents = Append(r.documents, d)
    OBVIOUS
  <2> HIDE DEF d
  <2>3. \A a \in Seq(Document), e \in Document :
          ToSet(Append(a, e)) = ToSet(a) \cup {e}
    BY ToSetAppend
  <2> QED
    BY <1>2, <2>1, <2>2, <2>3
<1>4. ToSet(s.queue) = ToSet(Tail(r.queue)) \cup ToSet(refs)
  <2>1. \A a, b \in Seq(Url) : ToSet(a \o b) = ToSet(a) \cup ToSet(b)
    BY ToSetConcat
  <2> QED
    BY <1>1, <2>1
<1>5. Keys(s) = Keys(r) \cup {Head(r.queue).key}
  BY <1>3 DEF Keys
<1>6. /\ Queued(r) \subseteq Queued(s) \cup {Head(r.queue).key}
      /\ {u.key : u \in ToSet(refs)} \subseteq Queued(s)
  BY <1>1, <1>4 DEF Queued
<1>7. \A ref \in Refs[text] : ref.key \in Queued(s)
  BY <1>6
<1>8. \A e \in ToSet(s.documents) : e \in ToSet(r.documents) \/ e.text = text
  BY <1>3
<1> QED
  BY <1>5, <1>6, <1>7, <1>8 DEF Closed

------------------------------------------------------------------------------
\* A document's tail of a queue, and a queue with references added, hold URLs;
\* a crawl with a document added holds documents.
LEMMA VisitType ==
  ASSUME NEW r \in Refresh, NEW refs \in Seq(Url), NEW text \in Text,
         r.queue # <<>>
  PROVE  /\ Tail(r.queue) \in Seq(Url) /\ Tail(r.queue) \o refs \in Seq(Url)
         /\ Append(r.documents, [key |-> Head(r.queue).key, text |-> text])
               \in Seq(Document)
         /\ Len(Append(r.documents, [key |-> Head(r.queue).key, text |-> text]))
               = Len(r.documents) + 1
<1>1. /\ r.queue \in Seq(Url) /\ r.documents \in Seq(Document)
  BY DEF Refresh
<1>2. Head(r.queue) \in Url /\ Tail(r.queue) \in Seq(Url)
  BY <1>1
<1>3. [key |-> Head(r.queue).key, text |-> text] \in Document
  BY <1>2 DEF Url, Document
<1>4. Tail(r.queue) \o refs \in Seq(Url)
  BY <1>2, ConcatProperties
<1> QED
  BY <1>1, <1>2, <1>3, <1>4, AppendProperties

\* A refresh that takes a step is in a state it may be in.
LEMMA RefreshStep ==
  ASSUME RefreshInv, NEW p \in Process, NEW s \in Refresh,
         s.written <= Len(s.documents), CrawlOK(s),
         refresh' = [refresh EXCEPT ![p] = s]
  PROVE  RefreshInv'
<1>1. \A q \in Process : refresh'[q] = IF q = p THEN s ELSE refresh[q]
  BY DEF RefreshInv
<1>2. refresh' \in [Process -> Refresh]
  BY DEF RefreshInv
<1>3. \A q \in Process : refresh'[q].written <= Len(refresh'[q].documents)
  BY <1>1 DEF RefreshInv
<1>4. \A q \in Process : CrawlOK(refresh'[q])
  BY <1>1 DEF RefreshInv
<1> QED
  BY <1>2, <1>3, <1>4 DEF RefreshInv

\* So is one that stops.
LEMMA StopStep ==
  ASSUME RefreshInv, NEW p \in Process, NEW pc \in {"done", "failed", "died"},
         refresh' = [refresh EXCEPT ![p] = [NoRefresh EXCEPT !.pc = pc]]
  PROVE  RefreshInv'
<1> DEFINE s == [NoRefresh EXCEPT !.pc = pc]
<1>1. /\ s \in Refresh /\ s.written <= Len(s.documents) /\ s.pc = pc
  <2>1. /\ NoRefresh \in Refresh
        /\ NoRefresh.written = 0 /\ NoRefresh.documents = <<>>
    BY DEF NoRefresh, Refresh
  <2>2. \A r \in Refresh :
          /\ [r EXCEPT !.pc = pc] \in Refresh
          /\ [r EXCEPT !.pc = pc].written = r.written
          /\ [r EXCEPT !.pc = pc].documents = r.documents
          /\ [r EXCEPT !.pc = pc].pc = pc
    BY DEF Refresh
  <2> QED
    BY <2>1, <2>2
<1>2. CrawlOK(s)
  BY <1>1 DEF CrawlOK, NoRefresh
<1>3. refresh' = [refresh EXCEPT ![p] = s]
  OBVIOUS
<1> HIDE DEF s
<1> QED
  BY <1>1, <1>2, <1>3, RefreshStep

\* Only refreshes are ever mixed.
LEMMA MixType ==
  ASSUME BoundsInv, NEW others \in SUBSET Process, Mix(others)
  PROVE  mixed' \subseteq Process
  BY DEF BoundsInv, Mix

\* The invariant holds of the store as it was committed.
LEMMA StoreInitInv == Init => StoreInv
<1> SUFFICES ASSUME Init
             PROVE  StoreInv
  OBVIOUS
<1>1. PICK v \in Vendored :
        /\ files = [k \in Key |-> IF k \in DOMAIN v THEN v[k] ELSE "absent"]
        /\ manifest = Manifest(IF DOMAIN v = {} THEN "missing" ELSE "whole", v)
  BY DEF Init
<1>2. IsDocuments(v) /\ ManifestOK(v)
  BY SchemaStoreAssumption DEF IsDocuments, ManifestOK
<1>3. /\ manifest.state = (IF DOMAIN v = {} THEN "missing" ELSE "whole")
      /\ manifest.docs = v
  BY <1>1 DEF Manifest
<1>4. DiskInv
  <2>1. DOMAIN edition = Key
    BY SchemaStoreAssumption DEF Init
  <2>2. files \in [Key -> Text \cup {"absent", "torn"}]
    BY <1>1, <1>2 DEF IsDocuments
  <2> QED
    BY <1>2, <1>3, <2>1, <2>2 DEF DiskInv, DiskOK
<1>5. CacheInv
  BY DEF Init, CacheInv, NotLoaded, NoDocuments, IsDocuments, ManifestOK
<1>6. RefreshInv
  <2>1. /\ NoRefresh \in Refresh /\ CrawlOK(NoRefresh)
        /\ NoRefresh.written <= Len(NoRefresh.documents)
    BY DEF NoRefresh, Refresh, CrawlOK
  <2> QED
    BY <2>1 DEF Init, RefreshInv
<1>7. BoundsInv
  BY SchemaStoreAssumption DEF Init, BoundsInv
<1> QED
  BY <1>4, <1>5, <1>6, <1>7 DEF StoreInv

------------------------------------------------------------------------------
(***************************************************************************)
(* Every step keeps it.                                                    *)
(***************************************************************************)
\* What a process loads is what the manifest says.
LEMMA LoadManifestInv ==
  ASSUME StoreInv, NEW p \in Process, LoadManifest(p)
  PROVE  StoreInv'
<1> USE DEF StoreInv
<1>1. DiskInv' /\ RefreshInv' /\ BoundsInv'
  BY DEF LoadManifest, disk, bounds, DiskInv, DiskOK, RefreshInv, BoundsInv
<1>2. IsDocuments(Loaded(cache[p]).docs) /\ ManifestOK(Loaded(cache[p]).docs)
  BY DEF Loaded, DiskInv, DiskOK, CacheInv
<1>3. CacheInv'
  BY <1>2 DEF LoadManifest, CacheInv
<1> QED
  BY <1>1, <1>3

\* A refresh begins with the seeds in its queue.
LEMMA BeginInv ==
  ASSUME StoreInv, NEW p \in Process, Begin(p)
  PROVE  StoreInv'
<1> USE DEF StoreInv
<1> DEFINE s == [refresh[p] EXCEPT !.pc = "crawl", !.queue = Seeds]
<1>1. DiskInv' /\ CacheInv' /\ BoundsInv'
  BY DEF Begin, disk, bounds, DiskInv, DiskOK, CacheInv, BoundsInv
<1>2. /\ refresh[p] \in Refresh /\ refresh[p].written <= Len(refresh[p].documents)
      /\ refresh[p].documents = <<>>
  BY DEF Begin, RefreshInv, CrawlOK
<1>3. /\ s \in Refresh /\ s.written <= Len(s.documents)
      /\ s.pc = "crawl" /\ s.queue = Seeds /\ s.documents = <<>>
  BY <1>2, SchemaStoreAssumption DEF Refresh
<1>4. refresh' = [refresh EXCEPT ![p] = s]
  BY DEF Begin, RefreshInv
<1> HIDE DEF s
<1>5. CrawlOK(s)
  BY <1>3, BeginCloses DEF CrawlOK
<1>6. RefreshInv'
  BY <1>3, <1>4, <1>5, RefreshStep
<1> QED
  BY <1>1, <1>6

\* A turn of the crawl leaves what it needs visited or queued.
LEMMA VisitInv ==
  ASSUME StoreInv, NEW p \in Process, Visit(p)
  PROVE  StoreInv'
<1> USE DEF StoreInv
<1> DEFINE r    == refresh[p]
           url  == Head(r.queue)
           t    == edition[url.key]
<1>1. DiskInv' /\ CacheInv' /\ BoundsInv'
  BY DEF Visit, disk, bounds, DiskInv, DiskOK, CacheInv, BoundsInv
<1>2. /\ r \in Refresh /\ r.written <= Len(r.documents) /\ Closed(r)
      /\ r.pc = "crawl" /\ r.queue # <<>>
  BY DEF Visit, RefreshInv, CrawlOK
<1>3. Head(r.queue) \in Url /\ Tail(r.queue) \in Seq(Url)
  BY <1>2 DEF Refresh
<1>4. CASE /\ Visited(r, url)
           /\ refresh' = [refresh EXCEPT ![p].queue = Tail(@)]
  <2> DEFINE s == [r EXCEPT !.queue = Tail(@)]
  <2>1. refresh' = [refresh EXCEPT ![p] = s]
    BY <1>4 DEF RefreshInv
  <2>2. /\ s \in Refresh /\ s.pc = r.pc /\ s.queue = Tail(r.queue)
        /\ s.documents = r.documents /\ s.written = r.written
    BY <1>2, <1>3 DEF Refresh
  <2>3. url.key \in Keys(r)
    BY <1>4 DEF Visited, Keys
  <2> HIDE DEF s, r, url
  <2>4. Closed(s)
    BY <1>2, <2>2, <2>3, SkipCloses DEF url
  <2>5. CrawlOK(s)
    BY <1>2, <2>2, <2>4 DEF CrawlOK
  <2>6. s.written <= Len(s.documents)
    BY <1>2, <2>2
  <2>7. RefreshInv'
    BY <2>1, <2>2, <2>5, <2>6, RefreshStep
  <2> QED
    BY <1>1, <2>7
<1>5. CASE Fail(p)
  <2>1. RefreshInv'
    BY <1>5, StopStep DEF Fail
  <2> QED
    BY <1>1, <2>1
<1>6. CASE /\ ~Visited(r, url) /\ t \in Text
           /\ \E refs \in Referenced(url, t) :
                refresh' = [refresh EXCEPT
                  ![p].queue = Tail(@) \o refs,
                  ![p].documents = Append(@, [key |-> url.key, text |-> t])]
  <2>1. PICK refs \in Referenced(url, t) :
          refresh' = [refresh EXCEPT
            ![p].queue = Tail(@) \o refs,
            ![p].documents = Append(@, [key |-> url.key, text |-> t])]
    BY <1>6
  <2> DEFINE s == [r EXCEPT !.queue = Tail(@) \o refs,
                            !.documents = Append(@, [key |-> url.key, text |-> t])]
  <2>2. refresh' = [refresh EXCEPT ![p] = s]
    BY <2>1 DEF RefreshInv
  <2>3. /\ refs \in Seq(Url)
        /\ \A ref \in Refs[t] : \E u \in ToSet(refs) : u.key = ref.key
    <3>1. url \in Url /\ t \in Text
      BY <1>3, <1>6
    <3> HIDE DEF url, t
    <3> QED
      BY <3>1, ReferencedIsComplete
  <2>4. /\ Tail(r.queue) \o refs \in Seq(Url)
        /\ Append(r.documents, [key |-> url.key, text |-> t]) \in Seq(Document)
        /\ Len(Append(r.documents, [key |-> url.key, text |-> t]))
              = Len(r.documents) + 1
    BY <1>2, <1>6, <2>3, VisitType
  <2>5. /\ s \in Refresh /\ s.pc = r.pc /\ s.queue = Tail(r.queue) \o refs
        /\ s.documents = Append(r.documents, [key |-> url.key, text |-> t])
        /\ s.written = r.written
    BY <1>2, <2>4 DEF Refresh
  <2>6. r.written \in Nat /\ Len(r.documents) \in Nat
    BY <1>2 DEF Refresh
  <2> HIDE DEF s, r, url, t
  <2>7. Closed(s)
    <3>1. /\ t \in Text /\ s.queue = Tail(r.queue) \o refs
          /\ s.documents = Append(r.documents, [key |-> Head(r.queue).key, text |-> t])
      BY <1>6, <2>5 DEF url
    <3> QED
      BY <1>2, <2>3, <3>1, VisitCloses
  <2>8. CrawlOK(s)
    BY <1>2, <2>5, <2>7 DEF CrawlOK
  <2>9. s.written <= Len(s.documents)
    BY <1>2, <2>4, <2>5, <2>6
  <2>10. RefreshInv'
    BY <2>2, <2>5, <2>8, <2>9, RefreshStep
  <2> QED
    BY <1>1, <2>10
<1> QED
  BY <1>4, <1>5, <1>6 DEF Visit

\* The queue is empty when the crawl ends.
LEMMA EndCrawlInv ==
  ASSUME StoreInv, NEW p \in Process, EndCrawl(p)
  PROVE  StoreInv'
<1> USE DEF StoreInv
<1> DEFINE s == [refresh[p] EXCEPT !.pc = "write"]
<1>1. DiskInv' /\ CacheInv' /\ BoundsInv'
  BY DEF EndCrawl, disk, bounds, DiskInv, DiskOK, CacheInv, BoundsInv
<1>2. /\ refresh[p] \in Refresh /\ refresh[p].written <= Len(refresh[p].documents)
      /\ Closed(refresh[p]) /\ refresh[p].queue = <<>>
  BY DEF EndCrawl, RefreshInv, CrawlOK
<1>3. /\ s \in Refresh /\ s.written <= Len(s.documents) /\ s.pc = "write"
      /\ s.queue = refresh[p].queue /\ s.documents = refresh[p].documents
  BY <1>2 DEF Refresh
<1>4. refresh' = [refresh EXCEPT ![p] = s]
  BY DEF EndCrawl, RefreshInv
<1> HIDE DEF s
<1>5. CrawlOK(s)
  BY <1>2, <1>3, SameCrawl DEF CrawlOK
<1>6. RefreshInv'
  BY <1>3, <1>4, <1>5, RefreshStep
<1> QED
  BY <1>1, <1>6

\* A document is written where it belongs.
LEMMA WriteInv ==
  ASSUME StoreInv, NEW p \in Process, Write(p)
  PROVE  StoreInv'
<1> USE DEF StoreInv
<1> DEFINE r == refresh[p]
           d == r.documents[r.written + 1]
           s == [r EXCEPT !.written = @ + 1]
<1>1. /\ r \in Refresh /\ CrawlOK(r)
      /\ r.pc = "write" /\ r.written < Len(r.documents)
  BY DEF Write, RefreshInv
<1>2. r.written \in Nat /\ Len(r.documents) \in Nat /\ d \in Document
  BY <1>1 DEF Refresh
<1>3. DiskInv'
  BY <1>2 DEF Write, DiskInv, DiskOK, Document
<1>4. CacheInv'
  BY DEF Write, CacheInv
<1>5. BoundsInv'
  BY MixType DEF Write, bounds, BoundsInv
<1>6. refresh' = [refresh EXCEPT ![p] = s]
  BY DEF Write, RefreshInv
<1>7. /\ s \in Refresh /\ s.pc = r.pc /\ s.queue = r.queue
      /\ s.documents = r.documents /\ s.written = r.written + 1
  BY <1>1 DEF Refresh
<1> HIDE DEF s, r
<1>8. CrawlOK(s)
  BY <1>1, <1>7, SameCrawl DEF CrawlOK
<1>9. s.written <= Len(s.documents)
  BY <1>1, <1>2, <1>7
<1>10. RefreshInv'
  BY <1>6, <1>7, <1>8, <1>9, RefreshStep
<1> QED
  BY <1>3, <1>4, <1>5, <1>10

\* What is stale is a file of no document.
LEMMA EndWriteInv ==
  ASSUME StoreInv, NEW p \in Process, EndWrite(p)
  PROVE  StoreInv'
<1> USE DEF StoreInv
<1> DEFINE r     == refresh[p]
           stale == {k \in Key \ DOMAIN Documents(r) : files[k] # "absent"}
           s     == [r EXCEPT !.pc = "delete", !.stale = stale]
<1>1. DiskInv' /\ CacheInv' /\ BoundsInv'
  BY DEF EndWrite, disk, bounds, DiskInv, DiskOK, CacheInv, BoundsInv
<1>2. /\ r \in Refresh /\ CrawlOK(r) /\ r.pc = "write"
      /\ r.written <= Len(r.documents)
  BY DEF EndWrite, RefreshInv
<1>3. refresh' = [refresh EXCEPT ![p] = s]
  BY DEF EndWrite, RefreshInv
<1>4. stale \subseteq Key
  OBVIOUS
<1> HIDE DEF stale
<1>5. /\ s \in Refresh /\ s.pc = "delete" /\ s.queue = r.queue
      /\ s.documents = r.documents /\ s.written = r.written
  BY <1>2, <1>4 DEF Refresh
<1> HIDE DEF s, r
<1>6. CrawlOK(s)
  BY <1>2, <1>5, SameCrawl DEF CrawlOK
<1>7. s.written <= Len(s.documents)
  BY <1>2, <1>5
<1>8. RefreshInv'
  BY <1>3, <1>5, <1>6, <1>7, RefreshStep
<1> QED
  BY <1>1, <1>8

\* A stale file goes.
LEMMA DeleteInv ==
  ASSUME StoreInv, NEW p \in Process, Delete(p)
  PROVE  StoreInv'
<1> USE DEF StoreInv
<1>1. PICK k \in refresh[p].stale :
        /\ files' = [files EXCEPT ![k] = "absent"]
        /\ refresh' = [refresh EXCEPT ![p].stale = @ \ {k}]
  BY DEF Delete
<1> DEFINE r == refresh[p]
           s == [r EXCEPT !.stale = @ \ {k}]
<1>2. /\ r \in Refresh /\ CrawlOK(r) /\ r.pc = "delete"
      /\ r.written <= Len(r.documents)
  BY DEF Delete, RefreshInv
<1>3. DiskInv'
  BY <1>1 DEF Delete, DiskInv, DiskOK
<1>4. CacheInv'
  BY DEF Delete, CacheInv
<1>5. BoundsInv'
  BY MixType DEF Delete, bounds, BoundsInv
<1>6. refresh' = [refresh EXCEPT ![p] = s]
  BY <1>1 DEF RefreshInv
<1>7. /\ s \in Refresh /\ s.pc = r.pc /\ s.queue = r.queue
      /\ s.documents = r.documents /\ s.written = r.written
  BY <1>2 DEF Refresh
<1> HIDE DEF s, r
<1>8. CrawlOK(s)
  BY <1>2, <1>7, SameCrawl DEF CrawlOK
<1>9. s.written <= Len(s.documents)
  BY <1>2, <1>7
<1>10. RefreshInv'
  BY <1>6, <1>7, <1>8, <1>9, RefreshStep
<1> QED
  BY <1>3, <1>4, <1>5, <1>10

\* The manifest that is written lists a whole store.
LEMMA WriteManifestInv ==
  ASSUME StoreInv, NEW p \in Process, WriteManifest(p)
  PROVE  StoreInv'
<1> USE DEF StoreInv
<1>1. /\ refresh[p] \in Refresh /\ Closed(refresh[p])
      /\ refresh[p].queue = <<>>
  BY DEF WriteManifest, RefreshInv, CrawlOK
<1>2. /\ IsDocuments(Documents(refresh[p]))
      /\ ManifestOK(Documents(refresh[p]))
  BY <1>1, DocumentsType, CrawlIsWhole DEF ManifestOK
<1>3. /\ manifest'.state = "whole" /\ manifest'.docs = Documents(refresh[p])
      /\ files' = files /\ edition' = edition
  BY DEF WriteManifest, Manifest
<1>4. DiskInv'
  BY <1>2, <1>3 DEF DiskInv, DiskOK
<1>5. CacheInv'
  BY DEF WriteManifest, CacheInv, NotLoaded, NoDocuments, IsDocuments, ManifestOK
<1>6. BoundsInv'
  BY MixType DEF WriteManifest, bounds, BoundsInv
<1>7. RefreshInv'
  BY StopStep DEF WriteManifest
<1> QED
  BY <1>4, <1>5, <1>6, <1>7

\* A fetch that is lost ends the refresh.
LEMMA LoseFetchInv ==
  ASSUME StoreInv, NEW p \in Process, LoseFetch(p)
  PROVE  StoreInv'
<1> USE DEF StoreInv
<1>1. DiskInv' /\ CacheInv'
  BY DEF LoseFetch, disk, DiskInv, DiskOK, CacheInv
<1>2. BoundsInv'
  BY SchemaStoreAssumption DEF LoseFetch, Fault, BoundsInv
<1>3. RefreshInv'
  BY StopStep DEF LoseFetch, Fail
<1> QED
  BY <1>1, <1>2, <1>3

\* A process that is killed leaves a file short, or a manifest that does not load.
LEMMA KillInv ==
  ASSUME StoreInv, NEW p \in Process, Kill(p)
  PROVE  StoreInv'
<1> USE DEF StoreInv
<1> DEFINE r == refresh[p]
<1>1. edition' = edition /\ cache' = cache
  BY DEF Kill
<1>2. DiskInv'
  <2>1. CASE UNCHANGED disk
    BY <1>1, <2>1 DEF disk, DiskInv, DiskOK
  <2>2. CASE /\ r.pc = "write" /\ r.written < Len(r.documents)
             /\ files' = [files EXCEPT ![r.documents[r.written + 1].key] = "torn"]
             /\ UNCHANGED manifest
    BY <1>1, <2>2 DEF DiskInv, DiskOK
  <2>3. CASE manifest' = Manifest("broken", NoDocuments) /\ UNCHANGED files
    <3>1. /\ manifest'.state = "broken" /\ DOMAIN manifest'.docs = {}
      BY <2>3 DEF Manifest, NoDocuments
    <3> QED
      BY <1>1, <2>3, <3>1 DEF DiskInv, DiskOK, IsDocuments, ManifestOK
  <2> QED
    BY <2>1, <2>2, <2>3 DEF Kill
<1>3. CacheInv'
  BY <1>1 DEF CacheInv
<1>4. BoundsInv'
  <2>1. mixed' \subseteq Process
    BY MixType DEF Kill
  <2> QED
    BY <2>1, SchemaStoreAssumption DEF Kill, Fault, BoundsInv
<1>5. RefreshInv'
  BY StopStep DEF Kill
<1> QED
  BY <1>2, <1>3, <1>4, <1>5

\* Another edition is an edition.
LEMMA PublishInv ==
  ASSUME StoreInv, Publish
  PROVE  StoreInv'
<1> USE DEF StoreInv
<1>1. DiskInv'
  BY SchemaStoreAssumption DEF Publish, disk, DiskInv, DiskOK
<1>2. CacheInv' /\ RefreshInv'
  BY DEF Publish, CacheInv, RefreshInv
<1>3. BoundsInv'
  BY SchemaStoreAssumption DEF Publish, Change, BoundsInv
<1> QED
  BY <1>1, <1>2, <1>3

\* An edit leaves a text, or what is none.
LEMMA EditInv ==
  ASSUME StoreInv, Edit
  PROVE  StoreInv'
<1> USE DEF StoreInv
<1>1. DiskInv'
  BY DEF Edit, DiskInv, DiskOK
<1>2. CacheInv' /\ RefreshInv'
  BY DEF Edit, CacheInv, RefreshInv
<1>3. BoundsInv'
  <2>1. mixed' \subseteq Process
    BY MixType DEF Edit
  <2> QED
    BY <2>1, SchemaStoreAssumption DEF Edit, Change, BoundsInv
<1> QED
  BY <1>1, <1>2, <1>3

\* The invariant is inductive.
LEMMA StoreNextInv == StoreInv /\ [StoreNext]_storeVars => StoreInv'
<1> SUFFICES ASSUME StoreInv, [StoreNext]_storeVars
             PROVE  StoreInv'
  OBVIOUS
<1>1. CASE UNCHANGED storeVars
  <2>1. DiskInv'
    BY <1>1 DEF storeVars, disk, StoreInv, DiskInv, DiskOK
  <2>2. CacheInv' /\ RefreshInv'
    BY <1>1 DEF storeVars, StoreInv, CacheInv, RefreshInv
  <2>3. BoundsInv'
    BY <1>1 DEF storeVars, bounds, StoreInv, BoundsInv
  <2> QED
    BY <2>1, <2>2, <2>3 DEF StoreInv
<1>2. ASSUME NEW p \in Process,
             LoadManifest(p) \/ Begin(p) \/ Turn(p) \/ LoseFetch(p) \/ Kill(p)
      PROVE  StoreInv'
  <2>1. CASE LoadManifest(p)
    BY <2>1, LoadManifestInv
  <2>2. CASE Begin(p)
    BY <2>2, BeginInv
  <2>3. CASE Visit(p)
    BY <2>3, VisitInv
  <2>4. CASE EndCrawl(p)
    BY <2>4, EndCrawlInv
  <2>5. CASE Write(p)
    BY <2>5, WriteInv
  <2>6. CASE EndWrite(p)
    BY <2>6, EndWriteInv
  <2>7. CASE Delete(p)
    BY <2>7, DeleteInv
  <2>8. CASE WriteManifest(p)
    BY <2>8, WriteManifestInv
  <2>9. CASE LoseFetch(p)
    BY <2>9, LoseFetchInv
  <2>10. CASE Kill(p)
    BY <2>10, KillInv
  <2> QED
    BY <1>2, <2>1, <2>2, <2>3, <2>4, <2>5, <2>6, <2>7, <2>8, <2>9, <2>10 DEF Turn
<1>3. CASE Publish
  BY <1>3, PublishInv
<1>4. CASE Edit
  BY <1>4, EditInv
<1> QED
  BY <1>1, <1>2, <1>3, <1>4 DEF StoreNext

------------------------------------------------------------------------------
\* In every reachable state a refresh keeps what it needs visited or queued, and
\* every manifest, on disk or read, lists a whole store or nothing.
THEOREM StoreInvariant == StoreSpec => []StoreInv
  BY StoreInitInv, StoreNextInv, PTL DEF StoreSpec

\* The state has its types: a file holds a text, nothing or a torn text; a
\* refresh has URLs in its queue and has written no more than it visited.
THEOREM StoreTypeCorrect == StoreSpec => []StoreTypeOK
<1>1. StoreInv => StoreTypeOK
  BY DEF StoreInv, DiskInv, CacheInv, RefreshInv, BoundsInv, StoreTypeOK
<1> QED
  BY <1>1, StoreInvariant, PTL

\* A store that agrees with a manifest that is whole is whole.
LEMMA AgreesIsWhole ==
  ASSUME DiskOK, NEW c, IsDocuments(Loaded(c).docs), ManifestOK(Loaded(c).docs),
         Verifies(c)
  PROVE  Whole(OnDisk)
<1> DEFINE docs == Loaded(c).docs
<1>1. /\ DOMAIN docs # {} /\ Whole(docs)
      /\ DOMAIN docs \subseteq Key /\ \A k \in DOMAIN docs : docs[k] \in Text
  BY DEF Verifies, ManifestOK, IsDocuments
<1>2. /\ \A k \in DOMAIN docs : files[k] = docs[k]
      /\ \A k \in Key \ DOMAIN docs : files[k] = "absent"
  BY DEF Verifies, Problems
<1> HIDE DEF docs
<1>3. "absent" \notin Text
  BY SchemaStoreAssumption DEF NoText
<1>4. DOMAIN OnDisk = DOMAIN docs /\ \A k \in DOMAIN docs : OnDisk[k] = docs[k]
  BY <1>1, <1>2, <1>3 DEF OnDisk
<1> QED
  BY <1>1, <1>4 DEF Whole

\* When verify() finds nothing, in any process or in a new one, the store is
\* whole (schema_store.py:152-179, 217-227, 229-254): for any documents, any
\* editions of the web, any number of refreshes, kills and edits.
THEOREM VerifiedWhole == StoreSpec => []VerifiedIsWhole
<1>1. ASSUME StoreInv
      PROVE  VerifiedIsWhole
  <2>1. DiskOK /\ IsDocuments(manifest.docs) /\ ManifestOK(manifest.docs)
    BY <1>1 DEF StoreInv, DiskInv, DiskOK
  <2>2. ASSUME NEW p \in Process, Verifies(cache[p])
        PROVE  Whole(OnDisk)
    <3>1. IsDocuments(Loaded(cache[p]).docs) /\ ManifestOK(Loaded(cache[p]).docs)
      BY <1>1, <2>1 DEF StoreInv, CacheInv, Loaded
    <3> QED
      BY <2>1, <2>2, <3>1, AgreesIsWhole
  <2>3. ASSUME Verifies(NotLoaded)
        PROVE  Whole(OnDisk)
    <3>1. /\ IsDocuments(Loaded(NotLoaded).docs)
          /\ ManifestOK(Loaded(NotLoaded).docs)
      BY <2>1 DEF NotLoaded, Loaded
    <3> QED
      BY <2>1, <2>3, <3>1, AgreesIsWhole
  <2> QED
    BY <2>2, <2>3 DEF VerifiedIsWhole
<1> QED
  BY <1>1, StoreInvariant, PTL

------------------------------------------------------------------------------
(***************************************************************************)
(* What a refresh finds on disk when nobody else writes.                   *)
(***************************************************************************)
OneEach(r) ==
  \A d, e \in ToSet(r.documents) : d.key = e.key => d = e

\* The refresh of p, its files and its manifest.
OwnOK(p) ==
  LET r == refresh[p] IN
  /\ r.pc \in {"idle", "crawl"} => r.written = 0
  /\ r.pc \in {"crawl", "write", "delete"} => OneEach(r)
  /\ r.pc = "write" =>
       \A i \in 1..r.written : files[r.documents[i].key] = r.documents[i].text
  /\ r.pc = "delete" =>
       /\ \A d \in ToSet(r.documents) : files[d.key] = d.text
       /\ \A k \in Key \ Keys(r) : files[k] = "absent" \/ k \in r.stale
       /\ r.stale \cap Keys(r) = {}
  /\ r.pc = "done" =>
       /\ manifest.state = "whole" /\ DOMAIN manifest.docs # {}
       /\ Problems(manifest.docs) = {}
       /\ cache[p].loaded => cache[p].docs = manifest.docs

OwnInv == \A p \in Process \ mixed : OwnOK(p)

\* A refresh that is not mixed by a write has written nothing itself.
LEMMA OthersWrite ==
  ASSUME OwnInv, NEW q \in Process \ mixed', NEW others, q \in others,
         Mix(others), refresh'[q] = refresh[q]
  PROVE  OwnOK(q)'
<1>1. q \notin mixed /\ refresh[q].pc \in {"idle", "crawl"}
  BY DEF Mix
<1>2. OwnOK(q)
  BY <1>1 DEF OwnInv
<1> QED
  BY <1>1, <1>2 DEF OwnOK, OneEach

\* One is not disturbed by what leaves the disk alone.
LEMMA OthersWait ==
  ASSUME OwnInv, NEW q \in Process \ mixed', mixed' = mixed, UNCHANGED disk,
         refresh'[q] = refresh[q], cache'[q] = cache[q]
  PROVE  OwnOK(q)'
<1>1. OwnOK(q)
  BY DEF OwnInv
<1> QED
  BY <1>1 DEF OwnOK, OneEach, Keys, Problems, disk

\* It holds of the store as it was committed: nobody refreshes.
LEMMA OwnInitInv == Init => OwnInv
  BY DEF Init, NoRefresh, OwnInv, OwnOK

\* A manifest that is loaded is the one on disk.
LEMMA LoadManifestOwn ==
  ASSUME StoreInv, OwnInv, NEW p \in Process, LoadManifest(p)
  PROVE  OwnInv'
<1> SUFFICES ASSUME NEW q \in Process \ mixed'
             PROVE  OwnOK(q)'
  BY DEF OwnInv
<1>1. CASE q # p
  <2>1. /\ mixed' = mixed /\ UNCHANGED disk
        /\ refresh'[q] = refresh[q] /\ cache'[q] = cache[q]
    BY <1>1 DEF LoadManifest, StoreInv, CacheInv
  <2> QED
    BY <2>1, OthersWait
<1>2. CASE q = p
  <2>1. OwnOK(p)
    BY <1>2 DEF LoadManifest, OwnInv
  <2>2. /\ refresh' = refresh /\ files' = files /\ manifest' = manifest
        /\ cache'[p].docs = manifest.docs
    BY DEF LoadManifest, disk, StoreInv, CacheInv, Loaded
  <2> QED
    BY <1>2, <2>1, <2>2 DEF OwnOK, OneEach, Keys, Problems
<1> QED
  BY <1>1, <1>2

\* Nothing is visited, or written, when a refresh begins.
LEMMA BeginOwn ==
  ASSUME StoreInv, OwnInv, NEW p \in Process, Begin(p)
  PROVE  OwnInv'
<1> SUFFICES ASSUME NEW q \in Process \ mixed'
             PROVE  OwnOK(q)'
  BY DEF OwnInv
<1>1. CASE q # p
  <2>1. /\ mixed' = mixed /\ UNCHANGED disk
        /\ refresh'[q] = refresh[q] /\ cache'[q] = cache[q]
    BY <1>1 DEF Begin, StoreInv, RefreshInv
  <2> QED
    BY <2>1, OthersWait
<1>2. CASE q = p
  <2>1. OwnOK(p) /\ refresh[p].documents = <<>>
    BY <1>2 DEF Begin, OwnInv, StoreInv, RefreshInv, CrawlOK
  <2>2. /\ refresh'[p].pc = "crawl" /\ refresh'[p].documents = <<>>
        /\ refresh'[p].written = refresh[p].written
    BY <2>1 DEF Begin, StoreInv, RefreshInv, Refresh
  <2>3. refresh[p].written = 0
    BY <2>1 DEF Begin, OwnOK
  <2> QED
    BY <1>2, <2>2, <2>3 DEF OwnOK, OneEach, ToSet
<1> QED
  BY <1>1, <1>2

\* A document is visited once.
LEMMA VisitOwn ==
  ASSUME StoreInv, OwnInv, NEW p \in Process, Visit(p)
  PROVE  OwnInv'
<1> SUFFICES ASSUME NEW q \in Process \ mixed'
             PROVE  OwnOK(q)'
  BY DEF OwnInv
<1>1. CASE q # p
  <2>1. /\ mixed' = mixed /\ UNCHANGED disk
        /\ refresh'[q] = refresh[q] /\ cache'[q] = cache[q]
    BY <1>1 DEF Visit, Fail, StoreInv, RefreshInv
  <2> QED
    BY <2>1, OthersWait
<1>2. CASE q = p
  <2> DEFINE r   == refresh[p]
             url == Head(r.queue)
             t   == edition[url.key]
  <2>1. OwnOK(p) /\ r.pc = "crawl" /\ r \in Refresh /\ r.queue # <<>>
    BY <1>2 DEF Visit, OwnInv, StoreInv, RefreshInv
  <2>2. r.written = 0 /\ OneEach(r)
    BY <2>1 DEF OwnOK
  <2>3. CASE Fail(p)
    <3>1. refresh'[p].pc = "failed"
      BY <2>3 DEF Fail, NoRefresh, StoreInv, RefreshInv
    <3> QED
      BY <1>2, <3>1 DEF OwnOK
  <2>4. CASE refresh' = [refresh EXCEPT ![p].queue = Tail(@)]
    <3>1. /\ refresh'[p].pc = "crawl" /\ refresh'[p].written = r.written
          /\ refresh'[p].documents = r.documents
      BY <2>1, <2>4 DEF StoreInv, RefreshInv, Refresh
    <3> QED
      BY <1>2, <2>2, <3>1 DEF OwnOK, OneEach
  <2>5. CASE /\ ~Visited(r, url) /\ t \in Text
             /\ \E refs \in Referenced(url, t) :
                  refresh' = [refresh EXCEPT
                    ![p].queue = Tail(@) \o refs,
                    ![p].documents = Append(@, [key |-> url.key, text |-> t])]
    <3> DEFINE d == [key |-> url.key, text |-> t]
    <3>1. /\ refresh'[p].pc = "crawl" /\ refresh'[p].written = r.written
          /\ refresh'[p].documents = Append(r.documents, d)
      BY <2>1, <2>5 DEF StoreInv, RefreshInv, Refresh
    <3>2. d \in Document /\ d.key = url.key /\ r.documents \in Seq(Document)
      <4>1. r.queue \in Seq(Url) /\ r.documents \in Seq(Document)
        BY <2>1 DEF Refresh
      <4>2. url \in Url
        BY <2>1, <4>1
      <4>3. url.key \in Key
        BY <4>2 DEF Url
      <4> QED
        BY <2>5, <4>1, <4>3 DEF Document
    <3> HIDE DEF d
    <3>3. \A a \in Seq(Document), e \in Document :
            ToSet(Append(a, e)) = ToSet(a) \cup {e}
      BY ToSetAppend
    <3>4. ToSet(Append(r.documents, d)) = ToSet(r.documents) \cup {d}
      BY <3>2, <3>3
    <3>5. \A e \in ToSet(r.documents) : e.key # d.key
      BY <2>5, <3>2 DEF Visited
    <3>6. OneEach(refresh'[p])
      BY <2>2, <3>1, <3>4, <3>5 DEF OneEach
    <3> QED
      BY <1>2, <2>2, <3>1, <3>6 DEF OwnOK, OneEach
  <2> QED
    BY <2>3, <2>4, <2>5 DEF Visit
<1> QED
  BY <1>1, <1>2

\* Nothing is written when the crawl ends.
LEMMA EndCrawlOwn ==
  ASSUME StoreInv, OwnInv, NEW p \in Process, EndCrawl(p)
  PROVE  OwnInv'
<1> SUFFICES ASSUME NEW q \in Process \ mixed'
             PROVE  OwnOK(q)'
  BY DEF OwnInv
<1>1. CASE q # p
  <2>1. /\ mixed' = mixed /\ UNCHANGED disk
        /\ refresh'[q] = refresh[q] /\ cache'[q] = cache[q]
    BY <1>1 DEF EndCrawl, StoreInv, RefreshInv
  <2> QED
    BY <2>1, OthersWait
<1>2. CASE q = p
  <2>1. OwnOK(p) /\ refresh[p].pc = "crawl" /\ refresh[p] \in Refresh
    BY <1>2 DEF EndCrawl, OwnInv, StoreInv, RefreshInv
  <2>2. /\ refresh'[p].pc = "write" /\ refresh'[p].written = refresh[p].written
        /\ refresh'[p].documents = refresh[p].documents
    BY <2>1 DEF EndCrawl, StoreInv, RefreshInv, Refresh
  <2>3. refresh[p].written = 0 /\ OneEach(refresh[p])
    BY <2>1 DEF OwnOK
  <2> QED
    BY <1>2, <2>2, <2>3 DEF OwnOK, OneEach
<1> QED
  BY <1>1, <1>2

\* The documents written so far stay as they were written.
LEMMA WriteOwn ==
  ASSUME StoreInv, OwnInv, NEW p \in Process, Write(p)
  PROVE  OwnInv'
<1> SUFFICES ASSUME NEW q \in Process \ mixed'
             PROVE  OwnOK(q)'
  BY DEF OwnInv
<1>1. CASE q # p
  <2>1. refresh'[q] = refresh[q] /\ Mix(Process \ {p})
    BY <1>1 DEF Write, StoreInv, RefreshInv
  <2> QED
    BY <1>1, <2>1, OthersWrite
<1>2. CASE q = p
  <2> DEFINE r == refresh[p]
             d == r.documents[r.written + 1]
  <2>1. /\ r \in Refresh /\ r.pc = "write" /\ r.written < Len(r.documents)
        /\ files' = [files EXCEPT ![d.key] = d.text]
        /\ files \in [Key -> Text \cup {"absent", "torn"}]
    BY <1>2 DEF Write, StoreInv, RefreshInv, DiskInv, DiskOK
  <2>2. OwnOK(p)
    BY <1>2 DEF Write, Mix, OwnInv
  <2>3. /\ OneEach(r)
        /\ \A i \in 1..r.written : files[r.documents[i].key] = r.documents[i].text
    BY <2>1, <2>2 DEF OwnOK
  <2>4. /\ refresh'[p].pc = "write" /\ refresh'[p].written = r.written + 1
        /\ refresh'[p].documents = r.documents
    BY <2>1 DEF Write, StoreInv, RefreshInv, Refresh
  <2>5. /\ r.written \in Nat /\ Len(r.documents) \in Nat
        /\ r.documents \in Seq(Document)
    BY <2>1 DEF Refresh
  <2>6. \A i \in 1..Len(r.documents) :
          /\ r.documents[i] \in ToSet(r.documents)
          /\ r.documents[i] \in Document
    BY <2>5, ToSetType
  <2>7. \A i \in 1..Len(r.documents) : r.documents[i].key \in Key
    BY <2>6 DEF Document
  <2> HIDE DEF r
  <2>8. ASSUME NEW i \in 1..(r.written + 1)
        PROVE  files'[r.documents[i].key] = r.documents[i].text
    <3>1. i \in 1..Len(r.documents) /\ r.written + 1 \in 1..Len(r.documents)
      BY <2>1, <2>5
    <3>2. CASE r.documents[i].key = d.key
      <4>1. r.documents[i] = d
        BY <2>3, <2>6, <3>1, <3>2 DEF OneEach
      <4> QED
        BY <2>1, <2>7, <3>1, <4>1
    <3>3. CASE r.documents[i].key # d.key
      <4>1. i \in 1..r.written
        BY <2>5, <3>3
      <4> QED
        BY <2>1, <2>3, <2>7, <3>1, <3>3, <4>1
    <3> QED
      BY <3>2, <3>3
  <2>9. OneEach(refresh'[p])
    BY <2>3, <2>4 DEF OneEach
  <2> QED
    BY <1>2, <2>4, <2>8, <2>9 DEF OwnOK, OneEach
<1> QED
  BY <1>1, <1>2

\* When all are written, what else is there is stale.
LEMMA EndWriteOwn ==
  ASSUME StoreInv, OwnInv, NEW p \in Process, EndWrite(p)
  PROVE  OwnInv'
<1> SUFFICES ASSUME NEW q \in Process \ mixed'
             PROVE  OwnOK(q)'
  BY DEF OwnInv
<1>1. CASE q # p
  <2>1. /\ mixed' = mixed /\ UNCHANGED disk
        /\ refresh'[q] = refresh[q] /\ cache'[q] = cache[q]
    BY <1>1 DEF EndWrite, StoreInv, RefreshInv
  <2> QED
    BY <2>1, OthersWait
<1>2. CASE q = p
  <2> DEFINE r == refresh[p]
  <2>1. /\ OwnOK(p) /\ r.pc = "write" /\ r \in Refresh /\ r.written = Len(r.documents)
        /\ files' = files
    BY <1>2 DEF EndWrite, OwnInv, StoreInv, RefreshInv, disk
  <2>2. /\ OneEach(r)
        /\ \A i \in 1..r.written : files[r.documents[i].key] = r.documents[i].text
    BY <2>1 DEF OwnOK
  <2>3. \A d \in ToSet(r.documents) : files[d.key] = d.text
    <3>1. ToSet(r.documents) = {r.documents[i] : i \in 1..Len(r.documents)}
      BY <2>1, ToSetType DEF Refresh
    <3> QED
      BY <2>1, <2>2, <3>1
  <2>4. /\ refresh'[p].pc = "delete" /\ refresh'[p].documents = r.documents
        /\ refresh'[p].stale = {k \in Key \ DOMAIN Documents(r) : files[k] # "absent"}
    BY <2>1 DEF EndWrite, StoreInv, RefreshInv, Refresh
  <2>5. DOMAIN Documents(r) = Keys(r)
    BY <2>1, DocumentsType
  <2>6. Keys(refresh'[p]) = Keys(r) /\ OneEach(refresh'[p])
    BY <2>2, <2>4 DEF Keys, OneEach
  <2> HIDE DEF r
  <2> QED
    BY <1>2, <2>1, <2>3, <2>4, <2>5, <2>6 DEF OwnOK, OneEach, Keys
<1> QED
  BY <1>1, <1>2

\* A stale file is no document's.
LEMMA DeleteOwn ==
  ASSUME StoreInv, OwnInv, NEW p \in Process, Delete(p)
  PROVE  OwnInv'
<1> SUFFICES ASSUME NEW q \in Process \ mixed'
             PROVE  OwnOK(q)'
  BY DEF OwnInv
<1>1. CASE q # p
  <2>1. refresh'[q] = refresh[q] /\ Mix(Process \ {p})
    BY <1>1 DEF Delete, StoreInv, RefreshInv
  <2> QED
    BY <1>1, <2>1, OthersWrite
<1>2. CASE q = p
  <2> DEFINE r == refresh[p]
  <2>1. PICK k \in r.stale :
          /\ files' = [files EXCEPT ![k] = "absent"]
          /\ refresh' = [refresh EXCEPT ![p].stale = @ \ {k}]
    BY DEF Delete
  <2>2. /\ r \in Refresh /\ r.pc = "delete" /\ r.stale \subseteq Key
        /\ files \in [Key -> Text \cup {"absent", "torn"}]
    BY DEF Delete, StoreInv, RefreshInv, Refresh, DiskInv, DiskOK
  <2>3. OwnOK(p)
    BY <1>2 DEF Delete, Mix, OwnInv
  <2>4. /\ OneEach(r) /\ r.stale \cap Keys(r) = {}
        /\ \A d \in ToSet(r.documents) : files[d.key] = d.text
        /\ \A j \in Key \ Keys(r) : files[j] = "absent" \/ j \in r.stale
    BY <2>2, <2>3 DEF OwnOK
  <2>5. /\ refresh'[p].pc = "delete" /\ refresh'[p].documents = r.documents
        /\ refresh'[p].stale = r.stale \ {k}
    BY <2>1, <2>2 DEF StoreInv, RefreshInv, Refresh
  <2>6. Keys(refresh'[p]) = Keys(r) /\ OneEach(refresh'[p])
    BY <2>4, <2>5 DEF Keys, OneEach
  <2>7. \A j \in Key : files'[j] = IF j = k THEN "absent" ELSE files[j]
    BY <2>1, <2>2
  <2>8. \A d \in ToSet(r.documents) : d.key \in Keys(r) /\ d.key \in Key
    <3>1. r.documents \in Seq(Document)
      BY <2>2 DEF Refresh
    <3>2. \A d \in ToSet(r.documents) : d \in Document
      BY <3>1, ToSetType
    <3> QED
      BY <3>2 DEF Keys, Document
  <2>9. \A d \in ToSet(r.documents) : files'[d.key] = d.text
    BY <2>1, <2>4, <2>7, <2>8
  <2>10. \A j \in Key \ Keys(r) : files'[j] = "absent" \/ j \in r.stale \ {k}
    BY <2>4, <2>7
  <2> HIDE DEF r
  <2> QED
    BY <1>2, <2>4, <2>5, <2>6, <2>9, <2>10 DEF OwnOK, OneEach, Keys
<1> QED
  BY <1>1, <1>2

\* The manifest is of what is on disk, and something.
LEMMA WriteManifestOwn ==
  ASSUME StoreInv, OwnInv, NEW p \in Process, WriteManifest(p)
  PROVE  OwnInv'
<1> SUFFICES ASSUME NEW q \in Process \ mixed'
             PROVE  OwnOK(q)'
  BY DEF OwnInv
<1>1. CASE q # p
  <2>1. refresh'[q] = refresh[q] /\ Mix(Process \ {p})
    BY <1>1 DEF WriteManifest, StoreInv, RefreshInv
  <2> QED
    BY <1>1, <2>1, OthersWrite
<1>2. CASE q = p
  <2> DEFINE r == refresh[p]
             docs == Documents(r)
  <2>1. /\ r \in Refresh /\ r.pc = "delete" /\ r.stale = {} /\ Closed(r)
        /\ r.queue = <<>> /\ files' = files /\ manifest' = Manifest("whole", docs)
    BY DEF WriteManifest, StoreInv, RefreshInv, CrawlOK
  <2>2. OwnOK(p)
    BY <1>2 DEF WriteManifest, Mix, OwnInv
  <2>3. /\ OneEach(r)
        /\ \A d \in ToSet(r.documents) : files[d.key] = d.text
        /\ \A j \in Key \ Keys(r) : files[j] = "absent"
    BY <2>1, <2>2 DEF OwnOK
  <2>4. /\ DOMAIN docs = Keys(r)
        /\ \A k \in Keys(r) : \E d \in ToSet(r.documents) :
             d.key = k /\ docs[k] = d.text
    BY <2>1, DocumentsType
  <2>5. Whole(docs)
    BY <2>1, CrawlIsWhole
  <2> HIDE DEF docs, r
  <2>6. DOMAIN docs # {}
    <3>1. 1 \in DOMAIN Seeds
      BY SchemaStoreAssumption
    <3> QED
      BY <2>5, <3>1 DEF Whole
  <2>7. \A k \in DOMAIN docs : files[k] = docs[k]
    BY <2>3, <2>4
  <2>8. \A k \in Key \ DOMAIN docs : files[k] = "absent"
    BY <2>3, <2>4
  <2>9. manifest'.state = "whole" /\ manifest'.docs = docs
    BY <2>1 DEF Manifest
  <2>10. Problems(manifest.docs)' = {}
    BY <2>1, <2>7, <2>8, <2>9 DEF Problems
  <2>11. refresh'[p].pc = "done" /\ ~cache'[p].loaded
    BY DEF WriteManifest, NoRefresh, NotLoaded, StoreInv, RefreshInv, CacheInv
  <2> QED
    BY <1>2, <2>6, <2>9, <2>10, <2>11 DEF OwnOK
<1> QED
  BY <1>1, <1>2

\* A refresh that stops promises nothing.
LEMMA LoseFetchOwn ==
  ASSUME StoreInv, OwnInv, NEW p \in Process, LoseFetch(p)
  PROVE  OwnInv'
<1> SUFFICES ASSUME NEW q \in Process \ mixed'
             PROVE  OwnOK(q)'
  BY DEF OwnInv
<1>1. CASE q # p
  <2>1. /\ mixed' = mixed /\ UNCHANGED disk
        /\ refresh'[q] = refresh[q] /\ cache'[q] = cache[q]
    BY <1>1 DEF LoseFetch, Fail, StoreInv, RefreshInv
  <2> QED
    BY <2>1, OthersWait
<1>2. CASE q = p
  <2>1. refresh'[p].pc = "failed"
    BY DEF LoseFetch, Fail, NoRefresh, StoreInv, RefreshInv
  <2> QED
    BY <1>2, <2>1 DEF OwnOK
<1> QED
  BY <1>1, <1>2

\* Nor does one that is killed, which mixes the others.
LEMMA KillOwn ==
  ASSUME StoreInv, OwnInv, NEW p \in Process, Kill(p)
  PROVE  OwnInv'
<1> SUFFICES ASSUME NEW q \in Process \ mixed'
             PROVE  OwnOK(q)'
  BY DEF OwnInv
<1>1. CASE q # p
  <2>1. refresh'[q] = refresh[q] /\ Mix(Process \ {p})
    BY <1>1 DEF Kill, StoreInv, RefreshInv
  <2> QED
    BY <1>1, <2>1, OthersWrite
<1>2. CASE q = p
  <2>1. refresh'[p].pc = "died"
    BY DEF Kill, NoRefresh, StoreInv, RefreshInv
  <2> QED
    BY <1>2, <2>1 DEF OwnOK
<1> QED
  BY <1>1, <1>2

\* The invariants are inductive together.
LEMMA OwnNextInv == StoreInv /\ OwnInv /\ [StoreNext]_storeVars => OwnInv'
<1> SUFFICES ASSUME StoreInv, OwnInv, [StoreNext]_storeVars
             PROVE  OwnInv'
  OBVIOUS
<1>1. CASE UNCHANGED storeVars \/ Publish
  <2>1. UNCHANGED <<disk, cache, refresh, mixed>>
    BY <1>1 DEF storeVars, Publish
  <2>2. \A q \in Process \ mixed' : OwnOK(q)'
    BY <2>1, OthersWait
  <2> QED
    BY <2>2 DEF OwnInv
<1>2. CASE Edit
  <2>1. Mix(Process) /\ refresh' = refresh
    BY <1>2 DEF Edit
  <2>2. \A q \in Process \ mixed' : OwnOK(q)'
    BY <2>1, OthersWrite
  <2> QED
    BY <2>2 DEF OwnInv
<1>3. ASSUME NEW p \in Process,
             LoadManifest(p) \/ Begin(p) \/ Turn(p) \/ LoseFetch(p) \/ Kill(p)
      PROVE  OwnInv'
  <2>1. CASE LoadManifest(p)
    BY <2>1, LoadManifestOwn
  <2>2. CASE Begin(p)
    BY <2>2, BeginOwn
  <2>3. CASE Visit(p)
    BY <2>3, VisitOwn
  <2>4. CASE EndCrawl(p)
    BY <2>4, EndCrawlOwn
  <2>5. CASE Write(p)
    BY <2>5, WriteOwn
  <2>6. CASE EndWrite(p)
    BY <2>6, EndWriteOwn
  <2>7. CASE Delete(p)
    BY <2>7, DeleteOwn
  <2>8. CASE WriteManifest(p)
    BY <2>8, WriteManifestOwn
  <2>9. CASE LoseFetch(p)
    BY <2>9, LoseFetchOwn
  <2>10. CASE Kill(p)
    BY <2>10, KillOwn
  <2> QED
    BY <1>3, <2>1, <2>2, <2>3, <2>4, <2>5, <2>6, <2>7, <2>8, <2>9, <2>10 DEF Turn
<1> QED
  BY <1>1, <1>2, <1>3 DEF StoreNext

\* After a refresh that nobody else disturbed, verify() finds nothing in its own
\* process, whatever it had read before and whatever the store had been
\* (schema_store.py:229-257).
THEOREM DoneVerified == StoreSpec => []DoneMeansVerified
<1>1. StoreInv /\ OwnInv /\ [StoreNext]_storeVars => (StoreInv /\ OwnInv)'
  BY StoreNextInv, OwnNextInv
<1>2. OwnInv => DoneMeansVerified
  <2> SUFFICES ASSUME OwnInv, NEW p \in Process, refresh[p].pc = "done", p \notin mixed
               PROVE  Verifies(cache[p])
    BY DEF DoneMeansVerified
  <2>1. OwnOK(p)
    BY DEF OwnInv
  <2>2. /\ manifest.state = "whole" /\ DOMAIN manifest.docs # {}
        /\ Problems(manifest.docs) = {}
        /\ cache[p].loaded => cache[p].docs = manifest.docs
    BY <2>1 DEF OwnOK
  <2>3. CanLoad(cache[p]) /\ Loaded(cache[p]).docs = manifest.docs
    BY <2>2 DEF CanLoad, Loaded
  <2> QED
    BY <2>2, <2>3 DEF Verifies
<1> QED
  BY <1>1, <1>2, StoreInitInv, OwnInitInv, PTL DEF StoreSpec
==============================================================================
