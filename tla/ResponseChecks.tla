---------------------------- MODULE ResponseChecks -----------------------------
(***************************************************************************)
(* What a run makes of the responses it gets: runtime/response_validator.  *)
(* py, wsa_validator.py and raw_soap.py, over the documents of SchemaStore,*)
(* which other processes may be refreshing meanwhile.                      *)
(*                                                                         *)
(* The run builds a zeep client for a service from the documents it finds  *)
(* when it first needs it, and the index of enumerations from those it     *)
(* finds at its first response.  Each is done in one step here.            *)
(* Validation is on, as it is by default; ConformanceRun has the option.   *)
(*                                                                         *)
(* A document's content declares elements and types.  A response body is a *)
(* tree: a function on addresses, the address of a child being that of its *)
(* parent and an index more.                                               *)
(***************************************************************************)
EXTENDS SchemaStore

CONSTANTS
  Elements,    \* each content's global elements: a type for some QNames
  Types,       \* each content's types, by name; those of XML Schema that it uses
               \* count as its own, whatever their names
  Enums,       \* each content's enumerations: the values of some types
  DevMgmt,     \* the key of the device management WSDL
  Response,    \* the responses the device may give, each with its service
  MaxResponses, \* bound
  MaxActive    \* bound: processes that do anything, the run among them

\* A type is its child elements and its required attributes; a child is its
\* QName, the least times it occurs, and the name of its type.
\* The address of a node is its parent's and an index; a tree is finitely deep.
IsTree(body) ==
  /\ IsFiniteSet(DOMAIN body)
  /\ \A a \in DOMAIN body :
       /\ a \in Seq(Nat) /\ Len(a) \in 1..Cardinality(DOMAIN body)
       /\ Len(a) > 1 => Front(a) \in DOMAIN body

ASSUME ResponseChecksAssumption ==
  /\ DOMAIN Elements = Text /\ DOMAIN Types = Text /\ DOMAIN Enums = Text
  /\ \A t \in Text : \A n \in DOMAIN Enums[t] :
       n \in DOMAIN Types[t] /\ Enums[t][n] # {}
  /\ \A r \in Response :
       /\ \E i \in DOMAIN Seeds : Seeds[i].key = r.service
       /\ r.action \in {"none", "request", "response", "fault"}
       /\ \A f \in r.fault : {f.code, f.reason} \subseteq {"whole", "hollow", "absent"}
       /\ IsTree(r.body)
  /\ MaxResponses \in Nat /\ MaxActive \in Nat

VARIABLES
  seen,      \* _MANIFEST of the run
  clients,   \* dut.zeep_clients, in the order they were bound
  index,     \* _ENUMS
  schema,    \* session.schema_violations
  wsa,       \* session.wsa_violations
  received,  \* history: responses, how they came, and what then was on disk
  sound      \* history: the store verified whenever the run turned to it, and no
             \* one has touched it since the first time

runVars == <<seen, clients, index, schema, wsa, received, sound>>
vars == <<storeVars, runVars>>

NoIndex == [built |-> FALSE, texts |-> {}]

------------------------------------------------------------------------------
(***************************************************************************)
(* What zeep reads.                                                        *)
(***************************************************************************)
\* What a document refers to can be had: beside it, or through the transport,
\* which serves what the manifest lists and nothing else.
Served(docs, ref) ==
  files[ref.key] \in Text /\ (ref.scheme = "relative" \/ ref.key \in DOMAIN docs)

RefersTo(keys) == UNION {Refs[files[k]] : k \in {j \in keys : files[j] \in Text}}

\* The documents reached from a WSDL: those no set can be without that has the
\* WSDL and whatever those in the set refer to.
Reach(key) ==
  {k \in Key : ~ \E keys \in SUBSET (Key \ {k}) :
     key \in keys /\ {r.key : r \in RefersTo(keys)} \subseteq keys}

\* The types that documents name, for their elements and in their types, and
\* those they declare.
NamedIn == [t \in Text |->
  {Elements[t][tag] : tag \in DOMAIN Elements[t]}
  \cup UNION {{d.type : d \in Types[t][n].elements} : n \in DOMAIN Types[t]}]

Named(texts) == UNION {NamedIn[t] : t \in texts}

Declared(texts) == UNION {DOMAIN Types[t] : t \in texts}

Built(key) == [service |-> key, docs |-> {files[k] : k \in Reach(key)}]

\* zeep compiles what it has read: every type that is named has to be there.
CanBuild(key, docs) ==
  /\ key \in DOMAIN docs /\ files[key] \in Text
  /\ \A r \in RefersTo(Reach(key)) : Served(docs, r)
  /\ LET own == Built(key).docs IN Named(own) \subseteq Declared(own)

\* The client, if there is one.
Client(key, docs) == IF CanBuild(key, docs) THEN <<Built(key)>> ELSE <<>>

\* enum_index: every document of the manifest that can be read.
Readable(docs) == {files[k] : k \in DOMAIN docs} \cap Text

\* Of the documents that enumerate a type one counts, the last in the manifest.
Allowed(texts, type) ==
  LET those == {t \in texts : type \in DOMAIN Enums[t]}
  IN  UNION {Enums[t][type] : t \in {u \in those : u = CHOOSE v \in those : TRUE}}

------------------------------------------------------------------------------
(***************************************************************************)
(* validate_element and validate_body.                                     *)
(***************************************************************************)
Children(tree, a) == {b \in DOMAIN tree : Len(b) = Len(a) + 1 /\ Front(b) = a}

TypeNamed(docs, name) ==
  Types[CHOOSE t \in docs : name \in DOMAIN Types[t]][name]

\* Mutant: by the local name alone.
SameName(tag, decl) == tag.local = decl.tag.local

\* By QName: a child of another namespace is not the declared one.
Is(tag, decl) == tag = decl.tag

Missing(tree, a, type) ==
  {<<"missing-element", a, d.tag>> : d \in {e \in type.elements :
     Cardinality({b \in Children(tree, a) : Is(tree[b].tag, e)}) < e.min}}
  \cup {<<"missing-attribute", a, n>> : n \in type.required \ tree[a].attrs}

BadValue(tree, a, type, enums) ==
  {v \in {<<"bad-enum", a, tree[a].text>>} :
     /\ Allowed(enums, type) # {}
     /\ tree[a].text # ""
     /\ tree[a].text \notin Allowed(enums, type)}

\* For a node and the name of its type: what the node lacks, and what is wrong
\* in the values of its declared children and below them.
Walk(tree, docs, enums) ==
  LET walk[a \in DOMAIN tree] ==
        [name \in Declared(docs) |->
           LET type == TypeNamed(docs, name)
           IN  Missing(tree, a, type)
               \cup UNION {UNION {BadValue(tree, b, d.type, enums) \cup walk[b][d.type] :
                                   d \in {e \in type.elements : Is(tree[b].tag, e)}} :
                           b \in Children(tree, a)}]
  IN  walk

\* The first client that knows the element.
Find(finders, tag) ==
  LET Knows(i) == \E t \in finders[i].docs : tag \in DOMAIN Elements[t]
  IN  UNION {{[docs |-> finders[i].docs, type |-> Elements[t][tag]] :
                t \in {u \in finders[i].docs : tag \in DOMAIN Elements[u]}} :
             i \in {j \in DOMAIN finders : \A h \in 1..(j - 1) : ~Knows(h)}}

\* Every child of the Body that is not a Fault.
Roots(body) == {a \in DOMAIN body : Len(a) = 1 /\ body[a].tag.local # "Fault"}

ValidateBody(body, finders, enums) ==
  UNION {UNION {Walk(body, f.docs, enums)[a][f.type] : f \in Find(finders, body[a].tag)} :
         a \in Roots(body)}

------------------------------------------------------------------------------
(***************************************************************************)
(* WSAValidator.ingress.                                                   *)
(***************************************************************************)
\* The Code of a Fault has a Value, and its Reason a Text; either may lack it, or
\* be absent itself.
FaultStructure(f) ==
  {v \in {"fault-missing-code"} : f.code = "absent"}
  \cup {v \in {"fault-code-missing-value"} : f.code = "hollow"}
  \cup {v \in {"fault-missing-reason"} : f.reason = "absent"}
  \cup {v \in {"fault-reason-missing-text"} : f.reason = "hollow"}

\* The Action is found in a header of either SOAP.
ActionOf(r) == IF r.envelope = "other" THEN "none" ELSE r.action

\* Mutant: a response without an Action is let off.
LenientAddressing(r) ==
  {v \in {"soap11-envelope"} : r.envelope = "soap11"}
  \cup {v \in {"non-soap12-envelope"} : r.envelope \notin {"soap11", "soap12"}}

\* The structure of a Fault is looked at if the Action says that it is one.
AddressingViolations(r) ==
  {v \in {"soap11-envelope"} : r.envelope = "soap11"}
  \cup {v \in {"non-soap12-envelope"} : r.envelope \notin {"soap11", "soap12"}}
  \cup {v \in {"missing-action"} : ActionOf(r) = "none"}
  \cup {v \in {"wrong-action-suffix"} : ActionOf(r) = "request"}
  \cup UNION {FaultStructure(f) : f \in {g \in r.fault :
          ActionOf(r) = "fault" /\ r.envelope = "soap12"}}

------------------------------------------------------------------------------
RunInit ==
  /\ Init
  /\ seen = NotLoaded
  /\ clients = <<>>
  /\ index = NoIndex
  /\ schema = {}
  /\ wsa = {}
  /\ received = {}
  /\ sound = TRUE

Look ==
  /\ seen' = Loaded(seen)
  /\ sound' = (sound /\ (seen.loaded \/ Verifies(NotLoaded)))

Bound(key) == \E i \in DOMAIN clients : clients[i].service = key

\* DUT.__getattr__: the client of a service, unless a document is not vendored,
\* not there or not to be parsed, which fails the test.
Bind(key) ==
  /\ ~Bound(key)
  /\ CanLoad(seen)
  /\ Look
  /\ clients' = clients \o Client(key, Loaded(seen).docs)
  /\ UNCHANGED <<storeVars, index, schema, wsa, received>>

\* What is recorded of a Body, and the index it takes, which is built at the
\* first element that is walked.
Judge(r, finders, docs) ==
  LET walks == \E a \in Roots(r.body) : Find(finders, r.body[a].tag) # {}
      texts == IF index.built THEN index.texts ELSE Readable(docs)
  IN  IF r.envelope = "soap12" /\ walks
        THEN /\ index' = [built |-> TRUE, texts |-> texts]
             /\ schema' = schema \cup ({r} \X ValidateBody(r.body, finders, texts))
        ELSE UNCHANGED <<index, schema>>

Receive(r, via) ==
  /\ Cardinality(received) < MaxResponses
  /\ received' = received \cup {<<r, via>>}

\* The plugins of a zeep client see every envelope.
Ingress(r) ==
  /\ Bound(r.service)
  /\ Receive(r, "zeep")
  /\ wsa' = wsa \cup ({r} \X AddressingViolations(r))
  /\ Judge(r, clients, seen.docs)
  /\ UNCHANGED <<storeVars, seen, clients, sound>>

\* element_finder_for_services: clients of its own, built anew each time.
Finders(r, docs) == Client(r.service, docs) \o Client(DevMgmt, docs)

\* raw_soap_call: a Fault is raised before anything is looked at, and so is a
\* missing Body; else each child of the Body is looked up.
Asks(r) == r.fault = {} /\ r.envelope = "soap12" /\ Roots(r.body) # {}

\* A manifest that cannot be read is swallowed with the lookup.
RawCall(r) ==
  /\ Receive(r, "raw")
  /\ \/ ~Asks(r) /\ UNCHANGED <<seen, index, schema, sound>>
     \/ /\ Asks(r) /\ ~CanLoad(seen)
        /\ sound' = FALSE
        /\ UNCHANGED <<seen, index, schema>>
     \/ /\ Asks(r) /\ CanLoad(seen)
        /\ Look
        /\ Judge(r, Finders(r, Loaded(seen).docs), Loaded(seen).docs)
  /\ UNCHANGED <<storeVars, clients, wsa>>

\* The store, in its own time.
StoreStep ==
  /\ StoreNext
  /\ sound' = (sound /\ (seen.loaded => disk' = disk))
  /\ UNCHANGED <<seen, clients, index, schema, wsa, received>>

\* A store nobody writes to may stay as it is.
Terminated == StoreOver /\ UNCHANGED vars

Began == seen.loaded \/ received # {}

Active == {p \in Process : refresh[p].pc # "idle" \/ cache[p].loaded}

\* The bound on the processes that have done something; which of those that
\* refresh comes first is all the same.
Few ==
  /\ Cardinality(Active) <= MaxActive - (IF Began THEN 1 ELSE 0)
  /\ \A p \in Active : 1..p \subseteq Active

Next ==
  \/ StoreStep /\ Few'
  \/ /\ Began \/ Cardinality(Active) < MaxActive
     /\ \/ \E i \in DOMAIN Seeds : Bind(Seeds[i].key)
        \/ \E r \in Response : Ingress(r) \/ RawCall(r)
  \/ Terminated

Spec == RunInit /\ [][Next]_vars /\ StoreFairness

------------------------------------------------------------------------------
Code == {"missing-element", "missing-attribute", "bad-enum"}

RunOK ==
  /\ sound \in BOOLEAN
  /\ IsDocuments(seen.docs)
  /\ \A i \in DOMAIN clients : clients[i].docs \subseteq Text
  /\ index.built \in BOOLEAN /\ index.texts \subseteq Text
  /\ \A v \in schema : v[1] \in Response /\ v[2][1] \in Code
  /\ \A v \in wsa : v[1] \in Response
  /\ received \subseteq Response \X {"zeep", "raw"}

TypeOK == StoreTypeOK /\ RunOK

------------------------------------------------------------------------------
(***************************************************************************)
(* What is wrong with a response by the documents of a store, said without *)
(* the walk: every node has a type or none, and each is looked at alone.   *)
(***************************************************************************)
TypeOf(texts, name) ==
  UNION {{Types[t][name]} : t \in {u \in texts : name \in DOMAIN Types[u]}}

\* The names of a node's type: one, if the documents know it.
Typing(body, texts) ==
  LET typing[a \in DOMAIN body] ==
        IF Len(a) = 1
          THEN {Elements[t][body[a].tag] : t \in {u \in texts :
                  body[a].tag \in DOMAIN Elements[u] /\ body[a].tag.local # "Fault"}}
          ELSE {d.type : d \in {e \in UNION {type.elements : type \in
                                  UNION {TypeOf(texts, n) : n \in typing[Front(a)]}} :
                                e.tag = body[a].tag}}
  IN  typing

Occurrences(body, a, tag) ==
  Cardinality({b \in DOMAIN body : Len(b) = Len(a) + 1 /\ Front(b) = a
                                   /\ body[b].tag = tag})

\* What a node of a type lacks.
Lacks(body, a, type) ==
  {<<"missing-element", a, d.tag>> : d \in
     {e \in type.elements : Occurrences(body, a, e.tag) < e.min}}
  \cup {<<"missing-attribute", a, n>> : n \in type.required \ body[a].attrs}

\* The values permitted for a type, by each document that enumerates them.
Permitted(texts, n) == {Enums[t][n] : t \in {u \in texts : n \in DOMAIN Enums[u]}}

\* Its value, if it is not a root and a document does not permit it.
Forbidden(body, a, n, texts) ==
  {v \in {<<"bad-enum", a, body[a].text>>} :
     /\ Len(a) > 1 /\ body[a].text # ""
     /\ \E values \in Permitted(texts, n) : body[a].text \notin values}

\* What is wrong at a node by a type of that name.
FlawsAt(body, a, n, texts) ==
  Forbidden(body, a, n, texts)
  \cup UNION {Lacks(body, a, type) : type \in TypeOf(texts, n)}

Flaws(body, texts) ==
  LET typing == Typing(body, texts)
  IN  UNION {UNION {FlawsAt(body, a, n, texts) : n \in typing[a]} : a \in DOMAIN body}

Unjudged(r, via) ==
  r.envelope # "soap12" \/ (via = "raw" /\ r.fault # {})

Flawless(r) ==
  /\ r.envelope = "soap12" /\ r.action \in {"response", "fault"}
  /\ r.action = "fault" => \A f \in r.fault : f.code = "whole" /\ f.reason = "whole"

\* No element and no type is declared by two documents.
Unique(texts) ==
  \A t, u \in texts :
    t # u => DOMAIN Elements[t] \cap DOMAIN Elements[u] = {}
             /\ DOMAIN Types[t] \cap DOMAIN Types[u] = {}

\* The documents of the service can be compiled, and declare what the Body
\* holds if any of the store do.
OfItsService(r) ==
  LET own == Built(r.service).docs
  IN  /\ Named(own) \subseteq Declared(own)
      /\ \A a \in Roots(r.body) : \A t \in Range(OnDisk) :
           r.body[a].tag \in DOMAIN Elements[t] => t \in own

Judged == {r \in Response : \E via \in {"zeep", "raw"} :
             <<r, via>> \in received /\ ~Unjudged(r, via)}

\* On a store that verified when the run first looked and that nobody touches,
\* a run records of the responses it got nothing but what is wrong with them by
\* the vendored documents, and all of it where the response is of the service
\* that was asked, nested as deep as they go and whichever way they came
\* (response_validator.py:157-259, raw_soap.py:187-220); and of their addressing
\* nothing only if there is nothing, in those that came through zeep
\* (wsa_validator.py:57-125).
SinkIsExact ==
  /\ sound /\ Unique(Range(OnDisk)) =>
       /\ schema \subseteq UNION {{r} \X Flaws(r.body, Range(OnDisk)) : r \in Judged}
       /\ \A r \in Judged :
            OfItsService(r) => {r} \X Flaws(r.body, Range(OnDisk)) \subseteq schema
  /\ \A r \in Response : <<r, "zeep">> \in received =>
       (Flawless(r) <=> \A v \in wsa : v[1] # r)
==============================================================================
