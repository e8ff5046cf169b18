--------------------------- MODULE MCResponseChecks ----------------------------
(* ResponseChecks with two services over a schema that they refer to by two   *)
(* schemes, and that refers, by two again, to a document which refers back to *)
(* it.  A second edition drops that document, which is gone, and changes the  *)
(* schema.  The store is committed with the first edition, or empty.          *)
EXTENDS ResponseChecks

Import(scheme, key) == [tag |-> "import", scheme |-> scheme, key |-> key]
Include(scheme, key) == [tag |-> "include", scheme |-> scheme, key |-> key]

MCKey == {"dev", "media", "tt", "common"}
MCText == {"dev1", "media1", "tt1", "tt2", "common1"}

MCRefs == [t \in MCText |->
  CASE t \in {"dev1", "media1"} -> {Import("relative", "tt")}
    [] t = "tt1"     -> {Include("relative", "common"), Include("http", "common")}
    [] t = "common1" -> {Import("http", "tt")}
    [] OTHER         -> {}]

MCSeeds == << [scheme |-> "https", key |-> "dev"],
              [scheme |-> "http", key |-> "media"] >>

First == [dev |-> "dev1", media |-> "media1", tt |-> "tt1", common |-> "common1"]
Second == [First EXCEPT !.tt = "tt2", !.common = "gone"]
MCEditions == {First, Second}

MCVendored == {First, [k \in {} |-> "none"]}

------------------------------------------------------------------------------
Tds(l) == [ns |-> "tds", local |-> l]
Trt(l) == [ns |-> "trt", local |-> l]
Tt(l)  == [ns |-> "tt", local |-> l]
Child(tag, min, type) == [tag |-> tag, min |-> min, type |-> type]
Type(elements, required) == [elements |-> elements, required |-> required]
None == [x \in {} |-> {}]

MCElements == [t \in MCText |->
  CASE t = "dev1"   -> Tds("GetDotResponse") :> "Dots"
    [] t = "media1" -> Trt("GetProfilesResponse") :> "Profiles"
    [] OTHER        -> None]

MCTypes == [t \in MCText |->
  CASE t = "dev1"    -> "Dots" :> Type({Child(Tds("Dot"), 2, "number")}, {})
                        @@ "number" :> Type({}, {})
    [] t = "media1"  -> "Profiles" :> Type({Child(Trt("Profile"), 0, "Profile")}, {})
    [] t = "tt1"     -> "Profile" :> Type({Child(Tt("Name"), 1, "string"),
                                           Child(Tt("Encoding"), 0, "Encoding")},
                                          {"token"})
                        @@ "string" :> Type({}, {})
    [] t = "tt2"     -> "Profile" :> Type({Child(Tt("Encoding"), 1, "Encoding")}, {})
                        @@ "Encoding" :> Type({}, {}) @@ "string" :> Type({}, {})
    [] t = "common1" -> "Encoding" :> Type({}, {})
    [] OTHER         -> None]

MCEnums == [t \in MCText |->
  CASE t = "common1" -> "Encoding" :> {"H264"}
    [] t = "tt2"     -> "Encoding" :> {"H264", "H265"}
    [] OTHER         -> None]

Node(tag, text, attrs) == [tag |-> tag, text |-> text, attrs |-> attrs]

Answer(service, body) ==
  [service |-> service, envelope |-> "soap12", action |-> "response",
   fault |-> {}, body |-> body]

Dots(a, b) == <<1>> :> Node(Tds("GetDotResponse"), "", {})
              @@ <<1, 1>> :> Node(a, "", {}) @@ <<1, 2>> :> Node(b, "", {})

Profiles(attrs, name, encoding) ==
  <<1>> :> Node(Trt("GetProfilesResponse"), "", {})
  @@ <<1, 1>> :> Node(Trt("Profile"), "", attrs)
  @@ <<1, 1, 1>> :> Node(name, "x", {})
  @@ <<1, 1, 2>> :> Node(Tt("Encoding"), encoding, {})

FaultBody == <<1>> :> Node([ns |-> "soap12", local |-> "Fault"], "", {})

MCFault(code, reason) ==
  [Answer("media", FaultBody) EXCEPT
     !.action = "fault", !.fault = {[code |-> code, reason |-> reason]}]

MCResponse == {
  [Answer("dev", Dots(Tds("Dot"), Tds("Dot"))) EXCEPT !.action = "request"],
  Answer("dev", Dots(Tds("Dot"), [ns |-> "vendor", local |-> "Dot"])),
  [Answer("dev", Dots(Tds("Dot"), Tds("Dot"))) EXCEPT !.envelope = "soap11"],
  [Answer("dev", Dots(Tds("Dot"), Tds("Dot"))) EXCEPT !.envelope = "other"],
  Answer("media", Profiles({"token"}, Tt("Name"), "H264")),
  Answer("media", Profiles({}, Tt("Name"), "H265")),
  [Answer("media", Profiles({"token"}, Trt("Name"), "")) EXCEPT !.action = "none"],
  MCFault("whole", "whole"), MCFault("absent", "hollow"), MCFault("hollow", "absent") }
==============================================================================
