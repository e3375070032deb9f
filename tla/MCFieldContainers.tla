--------------------------- MODULE MCFieldContainers -------------------------
(***************************************************************************)
(* A message with a singular field, a repeated field of messages and a map *)
(* from strings.  As a key, "a" and "a_bytes" convert to the same string   *)
(* but are not equal, "empty" is the default key, and "other" is refused;  *)
(* as a message, "a_bytes" stands for one that cannot be parsed.  "caller" *)
(* is equal to "a" and converts to the same, by Python code of its own.    *)
(***************************************************************************)
EXTENDS FieldContainers

MCPyValues == {"empty", "a", "a_bytes", "b", "other", "caller"}

Casts(default, a, a_bytes, b) ==
  [v \in MCPyValues |-> CASE v = "empty" -> default [] v \in {"a", "caller"} -> a
                          [] v = "a_bytes" -> a_bytes [] v = "b" -> b
                          [] OTHER -> "refused"]

MCSingular == {"name"}
MCRepeated == {"items"}
MCMaps     == {"attrs"}
MCContents == {"default", "x", "y"}

MCValueCast == [f \in MCSingular \cup MCRepeated \cup MCMaps |->
  CASE f = "items" -> Casts("default", "x", "y", "x")
    [] OTHER       -> Casts("default", "x", "x", "x")]

MCKeyCast   == [f \in MCMaps |-> Casts("default", "x", "x", "y")]
MCKeyPython == [f \in MCMaps |-> [x \in MCContents |->
                  CASE x = "default" -> "empty" [] x = "x" -> "a" [] x = "y" -> "b"]]
MCClass     == [v \in MCPyValues |-> IF v = "caller" THEN "a" ELSE v]

Of(k, v) == [key |-> k, value |-> v]

MCArguments == {
  [type |-> "sequence",
   items |-> <<Of("empty", "a"), Of("empty", "empty"), Of("empty", "other")>>],
  [type |-> "sequence", items |-> <<Of("empty", "empty"), Of("empty", "a_bytes")>>],
  [type |-> "dict", items |-> <<Of("b", "a"), Of("other", "a")>>],
  [type |-> "dict", items |-> <<Of("caller", "a"), Of("b", "caller")>>] }

Set(f, type, items) == [field |-> f, type |-> type, items |-> items]

MCKeywords == {
  << Set("name", "value", <<Of("empty", "a")>>),
     Set("items", "sequence", <<Of("empty", "a"), Of("empty", "a_bytes")>>),
     Set("attrs", "dict", <<Of("b", "caller")>>) >>,
  << Set("attrs", "dict", <<Of("b", "a"), Of("other", "a")>>),
     Set("items", "dict", <<>>) >>,
  << Set("items", "sequence", <<Of("empty", "b")>>), Set("no_field", "value", <<Of("empty", "a")>>) >>,
  << Set("name", "value", <<Of("empty", "other")>>) >> }

Donor(name, serialize) ==
  [name |-> name, serialize |-> serialize, single |-> [f \in MCSingular |-> "x"],
   list |-> [f \in MCRepeated |-> <<IF serialize = "malformed" THEN "y" ELSE "x">>],
   map |-> [f \in MCMaps |-> <<[key |-> "y", value |-> "x"]>>]]

MCDonors  == {Donor("Type", "bytes"), Donor("Type", "malformed"), Donor("Type", "fails"),
              Donor("OtherType", "bytes")}
MCIndices == -5 .. 5
MCSteps   == {-2, -1, 1, 2}
=============================================================================
