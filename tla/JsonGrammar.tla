---------------------------- MODULE JsonGrammar -----------------------------
(***************************************************************************)
(* The grammar of include/corecpp/serialization/json.BNF, over sequences   *)
(* of kinds of tokens.                                                     *)
(***************************************************************************)
EXTENDS Naturals, Sequences

\* After(tokens, n, rule) is the set of the positions up to which the rule
\* can read tokens when n of them have been read.
RECURSIVE After(_, _, _)
After(tokens, n, rule) ==
  LET kind(k) == IF k < Len(tokens) THEN tokens[k + 1] ELSE "end"
      one(kinds) == IF kind(n) \in kinds THEN {n + 1} ELSE {}
      then(from, r) == UNION {After(tokens, k, r) : k \in from}
  IN  CASE rule = "value" ->
             one({"string", "integral", "numeric", "true", "false", "null"})
               \cup After(tokens, n, "object") \cup After(tokens, n, "array")
        [] rule = "object" -> then(then(one({"{"}), "pairs"), "}")
        [] rule = "array"  -> then(then(one({"["}), "values"), "]")
        [] rule = "pairs"  -> {n} \cup then(After(tokens, n, "pair"), "more pairs")
        [] rule = "values" -> {n} \cup then(After(tokens, n, "value"), "more values")
        [] rule = "more pairs"  -> {n} \cup then(then(one({","}), "pair"), "more pairs")
        [] rule = "more values" -> {n} \cup then(then(one({","}), "value"), "more values")
        [] rule = "pair"   -> then(then(one({"string"}), ":"), "value")
        [] OTHER -> one({rule})

InGrammar(tokens) == Len(tokens) \in After(tokens, 0, "value")
=============================================================================
