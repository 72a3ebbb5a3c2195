--------------------------- MODULE OptionMetadata ---------------------------
(***************************************************************************)
(* Descriptors as protoc hands them to the generator, and the rules that   *)
(* copy custom options into Arrow metadata (--fletcher_opt=                *)
(* metadata_from_option=<scope>:<option path>:<key>).                      *)
(*                                                                         *)
(* pool.messages gives every message: its file, fields, nested messages,   *)
(* options, and whether it is a flatten wrapper or a map's entry.  A field *)
(* has a name, number, label, type and options; a map is, as in a          *)
(* descriptor, a repeated message field whose type is a map entry with the *)
(* fields <<key, value>>.                                                  *)
(*                                                                         *)
(* Options are functions whose domain is what is set.  pool.extensions,    *)
(* keyed by the dotted name as a sequence of parts, and pool.subfields     *)
(* declare them; pool.enums gives the options of every enum value.  A      *)
(* rendered value is the sequence of the element texts joined with ",".    *)
(***************************************************************************)
EXTENDS Integers, Sequences, SequencesExt

VARIABLE pool

FieldsOf(m) == pool.messages[m].fields

IsMessage(f) == f.type.k = "message"

IsRepeated(f) == f.label = "repeated"

IsMap(f) == IsRepeated(f) /\ IsMessage(f) /\ pool.messages[f.type.m].map_entry

MapValue(f) == FieldsOf(f.type.m)[2]

-----------------------------------------------------------------------------
(***************************************************************************)
(* Parsing and compiling the rules.                                        *)
(***************************************************************************)

IsReservedKey(key) == key \in {"proto_package", "proto_message", "field_number", "field_id"}

ParseMetadataRule(rule) ==
  /\ rule.scope \in {"field", "field_type", "message"}
  /\ rule.steps # <<>> /\ \A s \in DOMAIN rule.steps : rule.steps[s] # <<>>
  /\ rule.key # ""
  /\ ~IsReservedKey(rule.key)

RequiredExtendee(scope, step) ==
  IF step > 1 THEN "EnumValueOptions"
  ELSE IF scope = "field" THEN "FieldOptions" ELSE "MessageOptions"

\* The lengths of the leading runs of `parts` that name an extension.
Extensions(parts) == {k \in 1..Len(parts) : SubSeq(parts, 1, k) \in DOMAIN pool.extensions}

\* Walk the sub-fields `names` of the option message `m`; <<>> is an error.
RECURSIVE SubField(_, _)
SubField(m, names) ==
  IF names[1] \notin DOMAIN pool.subfields[m] THEN <<>>
  ELSE LET f == pool.subfields[m][names[1]] IN
       IF Len(names) = 1 THEN <<f>>
       ELSE IF f.type # "message" \/ f.repeated THEN <<>>
       ELSE SubField(f.of, Tail(names))

IsRenderableTerminal(f) == f.type \in {"text", "enum"}

Dropped == [result |-> "dropped"]
Invalid == [result |-> "error"]

\* One step of a rule: the longest prefix that is an extension of the required
\* options message, then the path to the field its value comes from.
CompileStep(rule, step) ==
  LET parts == rule.steps[step]
      fits == {k \in Extensions(parts) : pool.extensions[SubSeq(parts, 1, k)].extendee
                                           = RequiredExtendee(rule.scope, step)}
      consumed == CHOOSE k \in fits : \A j \in fits : j <= k
      ext == pool.extensions[SubSeq(parts, 1, consumed)]
      path == SubSeq(parts, consumed + 1, Len(parts))
      terminal == IF path = <<>> THEN IF ext.type = "message" THEN <<>> ELSE <<ext>>
                  ELSE IF ext.type # "message" THEN <<>> ELSE SubField(ext.of, path)
      last == step = Len(rule.steps)
      sound == /\ fits # {}
               /\ terminal # <<>>
               /\ last => IsRenderableTerminal(terminal[1])
               /\ ~last => terminal[1].type = "enum" /\ ~terminal[1].repeated
  IN  IF Extensions(parts) = {} THEN Dropped
      ELSE IF ~sound THEN Invalid
      ELSE [result |-> "compiled", ext |-> SubSeq(parts, 1, consumed),
            path |-> path, terminal |-> terminal[1]]

\* A rule is dropped at its first step whose extension this pool does not know.
CompileRule(rule) ==
  LET steps == [s \in DOMAIN rule.steps |-> CompileStep(rule, s)]
      bad == SelectInSeq(steps, LAMBDA s : s.result # "compiled")
  IN  IF bad # 0 THEN steps[bad]
      ELSE [result |-> "compiled", scope |-> rule.scope, key |-> rule.key, steps |-> steps]

\* OptionMetadataResolver::Create: <<rules>>, or <<>> for an error.
CreateResolver(rules) ==
  LET compiled == [r \in DOMAIN rules |-> CompileRule(rules[r])]
  IN  IF \E r \in DOMAIN rules : compiled[r].result = "error" THEN <<>>
      ELSE <<SelectSeq(compiled, LAMBDA r : r.result = "compiled")>>

-----------------------------------------------------------------------------
(***************************************************************************)
(* Evaluating them.                                                        *)
(***************************************************************************)

\* Reflection::HasField and GetMessage may only be asked about singular
\* fields: protobuf ends the process otherwise.
Died == <<"HasField of a repeated field">>

Unset == <<>>

\* What the path `names` leads to inside an option's value.
Descend(value, names) ==
  FoldLeft(LAMBDA holder, n : IF holder = Unset \/ n \notin DOMAIN holder[1] THEN Unset
                              ELSE <<holder[1][n]>>,
           <<value>>, names)

\* RenderSingular and RenderRepeatedElement; an empty text counts as absent.
Render(terminal, value) ==
  LET texts == IF terminal.repeated THEN value ELSE <<value>>
  IN  IF texts \in {<<>>, <<"">>} THEN Unset ELSE <<texts>>

RECURSIVE EvaluateStep(_, _, _)
EvaluateStep(rule, opts, s) ==
  LET step == rule.steps[s]
      found == Descend(opts[step.ext], step.path)
      values == pool.enums[step.terminal.of]
  IN  IF pool.extensions[step.ext].repeated THEN <<Died>>
      ELSE IF step.ext \notin DOMAIN opts \/ found = Unset THEN Unset
      ELSE IF s = Len(rule.steps) THEN Render(step.terminal, found[1])
      ELSE IF found[1] \notin DOMAIN values THEN Unset
      ELSE EvaluateStep(rule, values[found[1]], s + 1)

Evaluate(rule, opts) == EvaluateStep(rule, opts, 1)

\* Last wins, at the place of the first.
Upsert(pairs, key, value) ==
  LET at == SelectInSeq(pairs, LAMBDA p : p[1] = key)
  IN  IF at = 0 THEN Append(pairs, <<key, value>>) ELSE [pairs EXCEPT ![at] = <<key, value>>]

ForMessage(rules, m) ==
  FoldLeft(LAMBDA pairs, rule :
             LET v == Evaluate(rule, pool.messages[m].options)
             IN  IF rule.scope # "message" \/ v = Unset THEN pairs
                 ELSE Upsert(pairs, rule.key, v[1]),
           <<>>, rules)

\* A rule of scope field_type reads the options of the candidate's message
\* type, which a scalar or a map does not have.
Candidate(rule, f) ==
  IF rule.scope = "field" THEN Evaluate(rule, f.options)
  ELSE IF ~IsMessage(f) \/ IsMap(f) THEN Unset
  ELSE Evaluate(rule, pool.messages[f.type.m].options)

\* Mutant: the outermost wrapper speaks first.
CandidatesOutermostFirst(leaf, chain) == Append(chain, leaf)

\* The leaf, then the flatten_field wrappers it was inlined through, innermost
\* first.
Candidates(leaf, chain) == <<leaf>> \o Reverse(chain)

ForField(rules, leaf, chain) ==
  FoldLeft(LAMBDA pairs, rule :
             LET values == [c \in DOMAIN Candidates(leaf, chain) |->
                              Candidate(rule, Candidates(leaf, chain)[c])]
                 first == SelectInSeq(values, LAMBDA v : v # Unset)
             IN  IF rule.scope = "message" \/ first = 0 THEN pairs
                 ELSE Upsert(pairs, rule.key, values[first][1]),
           <<>>, rules)

=============================================================================
