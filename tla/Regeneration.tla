---------------------------- MODULE Regeneration ----------------------------
(* What check_permutations.sh tests: codegen has made its output from a     *)
(* model.json, and the output is checked in.  tools/codegen/permute rewrites *)
(* the file in another order, codegen is run on that, and what it makes,    *)
(* through the Model that Loader returns, must be the same.                 *)
(*                                                                          *)
(* A document is the text as far as its order shows: the entries of places, *)
(* the keys of transitions and the elements of arcs, each a sequence, and a *)
(* key may occur twice.  Each of the three occurs once at the top level.    *)
EXTENDS Loader

CONSTANT Documents      \* the model.json files given to permute

\* A key that occurs again replaces what was there.
LastWins(entries) ==
    [key \in {entries[k].key : k \in DOMAIN entries} |->
        entries[Max({k \in DOMAIN entries : entries[k].key = key})].val]

\* Unmarshal of the text into a netJSON.
Decoded(doc) == [places |-> LastWins(doc.places),
                 transitions |-> ToSet(doc.transitions),
                 arcs |-> doc.arcs]

ASSUME DocumentsAssumption == Files = {Decoded(doc) : doc \in Documents}

VARIABLES document,     \* the text that permute is given; never changes
          checkedIn     \* what codegen made of it the first time

regenerationVars == <<document, checkedIn, vars>>

NotYet == [verdict |-> "none", model |-> <<>>]

\* All that codegen emits comes from the Model; a refusal emits nothing.
Outcome == [verdict |-> pc,
            model |-> IF pc = "loaded" THEN <<places, initial, transitions>> ELSE <<>>]

Returned == pc \in {"loaded", "failed"}

\* codegen is run on the original.
RegenerationInit ==
    /\ document \in Documents
    /\ file = Decoded(document)
    /\ Start
    /\ checkedIn = NotYet

\* The pairs of positions in the order of the two loops of reversed.
Pairs(n) == SetToSortSeq({p \in (1..n) \X (1..n) : p[1] < p[2]},
                         LAMBDA p, q : p[1] < q[1] \/ (p[1] = q[1] /\ p[2] < q[2]))

\* reversed: an exchange sort into descending order.
Reversed(keys) ==
    FoldLeft(LAMBDA sorted, p :
                 IF sorted[p[2]] > sorted[p[1]]
                 THEN [sorted EXCEPT ![p[1]] = sorted[p[2]], ![p[2]] = sorted[p[1]]]
                 ELSE sorted,
             keys, Pairs(Len(keys)))

\* shuffled, whatever the seed.
Shuffles(keys) ==
    {[k \in DOMAIN keys |-> keys[f[k]]] : f \in Permutations(DOMAIN keys)}

\* What an order may make of a list of keys.
Orders(order, keys) == IF order = "reverse" THEN {Reversed(keys)} ELSE Shuffles(keys)

Indices(s) == [k \in DOMAIN s |-> k]

\* parseObject keeps the keys in their order and for each the last value, and
\* render writes that value at every occurrence of the key.
Render(entries, keys) ==
    [k \in DOMAIN keys |-> [key |-> keys[k], val |-> LastWins(entries)[keys[k]]]]

KeysOf(entries) == [k \in DOMAIN entries |-> entries[k].key]

\* codegen is run again, on text.  The first outcome is the one that is kept.
Regenerate(text) ==
    /\ Returned
    /\ checkedIn' = IF checkedIn = NotYet THEN Outcome ELSE checkedIn
    /\ file' = Decoded(text)
    /\ pc' = "places"
    /\ unread' = DOMAIN file'.places
    /\ next' = 1
    /\ places' = <<>>
    /\ initial' = <<>>
    /\ byName' = [t \in file'.transitions |-> NoArcs]
    /\ transitions' = <<>>
    /\ UNCHANGED document

\* permute -order reverse, or -order seed:<n>.
Permute(order) ==
    \E placeKeys \in Orders(order, KeysOf(document.places)),
       transitionKeys \in Orders(order, document.transitions),
       arcIndices \in Orders(order, Indices(document.arcs)) :
        Regenerate([places |-> Render(document.places, placeKeys),
                    transitions |-> transitionKeys,
                    arcs |-> [k \in DOMAIN arcIndices |-> document.arcs[arcIndices[k]]]])

\* codegen is run on the original once more, as codegen_up_to_date_test does.
Direct == Regenerate(document)

RegenerationNext == \/ Direct
                    \/ \E order \in {"reverse", "seed"} : Permute(order)
                    \/ Next /\ UNCHANGED <<document, checkedIn>>

RegenerationSpec == RegenerationInit /\ [][RegenerationNext]_regenerationVars
-----------------------------------------------------------------------------
\* The output is a function of the net alone.  However the document is permuted, and
\* in whatever order Go's maps are walked in the two runs, codegen ends as it did when
\* its output was checked in: with the same Model, list by list, or with a refusal again.
RegeneratesSame == Returned /\ checkedIn # NotYet => Outcome = checkedIn

\* What was declared is what is loaded.  A document whose places have room for one
\* token and whose arcs join places and transitions is never refused; of a document
\* that is loaded, original or permuted, the Model is that of the original, and no arc
\* of it led nowhere and no place has room for more tokens than one.
LoadsWhatIsDeclared ==
    LET declared == Decoded(document)
    IN  /\ pc = "failed" => ~(ArcsResolve(declared) /\ CapacityOne(declared))
        /\ pc = "loaded" => /\ ArcsResolve(declared)
                            /\ IsModelOf(declared)
                            /\ \A p \in DOMAIN declared.places :
                                  declared.places[p].capacity <= 1

\* FORMS.md and lean.tmpl: the loader admits only models in which every place has
\* capacity 1, and rejects anything else.
OnlyCapacityOne == pc = "loaded" => CapacityOne(Decoded(document))
=============================================================================
