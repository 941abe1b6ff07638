--------------------------- MODULE SweepEvidence ----------------------------
(***************************************************************************)
(* The evidence of one sweep (topgent-report/src/evidence.rs), as it is    *)
(* written (topgent-evidence: canonical.rs, record.rs, claim.rs,           *)
(* ledger.rs, chain.rs, bundle.rs, wire.rs), carried and read back         *)
(* (reader.rs, the command line). A bundle with records, claims and one    *)
(* checkpoint is turned into tokens, one for each primitive that is        *)
(* written, and back. EvidenceBundle and EvidenceVerify have the chain,    *)
(* the handovers of keys and the verdict.                                  *)
(*                                                                         *)
(* A number is kept as the text of it; a text is short or longer than the  *)
(* redaction limit; a digest is what it is taken of.                       *)
(***************************************************************************)
EXTENDS Naturals, Sequences, SequencesExt, FiniteSets, FiniteSetsExt

CONSTANTS
  Universe,   \* facts: [n, subject, kind, fields, collector, probe, confidence, at]
  MaxFacts,   \* the longest sweep
  Collectors, \* those that ran
  Factors,    \* what the scorer can find: [code, title, confidence]
  Long,       \* texts longer than MAX_ADMISSIBLE_TEXT
  MaxHarm     \* how often a file is altered on its way

VARIABLES
  swept,   \* the facts of a sweep, in the order they were delivered
  runs,    \* the state and the dropped events of each collector that ran
  scored,  \* the factors found of an agent: [agent, factor]
  phase,   \* "observed", "sealed", "refused", "written", "read", "unreadable"
  made,    \* the bundle of the sensor
  bytes,   \* what was written of it, as tokens
  harms,   \* how often that was altered on its way
  found    \* the bundle that was read

vars == <<swept, runs, scored, phase, made, bytes, harms, found>>

Nobody == [records |-> {}, claims |-> {}, entries |-> <<>>, keys |-> <<>>, checkpoints |-> <<>>]
Self == "origin"
Signer == "key"

-----------------------------------------------------------------------------
(* What is written of a fact: the fields of each subject and claim, in     *)
(* order, each of a primitive, a vocabulary or an option of one.           *)
SubjectFields ==
  [process |-> <<"u32", "u64">>, resource |-> <<"text">>, endpoint |-> <<"text", "u16">>]

WrittenFields ==
  [process_seen |-> <<"text", "boolean", "u32", "text">>,
   process_parent |-> <<"u32">>,
   child_process_seen |-> <<"u32", "text", "u16">>,
   socket_open |-> <<"protocol", "text", "u16", "direction", "option u64", "option counters", "basis">>,
   socket_closed |-> <<"text", "u16", "direction", "u64">>,
   connection_attempt |-> <<"text", "u16", "direction", "outcome">>,
   traffic_observed |-> <<"protocol", "text", "u16", "direction", "u64", "u64", "u64">>,
   dns_query_observed |-> <<"text", "u16", "answer">>,
   file_touched |-> <<"text", "access">>,
   permission_declared |-> <<"text", "access", "boolean">>,
   resource_reachable |-> <<"text", "access", "boolean", "reachability">>,
   agent_family |-> <<"text">>,
   editor_extension_active |-> <<"text", "text">>,
   model_in_use |-> <<"text", "text">>,
   connector_declared |-> <<"text", "access">>,
   invokes_agent |-> <<"u32", "text">>,
   subject_not_evaluated |-> <<"text">>,
   action_taken |-> <<"text", "boolean">>]

(* The claims that are read back: the decoder has no arm for traffic.      *)
ReadFields == [kind \in DOMAIN WrittenFields \ {"traffic_observed"} |-> WrittenFields[kind]]

Provenance == <<"text", "text", "confidence", "u64">>

Vocabulary ==
  [access |-> {"read", "write", "read_write", "execute"},
   direction |-> {"outbound", "listening"},
   protocol |-> {"tcp", "udp", "icmp", "other", "unstated"},
   basis |-> {"unreported", "listener", "wildcard_local", "exact_tuple", "kernel_event"},
   reachability |-> {"account_readable", "path_resolves"},
   confidence |-> {"possible", "likely", "certain"},
   outcome |-> {"allowed", "blocked"},
   answer |-> {"answered", "not_found", "failed"}]

Coverages == <<"unsupported", "loss_observed", "collector_degraded", "snapshot_only", "complete_for_window">>
Qualities == <<"unknown", "contradicted", "weak", "strong", "exact">>
Limitations == {"confinement_unknown", "foreign_credentials", "no_access_check", "owner_unresolved",
                "snapshot_ancestry", "partial_tuple", "events_dropped", "sensor_gap", "provenance_unreported"}
RankOf(order, x) == CHOOSE i \in DOMAIN order : order[i] = x

-----------------------------------------------------------------------------
(* coverage_for and limitations_for.                                       *)
CoverageFor(run) ==
  CASE run.state = "unsupported" -> "unsupported"
    [] run.state \in {"permission_required", "error"} -> "collector_degraded"
    [] run.state = "available" /\ run.dropped = "none" -> "complete_for_window"
    [] run.state = "available" /\ run.dropped = "some" -> "loss_observed"
    [] run.state = "available" /\ run.dropped = "unmeasured" -> "snapshot_only"
LimitationsFor(run) == IF run.dropped = "some" THEN {"events_dropped"} ELSE {}

Weakest(coverages) == Coverages[Min({RankOf(Coverages, c) : c \in coverages})]
QualityOf(confidence) ==
  CASE confidence = "certain" -> "exact" [] confidence = "likely" -> "strong" [] confidence = "possible" -> "weak"

(* redaction_gate: every text of the fact.                                 *)
Texts(shape, values) == {values[i] : i \in {j \in DOMAIN shape : shape[j] = "text"}}
Admissible(fact) ==
  Long \cap (Texts(SubjectFields[Head(fact.subject)], Tail(fact.subject))
             \cup Texts(WrittenFields[fact.kind], fact.fields) \cup {fact.collector, fact.probe}) = {}

(* EvidenceRecord::new. A record's digest is the record itself.            *)
InRange(at) == at # "1970"
Record(sequence, run, fact) ==
  [origin |-> Self, sequence |-> sequence, coverage |-> CoverageFor(run), limitations |-> LimitationsFor(run),
   fact |-> [x \in DOMAIN fact \ {"n"} |-> fact[x]]]

CoverageOf(records) == Weakest({r.coverage : r \in records})

(* attach_claims: a claim for each factor, which names every record about  *)
(* that process. DerivedClaim::new refuses one that names none.            *)
ClaimsOf(records) ==
  {LET about == {r \in records : r.fact.subject = s.agent}
   IN [rule |-> s.factor.code, subject |-> s.agent, statement |-> s.factor.title,
       quality |-> QualityOf(s.factor.confidence), coverage |-> CoverageOf(about),
       supporting |-> about, contradicting |-> {},
       limitations |-> UNION {r.limitations : r \in about}] :
   s \in {x \in scored : \E r \in records : r.fact.subject = x.agent}}

(* A digest of the chain up to an entry is the records up to it.           *)
Sealed(records) ==
  [records |-> ToSet(records), claims |-> ClaimsOf(ToSet(records)),
   entries |-> [i \in DOMAIN records |->
     [previous |-> SubSeq(records, 1, i - 1), sequence |-> records[i].sequence, id |-> records[i],
      hash |-> SubSeq(records, 1, i)]],
   keys |-> <<Signer>>,
   checkpoints |-> IF records = <<>> THEN <<>>
     ELSE <<[key |-> Signer, origin |-> Self, through |-> Last(records).sequence, count |-> Len(records),
             head |-> records, signature |-> Signer]>>]

(* bundle_from_sweep: the facts in the order of their canonical bytes,     *)
(* one record each; any fact that is refused refuses the bundle.           *)
Ordered(facts) == SortSeq(facts, LAMBDA f, g : f.n < g.n)
Refused(fact) == ~Admissible(fact) \/ fact.collector \notin DOMAIN runs \/ ~InRange(fact.at)
BundleFrom(facts) ==
  LET ordered == Ordered(facts)
  IN Sealed([i \in DOMAIN ordered |->
       Record(i - 1, runs[ordered[i].collector], ordered[i])])

-----------------------------------------------------------------------------
(* Canonical: primitives, options and lists.                               *)
Token(type, value) == <<<<type, value>>>>
Field(type, value) ==
  IF type \in {"option u64", "option counters"}
  THEN IF value = "absent" THEN Token("tag", "0")
       ELSE Token("tag", "1") \o Token(IF type = "option u64" THEN "u64" ELSE "counters", value)
  ELSE Token(type, value)
FieldsOf(shape, values) == FlattenSeq([i \in DOMAIN shape |-> Field(shape[i], values[i])])
ListOf(items, Item(_)) ==
  Token("count", Len(items)) \o FlattenSeq([i \in DOMAIN items |-> Item(items[i])])

(* The order of digests is not the order of what they are taken of.        *)
ById(records) == SetToSortSeq(records, LAMBDA a, b : a.sequence > b.sequence)
Digest(x) == Token("id", x)
Word(x) == Token("limitation", x)

EncodeSubject(subject) ==
  Token("subject", Head(subject)) \o FieldsOf(SubjectFields[Head(subject)], Tail(subject))
EncodeFact(fact) ==
  Token("schema", "current") \o EncodeSubject(fact.subject) \o Token("claim", fact.kind)
  \o FieldsOf(WrittenFields[fact.kind], fact.fields)
  \o FieldsOf(Provenance, <<fact.collector, fact.probe, fact.confidence, fact.at>>)
EncodeRecord(r) ==
  Token("envelope", "current") \o Token("origin", r.origin) \o Token("sequence", r.sequence)
  \o Token("coverage", r.coverage) \o ListOf(SetToSeq(r.limitations), Word) \o EncodeFact(r.fact)
EncodeClaim(c) ==
  Token("rule", c.rule) \o EncodeSubject(c.subject) \o Token("text", c.statement)
  \o Token("quality", c.quality) \o Token("coverage", c.coverage)
  \o ListOf(ById(c.supporting), Digest) \o ListOf(ById(c.contradicting), Digest)
  \o ListOf(SetToSeq(c.limitations), Word)
EncodeLedger(b) == ListOf(ById(b.records), EncodeRecord) \o ListOf(SetToSeq(b.claims), EncodeClaim)
EncodeEntry(e) ==
  (IF e.previous = <<>> THEN Token("tag", "0") ELSE Token("tag", "1") \o Token("hash", e.previous))
  \o Token("sequence", e.sequence) \o Token("id", e.id) \o Token("hash", e.hash)
EncodeCheckpoint(c) ==
  Token("domain", "checkpoint") \o Token("key", c.key) \o Token("origin", c.origin)
  \o Token("sequence", c.through) \o Token("count", c.count) \o Token("hash", c.head)
  \o Token("signature", c.signature)
EncodeKey(k) == Token("key", k)
Encode(b) ==
  Token("domain", "bundle") \o EncodeLedger(b) \o Token("origin", Self) \o ListOf(b.entries, EncodeEntry)
  \o ListOf(b.keys, EncodeKey) \o Token("count", 0) \o ListOf(b.checkpoints, EncodeCheckpoint)

-----------------------------------------------------------------------------
(* Reader: what is left of the tokens, what was got from them.             *)
Start(tokens) == [rest |-> tokens, got |-> <<>>, ok |-> TRUE]
Refuse(r) == [r EXCEPT !.ok = FALSE]

(* tag, boolean, text and variant refuse what they do not know.            *)
Known(type, value) ==
  CASE type \in DOMAIN Vocabulary -> value \in Vocabulary[type]
    [] type = "subject" -> value \in DOMAIN SubjectFields
    [] type = "claim" -> value \in DOMAIN ReadFields
    [] type = "coverage" -> value \in Range(Coverages)
    [] type = "quality" -> value \in Range(Qualities)
    [] type = "limitation" -> value \in Limitations
    [] type = "boolean" -> value \in {"0", "1"}
    [] type \in {"schema", "envelope"} -> value = "current"
    [] type = "domain" -> value \in {"bundle", "checkpoint"}
    [] OTHER -> TRUE

ReadToken(r, type) ==
  IF ~r.ok \/ r.rest = <<>> \/ Head(r.rest)[1] # type \/ ~Known(type, Head(r.rest)[2]) THEN Refuse(r)
  ELSE [r EXCEPT !.rest = Tail(@), !.got = Append(@, Head(r.rest)[2])]

Yield(r, value) == [r EXCEPT !.got = <<value>>]

(* What is read next follows what was read before, if both could be.       *)
Joined(before, part) ==
  IF before.ok /\ part.ok THEN [part EXCEPT !.got = before.got \o @] ELSE Refuse(before)
InTurn(r, parts, Read(_, _)) ==
  FoldLeft(LAMBDA before, part : Joined(before, Read([before EXCEPT !.got = <<>>], part)),
           [r EXCEPT !.got = <<>>], parts)

Optional(before, tag, type, absent) ==
  IF ~tag.ok THEN tag
  ELSE IF tag.got = <<"0">> THEN Joined(before, Yield(tag, absent))
       ELSE Joined(before, ReadToken([tag EXCEPT !.got = <<>>], type))
ReadOption(r, type, absent) == Optional(r, ReadToken([r EXCEPT !.got = <<>>], "tag"), type, absent)

ReadField(r, type) ==
  CASE type = "option u64" -> ReadOption(r, "u64", "absent")
    [] type = "option counters" -> ReadOption(r, "counters", "absent")
    [] OTHER -> ReadToken(r, type)

Taken(r, shape) == InTurn(r, shape, ReadField)

(* A list claims its length, and every item of it must be there.           *)
Whole(r) == IF r.ok THEN Yield(r, r.got) ELSE r
ReadItems(count, Item(_)) ==
  IF count.ok THEN Whole(InTurn(count, [i \in 1..count.got[1] |-> i], LAMBDA r, i : Item(r))) ELSE count
ReadList(r, Item(_)) == ReadItems(Taken(r, <<"count">>), Item)

ReadWord(r) == Taken(r, <<"limitation">>)
ReadDigest(r) == Taken(r, <<"id">>)
ReadKey(r) == Taken(r, <<"key">>)

(* A kind, and the fields that go with it.                                 *)
Shaped(kind, shapes) ==
  IF kind.ok THEN Joined(kind, Taken(kind, shapes[kind.got[1]])) ELSE kind
DecodeSubject(r) == Whole(Shaped(Taken(r, <<"subject">>), SubjectFields))
DecodeFields(r) == Whole(Shaped(Taken(r, <<"claim">>), ReadFields))

(* Fact::new: the schema is the one this build has.                        *)
ReadFactPart(r, part) ==
  CASE part = "subject" -> DecodeSubject(r)
    [] part = "fields" -> DecodeFields(r)
    [] OTHER -> Taken(r, <<part>>)
AsFact(f) ==
  IF f.ok
  THEN Yield(f, [subject |-> f.got[2], kind |-> Head(f.got[3]), fields |-> Tail(f.got[3]),
                 collector |-> f.got[4], probe |-> f.got[5],
                 confidence |-> f.got[6], at |-> f.got[7]])
  ELSE f
DecodeFact(r) == AsFact(InTurn(r, <<"schema", "subject", "fields">> \o Provenance, ReadFactPart))

(* EvidenceRecord::new looks at what was read as at what was observed, and *)
(* takes its digest anew.                                                  *)
ReadRecordPart(r, part) ==
  CASE part = "words" -> ReadList(r, ReadWord)
    [] part = "fact" -> DecodeFact(r)
    [] OTHER -> Taken(r, <<part>>)
AsRecord(d) ==
  IF d.ok /\ InRange(d.got[6].at)
  THEN Yield(d, [origin |-> d.got[2], sequence |-> d.got[3], coverage |-> d.got[4],
                 limitations |-> ToSet(d.got[5]), fact |-> d.got[6]])
  ELSE Refuse(d)
DecodeRecord(r) ==
  AsRecord(InTurn(r, <<"envelope", "origin", "sequence", "coverage", "words", "fact">>, ReadRecordPart))

(* DerivedClaim::new refuses a claim without a record.                     *)
ReadClaimPart(r, part) ==
  CASE part = "subject" -> DecodeSubject(r)
    [] part = "records" -> ReadList(r, ReadDigest)
    [] part = "words" -> ReadList(r, ReadWord)
    [] OTHER -> Taken(r, <<part>>)
AsClaim(c) ==
  IF c.ok /\ c.got[6] # <<>>
  THEN Yield(c, [rule |-> c.got[1], subject |-> c.got[2], statement |-> c.got[3],
                 quality |-> c.got[4], coverage |-> c.got[5],
                 supporting |-> ToSet(c.got[6]), contradicting |-> ToSet(c.got[7]),
                 limitations |-> ToSet(c.got[8])])
  ELSE Refuse(c)
DecodeClaim(r) ==
  AsClaim(InTurn(r, <<"rule", "subject", "text", "quality", "coverage", "records", "records", "words">>,
                 ReadClaimPart))

ReadEntryPart(r, part) ==
  IF part = "previous" THEN ReadOption(r, "hash", <<>>) ELSE Taken(r, <<part>>)
AsEntry(e) ==
  IF e.ok
  THEN Yield(e, [previous |-> e.got[1], sequence |-> e.got[2], id |-> e.got[3], hash |-> e.got[4]])
  ELSE e
DecodeEntry(r) == AsEntry(InTurn(r, <<"previous", "sequence", "id", "hash">>, ReadEntryPart))

AsCheckpoint(c) ==
  IF c.ok /\ c.got[1] = "checkpoint"
  THEN Yield(c, [key |-> c.got[2], origin |-> c.got[3], through |-> c.got[4], count |-> c.got[5],
                 head |-> c.got[6], signature |-> c.got[7]])
  ELSE Refuse(c)
DecodeCheckpoint(r) ==
  AsCheckpoint(Taken(r, <<"domain", "key", "origin", "sequence", "count", "hash", "signature">>))

ReadBundlePart(r, part) ==
  CASE part = "records" -> ReadList(r, DecodeRecord)
    [] part = "claims" -> ReadList(r, DecodeClaim)
    [] part = "entries" -> ReadList(r, DecodeEntry)
    [] part \in {"keys", "rotations"} -> ReadList(r, ReadKey)
    [] part = "checkpoints" -> ReadList(r, DecodeCheckpoint)
    [] OTHER -> Taken(r, <<part>>)

(* Reader::read: nothing may be left over; Ledger::add_claim refuses a     *)
(* claim that names a record that is not there.                            *)
AsBundle(b) ==
  IF /\ b.ok /\ b.got[1] = "bundle" /\ b.rest = <<>>
     /\ \A c \in ToSet(b.got[3]) : c.supporting \cup c.contradicting \subseteq ToSet(b.got[2])
  THEN [ok |-> TRUE, bundle |->
         [records |-> ToSet(b.got[2]), claims |-> ToSet(b.got[3]), entries |-> b.got[5],
          keys |-> b.got[6], checkpoints |-> b.got[8]]]
  ELSE [ok |-> FALSE]
Decode(tokens) ==
  AsBundle(InTurn(Start(tokens), <<"domain", "records", "claims", "origin", "entries", "keys", "rotations",
                                   "checkpoints">>, ReadBundlePart))

-----------------------------------------------------------------------------
Init ==
  /\ swept = <<>>
  /\ runs \in [Collectors -> {[state |-> "available", dropped |-> d] : d \in {"none", "some", "unmeasured"}}
                              \cup {[state |-> s, dropped |-> "unmeasured"] : s \in {"unsupported", "error"}}]
  /\ scored = {} /\ phase = "observed" /\ made = Nobody /\ bytes = <<>> /\ harms = 0 /\ found = Nobody

Agents == {f.subject : f \in {g \in ToSet(swept) : Head(g.subject) = "process"}}

Observe(fact) ==
  /\ phase = "observed" /\ Len(swept) < MaxFacts /\ scored = {}
  /\ swept' = Append(swept, fact)
  /\ UNCHANGED <<runs, scored, phase, made, bytes, harms, found>>

(* The scorer's factors are of agents, which facts are about.              *)
Score(agent, factor) ==
  /\ phase = "observed" /\ agent \in Agents
  /\ scored = {} \/ (Cardinality(scored) < 2 /\ \A s \in scored : s.factor # factor)
  /\ scored' = scored \cup {[agent |-> agent, factor |-> factor]}
  /\ UNCHANGED <<swept, runs, phase, made, bytes, harms, found>>

Produce ==
  /\ phase = "observed"
  /\ IF \E f \in ToSet(swept) : Refused(f) THEN phase' = "refused" /\ made' = Nobody
     ELSE phase' = "sealed" /\ made' = BundleFrom(swept)
  /\ UNCHANGED <<swept, runs, scored, bytes, harms, found>>

Write ==
  /\ phase = "sealed"
  /\ phase' = "written" /\ bytes' = Encode(made)
  /\ UNCHANGED <<swept, runs, scored, made, harms, found>>

(* The file is cut short, goes on, or has a word of a later version.       *)
Words == DOMAIN Vocabulary \cup {"subject", "claim", "coverage", "quality", "limitation", "schema", "envelope"}
Harm ==
  /\ phase = "written" /\ harms < MaxHarm /\ harms' = harms + 1
  /\ \/ \E n \in 0..(Len(bytes) - 1) : bytes' = SubSeq(bytes, 1, n)
     \/ bytes' = bytes \o Token("tag", "0")
     \/ \E i \in DOMAIN bytes : bytes[i][1] \in Words /\ bytes' = [bytes EXCEPT ![i][2] = "later"]
  /\ UNCHANGED <<swept, runs, scored, phase, made, found>>

Read ==
  /\ phase = "written"
  /\ LET decoded == Decode(bytes)
     IN IF decoded.ok THEN phase' = "read" /\ found' = decoded.bundle
        ELSE phase' = "unreadable" /\ UNCHANGED found
  /\ UNCHANGED <<swept, runs, scored, made, bytes, harms>>

Next ==
  \/ \E fact \in Universe : Observe(fact)
  \/ \E agent \in Agents, factor \in Factors : Score(agent, factor)
  \/ Produce \/ Write \/ Harm \/ Read

Spec == Init /\ [][Next]_vars

-----------------------------------------------------------------------------
(* evidence.rs:216-225, scan.rs:488-491: a bundle has each fact of its     *)
(* sweep once, and is the same in whatever order they were delivered.      *)
Delivered(permutation) == [i \in DOMAIN swept |-> swept[permutation[i]]]
EachFactOnce ==
  phase \in {"sealed", "written", "read"} =>
    /\ Len(made.entries) = Len(swept) /\ Cardinality(made.records) = Len(swept)
    /\ \A permutation \in SetToAllKPermutations(DOMAIN swept) :
         Len(permutation) = Len(swept) => BundleFrom(Delivered(permutation)) = made

(* evidence.rs:279-283, 308-319: a claim rests on every record about its   *)
(* process, says no more than the weakest of them, and states the limits   *)
(* of each.                                                                *)
ClaimsRest ==
  \A c \in made.claims :
    /\ c.supporting # {}
    /\ c.supporting = {r \in made.records : r.fact.subject = c.subject}
    /\ \A r \in c.supporting :
         RankOf(Coverages, c.coverage) <= RankOf(Coverages, r.coverage) /\ r.limitations \subseteq c.limitations

(* evidence.rs:131-142: content is refused, and not cut down to a limit.   *)
NothingLong == \A i \in DOMAIN bytes : bytes[i][1] = "text" => bytes[i][2] \notin Long

(* reader.rs:12-17: what was written reads back as it was, and what is cut *)
(* short, goes on or has an unknown word is refused. (Traffic that was     *)
(* observed does not read back.)                                           *)
OfTraffic == \E f \in ToSet(swept) : f.kind = "traffic_observed"
ReadsAsWritten ==
  /\ phase = "read" => harms = 0 /\ found = made
  /\ phase = "unreadable" => harms > 0 \/ OfTraffic

EvidenceHolds == EachFactOnce /\ ClaimsRest /\ NothingLong /\ ReadsAsWritten

(* wire.rs:468-471: the decoder mirrors the encoder, arm for arm.          *)
WrittenIsRead == phase = "unreadable" => harms > 0
=============================================================================
