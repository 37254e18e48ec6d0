# Verification of httpsig-rs

TLA+ models, TLC model checking and TLAPS proofs for the two crates of this
repository: `httpsig` (HTTP message signatures, RFC 9421, on abstract messages)
and `httpsig-hyper` (the same on `http::Request` and `http::Response`, plus
`content-digest`).

## The system

| Component | Source | State | Operations | What makes it correct |
|---|---|---|---|---|
| Message signature API | `httpsig-hyper/src/hyper_http.rs` | the headers of one message; while verifying, the extracted map and the results so far | `set_message_signature(s)`, `verify_message_signature(s)`, getters | Ok means really signed by that key, over what the message (or the request given for `req`) says now, and not expired; an intact signature is found whatever else is in the message; signing leaves earlier signatures alone |
| Signature base and headers | `httpsig/src/signature_base.rs` | none (values) | build the base, write `signature-input` and `signature`, parse them back | what is written is read back as the same parameters under the same name; the base determines every value |
| Signature parameters | `httpsig/src/signature_params.rs` | the record being built | `try_new`, setters, `is_expired`, `Display`, conversion from an inner list | round trip; expiry at the boundary; no overflow |
| Message components | `httpsig/src/message_component/`, `extract_*` in `hyper_http.rs` | none | conversion of identifiers, extraction of fields and derived components | equal lines only for equal values; refusals instead of wrong values |
| Cryptography | `httpsig/src/crypto/` | keys | `sign`, `verify`, loading, `key_id`, `alg` | verify accepts what the same key signed, returns an error for the rest |
| Content digest | `httpsig-hyper/src/hyper_content_digest.rs` | the body of the message | `set_content_digest`, `verify_content_digest` | Ok only for the body that was digested; the message comes back with its body |
| Blocking API | `*_sync` in `hyper_http.rs` | none of its own; the thread-local flag of `block_on` | the async calls under `block_on` | refused where nested and nowhere else, whatever panicked before; a panic leaves the messages alone |

How they interact: the API builds one *signature base* per signature from the
message's *components* in the order of the *parameters*, gives it to a *key*,
and appends two header values. A verifier parses the two fields back into a map
from names to parameters and signature bytes, rebuilds each base from the
message as it is now, and tries the keys. The digest functions take the whole
message, wait for its body and give back another one; a signature covers the
body only through the `content-digest` field. There is no shared state and no
thread: a call borrows or consumes its message. What is hard is everything that
happens between the calls (other signers, intermediaries that merge or drop
header lines, changed content, another request for `req`), several signatures
in one pair of fields, calls that fail halfway or are dropped while a body
arrives, the clock, which is read once per signature while a call is under way,
and the executors a blocking call may find itself in.

The hazards are listed, each at its line and with the properties that watch it,
in `PROJECT.json`.

## Modules

```
Sfv                    header fields and structured fields (external crates)
 Components            identifiers, extraction of component values
  Transit              component values of a request on its way
  SignatureParams      parameters: expiry, serialization, parsing outcome
   ParamsBuilder       a program that builds, writes and converts parameters
   SignatureHeaders    signature base; writing and parsing the two fields
 ContentDigest         digest of a body that arrives frame by frame
Crypto                 algorithms, what verify returns
 Keys                  reading keys, key ids, looking a key up
 MessageSignature      signers, verifiers, environment (with SignatureHeaders)
  Exchange             client, server, network (with ContentDigest)
BlockingApi            the *_sync calls and the executors around them
Attestation            abstract: what MessageSignature implements
AuthenticExchange      abstract: what Exchange implements
```

`MC<module>` holds the instance of a module for TLC (BlockingApi needs none),
`<module>_proofs` its theorems. `ComponentsFacts` proves the facts on sequences
and fields that the proof modules share, and what a component reads of a field
that grows.

**Sfv** models what `src/` relies on in `http::HeaderMap` and the `sfv` crate.
A field is the sequence of its members over all its lines, each with a form
(dictionary member, list item, unparsable text, not visible ASCII), a key, a
typed value and a flag that says whether a new line starts there. Joining the
lines forgets the flag; a dictionary keeps, of a repeated key, the first
position and the last value. A bare key is a dictionary member whose value is
true and a list item as well: a line of nothing but items and bare keys is a
list (`OnListLine`), one of nothing but keys a dictionary, and some are both.

**Components** has, for every kind of component, one operator that says whether
the code returns Ok and one for the value. Strings are atoms; case mapping is a
constant function. A value is the text of one line of the base, cut into a
sequence of tuples, so that the joins the code makes (`", "`, `"?"`, `"&"`) are
kept and nothing else of the text is. `handle_params_sf` and
`handle_params_key_into` work line by line, and `sf` tries each line as a list
before it tries it as a dictionary, so bare keys alone on a line keep their
repetitions (`SfField`); `DerivedOk` holds the refusals of
both `extract_derived_component` and `build_derived_component`, split in
`DerivedAllowed` and `DerivedBuilds`.

**SignatureParams**: options are sets of at most one value. `DisplayForm` says
what a parser makes of what `Display` writes. Strings are written between quotes
without escaping, so a string with a quote or a backslash either makes the text no
structured field (`UnparsableStrings`, such as `say "hi"`) or is read as something
else than it was (`RereadStrings`, such as `a";b="c`). A string outside ASCII
makes a value that is no header value, and an integer beyond 15 digits no
structured field either. `ParamsOutcome` is the
conversion back: Ok, an error, or a panic (an unknown derived name; a negative
`created` or `expires`).

**SignatureHeaders**: a signature is a token, the number of the signing that made
it (0 for one made elsewhere). `TryParseOutcome` has the checks of
`HttpSignatureHeaders::try_parse` in their order; `ExtractSignatures` drops
entries whose base cannot be built.

**Crypto**: ideal signatures. `VerifyOutcome` depends on whether the signature is
genuine and on its length, because two arms convert the slice with `into()`.

**MessageSignature** has four variables:

| Variable | In the code |
|---|---|
| `now` | `SystemTime::now()` in seconds |
| `message` | the `Request` or `Response` |
| `call` | the future of `verify_message_signatures`: its arguments, the extracted map, the key (`Len(results)+1`) and signature (`next`) it is at, the names verified for that key, the results |
| `signed` | history only: key, name, base and true component values of everything ever signed |

| Action | Code |
|---|---|
| `SetMessageSignatures` | `set_message_signatures`: all bases, all signatures, then the append loop with its early exit. When a base fails the call changes nothing, hence no action |
| `BeginVerify` | `verify_message_signatures` up to the first key: presence, parsing (error or panic), extraction |
| `CheckSignature` | one step of the `filter_map` in `verify_message_signatures_inner`: filter by key id, expiry with the clock of that moment, the key |
| `FinishKey` | the result of one key, in order |
| `Return` | the caller gets the result |
| `Tick`, `Rewrite`, `MergeLines`, `Strip` | environment: the clock (at any time); content, line merging and removal of a signature only between calls, because a call borrows the message |

A request's call takes no `req_for_param` (`ReqForParam`). `set_message_signature`
and `verify_message_signature` are the calls with one element.

**Attestation** says what that is for, without headers, names, bases or bytes:
keys attest to values, an inquiry asks about the message as it is key by key, and
a yes needs an attestation of that key to the values of now that had not expired
before the inquiry began. `MessageSignature` defines the mapping (`Attestations`,
`Inquiry`) and `KeepsPromise` is the abstract specification under it.

**ContentDigest** has the message, its body (frames not read yet, and whether it
is open, closed or failed), and the future under way (`task`). `arrived` (all
bytes that came) and `vouched` (the message is as set or verify gave it back) are
history. `Arrive` and `EndBody` interleave with `Collect`, which takes one frame;
`FinishSet` and `FinishVerify` need the end of the body. A call that fails or is
dropped (`Cancel`) takes message and body with it (`Lose`), because the code
consumes the message. `ExtractContentDigest` reads the first line only and
refuses it unless it holds one byte sequence under one known algorithm. Digests
are ideal: a digest is the pair of algorithm and bytes.

**ParamsBuilder**: one action per setter of `HttpSignatureParams`, `TryNew`,
`ToText` (Display) and `TryFromText`. `now` is the clock, `lifetime` the history
of a duration that was set. Integers are 0..`MaxU64`, and `created + duration`
beyond it wraps or panics, as the build decides. Text with a string of
`RereadStrings` may be any text that a peer could write (`WrittenLike`, an
over-approximation): what it says, and whether it converts, fails or panics, is
left open. A panic, of the assert at
`signature_params.rs:106` too, leaves no parameters.

**Keys**: what is read is a symbolic document (raw bytes of some length, a DER
structure with its OIDs, a PEM label around it), and `ReadSecret`, `ReadPublic`
and `ReadShared` give Ok with a key, an error, or a panic, in the order of the
code's checks. A verifier holds a ring of keys, and looks up the one that the
message names by algorithm and key id (`get_alg_key_ids`).

**BlockingApi**: each thread has a stack of executors and blocking calls and the
thread-local flag of `futures::executor::enter`. `SetSync` and `VerifySync` find
the flag set and panic (`Refused`) or set it (`Called`). A polled call ends with
Ok, with an error, which may leave some of its signatures appended
(`SetReturns`, `VerifyReturns`), or with a panic (`SetPanics`, `VerifyPanics`): of
what a received message says (`signature_length` and `foreign_params`
below), or in a key that somebody wrote. While it runs, its key
may enter executors and make calls of its own. `UnwindTo` drops as many frames
as a panic passes through before somebody catches it. That the future is ready
at its first poll is no property here but a fact of the source that the model
rests on: nothing is awaited but `join_all` over blocks without an await.

**Exchange** composes `MessageSignature` and `ContentDigest` (INSTANCE `D` on the
shared message) the way the examples and tests use them: set the digest, sign,
send; verify the signature, then the digest, then accept. The response covers
`"@method";req` and `"content-digest";req`. The network is the set of everything
that was ever sent: it delivers late, twice, never, to whoever asks, cut into
other frames, with lines joined, or with one thing changed (content, body,
digest and body, one signature, a body that breaks off). One message is in hand
at a time: two parties share nothing but what is sent, so their steps commute.
**AuthenticExchange** is what that promises.

**Transit** leaves signing out and follows one request past intermediaries that
join and split lines, write structured values anew, and add or drop members and
query parameters. `Meaning` is what a component with `sf`, `key` or `name` says
when all lines of its field are read together, written from the definition of
structured fields and not from the code, which reads line by line.

## Runs

| Run | Module | Expect | Shows |
|---|---|---|---|
| `message_signature` | MCMessageSignature | pass, 880,227 states | requests and responses with `req` components: three keys (Ed25519, P-256, HMAC), 15 sign requests, six verify requests, foreign signatures; responses are verified with the right request, another one, or none |
| `transit` | MCTransit | pass, 11,932 states | seven requests and every three changes on the way |
| `content_digest` | MCContentDigest | pass, 7,715 states | digests set and verified while bodies arrive, fail and calls are dropped |
| `params_builder` | MCParamsBuilder | pass, 1,583,970 states | five calls in any order, texts of the library and of others |
| `keys` | MCKeys | pass, 133,376 states | documents of every family read under every algorithm; a ring of two keys |
| `exchange` | MCExchange | pass, 216,877 states | two keys, two bodies, two requests, two responses, three signatures |
| `blocking_api` | BlockingApi | pass, 407,044 states | two threads, three frames deep |
| `same_name` | MCMessageSignature | violation of `EverySignatureIndependent` | the second signature under one name hides the first |
| `signature_length` | MCMessageSignature | violation of `VerifyReturns` | P-384 key on an Ed25519 signature panics |
| `foreign_params` | MCMessageSignature | violation of `VerifyReturns` | an unknown `@` component, or a negative `created`, in a received message panics |
| `sync_in_runtime` | BlockingApi | violation of `PanicsInRuntime` | a blocking call in a tokio task returns |
| `duration_from_now` | MCParamsBuilder | violation of `DurationCountsFromNow` | a duration counts from `created`, not from the clock |

What the passing runs check, in the order of the table:

- `TypeOK`: one type invariant.
- `HeadersPaired`: the two fields stay paired member by member, each signature
  over its own parameters, although the append loop can stop halfway, lines merge
  and members are dropped.
- `AcceptedWasSigned`: a result Ok(name) for a key stands for an entry of that
  name, a candidate for the key id, whose signature that key made over these
  parameters and over these component values, compared with the *values*
  recorded when it was signed and not with the base string.
- `AcceptedWasFresh`: an accepted signature was unexpired at some moment of the
  call, so one that had expired before it began is refused.
- `IntactIsAccepted`: the converse. A key gets an error only if no intact
  signature of it (in the message, its name not reused, values unchanged, not
  expired) has the key id asked for. This is where a boundary error in the
  expiry, or a foreign entry that hides others, would show.
- `SigningKeepsVerifiable` (action property): signatures set under unused names
  verify at once, and what was verifiable before still is, unless it covers the
  changed member of the signature fields itself (the field as a whole, or by a
  `key` that is one of the new names).
- `KeepsPromise` (refinement): `MessageSignature` implements `Attestation`. Under
  `req` it says that a yes is about the request given now.
- `EqualLinesEqualMeaning`: a component that arrives with the signed value means
  what it meant when it was signed, although lines are joined without their
  boundaries and keys and query parameters may repeat.
- `EqualMeaningEqualLines`: what does not change the meaning does not break the
  signature. Meaning is that of a list or of a dictionary, whichever the field is
  defined as; the code is not told which. Two cases are excepted, and TLC finds
  the property violated when either exception is dropped. A key that comes back on another
  line: the code signs both values (as its test at `component.rs:350` wants), where
  the field read as a whole has the last one only, so an intermediary that joins
  those lines breaks the signature. And under `sf` a key that comes back on a line
  of bare keys (`a, a`): the code takes the line for a list and signs both, so an
  intermediary that writes the dictionary as `a` breaks the signature. A query
  parameter that is absent counts as empty: so the code signs it, unless the
  whole query is empty, which is an error.
- `DigestTypeOK`: the type invariant of the digest calls.
- `PassedWhole` (action property): a message comes back with its whole body, after
  the peer closed it.
- `VerifiedMatches`: what Ok from `verify_content_digest` means.
- `VouchedVerifiesAgain`: what set or verify gave back verifies again, whatever
  digests the message came with.
- `DigestCallEnds` (liveness): a call ends once the body has ended or failed.
- `BuilderTypeOK`: shape, u64 range, no component twice, however the parameters
  came about.
- `DurationCountsFromCreated`: parameters given a duration are expired exactly when
  it is over, counted from the `created` they had then, whatever is called
  afterwards and however the clock moves. The comment on the setter says something
  else (`duration_from_now`).
- `OwnTextConverts` (action property): text of the library converts back to the
  very parameters it was written from, or is refused with an error, as long as no
  unescaped string makes other parameters of it.
- `NamedKeyFits`: the key that a verifier finds under the algorithm and key id of
  a message verifies it, whatever form either side read its key from.
- `OnlyLengthsPanic`: reading a key panics for its length only, never for a
  standard document read under another algorithm.
- `IntactPasses`: what is delivered as it was sent passes signature and digest.
- `ExchangeIsAuthentic` (refinement): `Exchange` implements `AuthenticExchange`.
  The server serves only a method, headers and body that the client sent
  together; the client concludes only from a response that the server made to a
  request of the same method and body. It does *not* say which of two such
  requests: nothing in the covered components tells them apart, nothing checks
  nonces or duplicates, and the response's own body is not covered by the
  examples' signature.
- `RefusedWhereNested`: `block_on` refuses a blocking call exactly where an
  executor of the futures crate, or another such call, is under way on its own
  thread: no panic before, caught at whatever depth, leaves the flag set or clears
  that of a call further out.
- `UnwoundLeavesMessage` (action property): a panic leaves the message of every call
  that it unwinds with the signatures that it was called with, because all
  signatures are made before the first is appended. A call that *fails* may leave
  some (`HeadersPaired` says in what state).

Bounds and why they are enough: `MaxSigned = 2` lets two signings, or one call
with two, meet in one pair of fields, together with a foreign signature; all
properties relate at most two signatures. `MaxTime = 1` with `expires = 0` puts
the clock before, at and after the boundary, also between two checks of one
call. Sign requests include a repeated default name, a name that is no
structured-field key, parameters that do not serialize, a list that fails at its
second item, a base that cannot be built, and signatures that cover another
signature (by member and as a whole field). Requests and responses share one run:
what is meant for the other kind of message fails there as it does in the code.

`transit`: three changes reach a repeated key on one line and on two, with values
and bare, a list next to a dictionary, an unparsable line and a repeated, empty or bare query
parameter; both properties compare two readings of at most five members.
`content_digest`: three bytes in frames of one or two, so that a call finds none,
some or all of a body; fields with no, one, two, unknown and wrong digests, on
one and two lines. `params_builder`: `MaxU64 = 1000` stands for 2^64-1 and
`MaxSfvInteger = 900` for 10^15-1, so that sums fall below, between and beyond;
five calls are try_new, two setters, and a write with its conversion back.
`keys`: two keys per family, two in the ring, every document form the readers
tell apart. `exchange`: `MaxSigned = 3` is a request with two signatures and a
response, or two requests and a response; `MaxTaken = 1` bounds only how many
messages are *accepted*, each of which is checked against everything sent; the
clock stands still, since expiry is covered by `message_signature`.
`blocking_api`: three frames hold a runtime, a call in it and what its key enters,
in which a further call is refused; two signatures tell a list that failed halfway
from one that did not; threads share nothing, two show that.
The exchange and the parameter runs stop when nothing more may be sent or called
(`CHECK_DEADLOCK FALSE`); the other passing runs check deadlock.

Fairness: the one liveness property is `DigestCallEnds`, and there only
`DigestProgress` is weakly fair: a task is woken for every frame and for the end
of the body; the peer may never send it, and the caller may drop the future.
Nothing is assumed of signers, callers, the clock, the network or intermediaries.
That a verification ends is no property: it goes once over the keys and entries it
has, without waiting.

Every property of a passing run has a mutant: a changed definition, such as
`IsExpiredAt` or `SignatureFirst`, written next to the original and marked
`mutant`, under which TLC finds the property violated.

### Disagreements with the repository's own words

Shown by a run:

- *"every signature is independent and verified separately"*
  (`httpsig-hyper/examples/hyper-request.rs:139`): not when names repeat, and
  they do when two signers leave the name out (`same_name`).
- *"If invalid for the given key or error occurs [...], return Err"*
  (`hyper_http.rs:316`): an ECDSA key panics on a signature of another length
  (`asymmetric.rs:362,372`; `signature_length`), an unknown derived component name
  panics during parsing (`component_name.rs:91`; `foreign_params`), and so does
  a negative `created` or `expires` (`signature_params.rs:197`; the other initial
  message of that run).
- *"Calling any `*_sync` method from within an async runtime (e.g. inside a
  `tokio::spawn` task) will panic"* (`lib.rs:20`, and `hyper_http.rs:144,186`):
  `block_on` panics in an executor of the futures crate only; in a tokio task the
  call returns (`sync_in_runtime`).
- *"Set `expires` timestamp from the current timestamp"*
  (`signature_params.rs:104`): it is set from `created`, which may be another time
  (`duration_from_now`).

To be read off a definition, without a run:

- *"Verify the content digest in the request and returns self if it's valid"*
  (`hyper_content_digest.rs:77`): the body that comes back has no trailers
  (`Full` in `ContentDigest`).
- *"use the uncompressed SEC1 encoding of the public key point"*
  (`asymmetric.rs:405`): `key_id` hashes the compressed encoding (`Form` in `Keys`).

## Proofs

For every value of the constants:

| Module | Theorem | Statement |
|---|---|---|
| `MessageSignature_proofs` | `TypeCorrect` | `Spec => []TypeOK` |
| | `VerifiedWasSigned` | `Spec => []AcceptedWasSigned` |
| | `VerifiedWasFresh` | `Spec => []AcceptedWasFresh` |
| | `FieldsStayPaired` | `Spec => []HeadersPaired`, if the initial messages come with paired fields |
| | `SigningKeepsPromise` | `Spec => KeepsPromise`: the refinement |
| | `IntactIsAlwaysAccepted` | `Spec => []IntactIsAccepted`, if the initial messages come with paired fields |
| | `SigningAlwaysKeepsVerifiable` | `Spec => SigningKeepsVerifiable`, under the same condition |
| `Exchange_proofs` | `ExchangeInvariance` | `ExchangeSpec => []ExchangeInv` |
| | `ExchangeIsAlwaysAuthentic` | `ExchangeSpec => ExchangeIsAuthentic`: the refinement |
| | `IntactAlwaysPasses` | `ExchangeSpec => []IntactPasses`, between parties that are `Interoperable` |
| `ContentDigest_proofs` | `DigestTypeCorrect` | `DigestSpec => []DigestTypeOK` |
| | `OkMeansDigestMatches` | `DigestSpec => []VerifiedMatches` |
| | `OkStaysVerifiable` | `DigestSpec => []VouchedVerifiesAgain` |
| | `BodyPassesWhole` | `DigestSpec => PassedWhole` |
| `ParamsBuilder_proofs` | `BuilderTypeCorrect` | `BuilderSpec => []BuilderTypeOK` |
| | `DurationIsKept` | `BuilderSpec => []DurationCountsFromCreated` |
| | `OwnTextAlwaysConverts` | `BuilderSpec => OwnTextConverts` |
| `Keys_proofs` | `NamedKeyAlwaysFits` | `KeysSpec => []NamedKeyFits` |
| | `StandardNeverPanics` | `KeysSpec => []OnlyLengthsPanic` |
| `Transit_proofs` | `EqualLinesAlwaysMean` | `TransitSpec => []EqualLinesEqualMeaning` |
| | `EqualMeaningAlwaysSigns` | `TransitSpec => []EqualMeaningEqualLines` |
| `BlockingApi_proofs` | `RefusedOnlyWhereNested` | `BlockingSpec => []RefusedWhereNested` |
| | `PanicsLeaveMessages` | `BlockingSpec => UnwoundLeavesMessage` |

### MessageSignature

Assumptions: `KeyAssumption`, `BoundAssumption`, `MessageAssumption` (initial and
rewritten messages are requests or responses, with what these have, and two
signature fields that are sequences) and `RequestAssumption` (argument lists are
sequences, keys exist, an `expires` to be signed is a u64, an identifier has a
list of parameters) and `StringAssumption` (no parameters to be signed hold a
string whose text is read as other parameters), all evaluated by TLC. `FieldsStayPaired`,
`IntactIsAlwaysAccepted` and `SigningAlwaysKeepsVerifiable` have one more, stated
in the theorems: nothing in the library pairs the fields that somebody else sent.

Argument. `AcceptedWasSigned` is not inductive: it speaks of finished calls only.
`Inv` adds `HistoryInv` (the values recorded with a signature are those in its
base) and `CallInv` (every name collected so far for the current key, and every
Ok among the results, is *attested*: some entry of that name is a candidate, is
genuine over the base of the message as it stands, and was unexpired at a moment
of the call). It is preserved because message and history do not change while a
call exists and the clock only grows (`AttestedStays`); `CheckedOk` brings new
names in, `FinishKey` carries the first of them into the results. At the end
`BaseDeterminesValues`, equal bases have equal parameters and values, turns a
genuine signature into the claim. `PairInv` strengthens `HeadersPaired` by
where the tokens come from: 0 or a recorded signing, so a later signing cannot
give meaning to a token already in a header.

`IntactIsAccepted` speaks of finished calls too. `TriedInv` says of a running one
that no entry before `next` that *deserves* the current key (a candidate,
genuine, unexpired now) has been passed over without a name being collected, and
that no result so far is an error while an entry deserves its key. What deserves
a key now deserved it at every earlier moment of the call (`DeservedBefore`),
because the clock only makes signatures expire, and a check of it is Ok
(`DeservingIsOk`), whatever length the signature has. `BaseInv` (what is recorded
with a signature has the lines of its values) turns unchanged values into an
unchanged base, and `PairInv` with the lemmas on `DictKeys` and `DictValue` shows
that an intact signature is among the entries (`IntactIsRead`).

`SigningKeepsVerifiable` relates two states, and needs what every kind of
component reads. `GrowsTo` says how a signing changes the message: lines of one
member each, under the new names, at the end of the two fields (`SigningGrows`;
all of them are appended, because names and parameters serialize).
`ReadsOthers` is what is left of `CoversSignatures`: a component of another
field, or of one of the two through a `key` that is no new name. `ComponentGrows`
then says that such a component has the value it had: the parameters of an
identifier are applied one after the other (`ParamsUnfold`), `sf` writes the old
lines as it did and leaves the new ones behind them (`SfFieldLonger`), and the first
`key` drops the new ones (`KeyFieldLonger`), after which there is no difference
(`ReadLonger`). On the other side, `HeadersAccepted` reduces the parsing of the two
headers to the last member of every name, and those stay last under names that
are not used again (`LastStays`).

The refinement uses the same `Inv`: signing adds attestations that `HistoryInv`
makes true ones, every environment step changes nothing that an open inquiry
reads, a check is a stutter, and `FinishKey` is `Answer`, whose yes is the
attested name of `CallInv`.

Sequences are handled with `IsSeq(s)` (a sequence over its own elements), because
the content of messages is arbitrary; the lemmas at the head of the module say
what appending, concatenating and dropping do to such a sequence.

### Exchange

`ExchangeInv` takes `HistoryInv` and `CallInv` of the signatures as they are, with
the types, and ties the two components together: every signature was made over
the components of a message that was sent or is about to be (`SignedInv`); what
is in hand while it is signed or verified is what the conversation says
(`HandInv`, `SentInv`); the digest call under way works on that message
(`TaskInv`); a verification reads only entries whose base it can build
(`EntriesInv`), and once it has said yes the values of the message are signed
ones (`SignatureInv`). Accepting is then an argument in two steps: the
values of the covered components are those of a message that was sent
(`RequestValues`, `ResponseValues`), and one of them is the digest, which
determines the body (`SameDigestSameBytes`). The digest has to be that of the
body *as sent*: `VouchedSource` has it from what `set_content_digest` left in the
one field `Content-Digest`.
Assumed (`ExchangeAssumption`): messages have a `content-digest` field, their
fields consist of members, and the names of the covered fields are in lower case.

`IntactPasses` is the converse, and no safety of the code alone: it needs that
client and server settled a few things, stated as `Interoperable` (and evaluated
by TLC for the instance that is checked): names tell their keys apart; names, key
ids and nonces are such that a header carries them as they are (a quote in a key
id is not escaped, see `DisplayForm`); beside an ECDSA key there is no key whose
signatures have another length (see `signature_length`); `created` has the digits
of a structured-field integer; nobody has signed the messages yet; and
a body is a sequence.

Its invariant is `PassInv` beside `ExchangeInv`. `MadeInv`: the two fields of every
message that was sent hold members of one signing each, made over what the
message says now (`SignedAt`), and the digest of its body. `SenderInv` is the same for
the message that is being made, at each of its steps. `BodyInv` and `KeyInv` are
about a message that was delivered as it was sent: its frames and what the call
has read of them make up the body that its digest is of, and the key it is
verified with is among those that signed it. What delivery may do to such a
message, other line breaks and other frames, is `Resembles`; base, values and
digest do not see it (`SameBase`, `UnharmedResembles`, `SignedWellDelivered`). A second
signature leaves the first alone by `ComponentGrows` (`SignedOnWell`). A verification of
such a message does not panic (`NoPanic`), its call finds the entry of its key
(`SignedWellReads`), and that no result is an error is `TriedInv`, the
invariant of `IntactIsAccepted` (`IntactVerifies`); the verification of its body ends
with the expected digest (`VerifyBodyPass`). The bytes of frames are stated
without a fold again (`Left`): a body is delivered in at most two frames.

### Transit

Assumptions, evaluated by TLC: `RequestsAssumption` (a field is a sequence of
members of which the dictionary members have a key and the list items none, which
is what structured fields are; between the `&` of a query stands a key or a key
and a value) and `IdsAssumption` (an identifier in `Ids` has `sf`, `key` or both
in either order, or is `@query-param` with its `name`; others are not what the
module is about).

The invariant is small: what was sent and what arrives are requests (`TransitInv`).
The work is in the operators, and the two properties are then facts about any two
requests (`EqualLine`, `EqualMeaning`). Everything that is read is `Selected` from
a field, so first: a selection is determined by its positions (`SelectedOnly`,
since increasing enumerations of a set agree, `EnumerationUnique`), and selecting
from a selection is selecting once (`SelectedTwice`). What `sf` writes of a
dictionary has the same keys in the same order (`SfDictionary`) and, under each,
the same last value (`SfKeepsValues`), though it looks at one line at a time; so it
means what the field means (`StructuredAnew`). A text determines a dictionary up to
the line breaks, which the meaning does not see (`StructuredText`), and that
it is a dictionary and no list, by the keys (`ListMeans`, `DictionaryMeans`). What
`key` writes ends with the value that counts (`KeyMeans`), which an `sf` before
or after it does not change (`KeyAfterSf`, `SfAfterKey`). Conversely, if keys stay on
their line, and under `sf` not on one that is a list, each is written once
(`SfKeysDiffer`, `KeyOnce`), and the text *is* the meaning (`TextIsMeaning`); a field
that is a list all over is written as it is (`ListAnew`). A query parameter loses nothing but the difference
between none and one empty value, which the meaning does not make (`QueryMeans`).

### The other modules

`ContentDigest_proofs`: the invariants say that a running verify holds the digest
its own message announces (`ExpectedInv`), that a vouched message has exactly one
digest, of its whole body (`VouchedInv`), and that what arrived is what the call
has taken followed by what the frames still hold (`WholeInv`). The bytes of the
remaining frames are stated without a fold, by a function `rest` with one value
for each frame, so that no induction is needed: a frame that arrives extends every
value of it, a frame that is collected drops the first. Assumed: fields and frames
are sequences, and `MaxBytes` is a number.

`ParamsBuilder_proofs`: `BuilderInv` adds that the identifiers in hand convert,
that `expires` is what the duration made of it, and that text of the library is
the display of parameters for which the same holds, or is read as something else
and then may be any text (`TextOK`). Assumed: numbers
are u64, the identifiers a caller gives were converted, and integers in texts of
others have the range of a structured-field integer.

`Keys_proofs`: a key that was read has one of few shapes (`IsKey`), among keys of
one algorithm the key id determines the key (`SameIdSameKey`), and our letter
names its signer. `OnlyLengthsPanic` is inductive as it stands: the OIDs of a standard
document leave one length for its algorithm, the one that is asked for. Assumed
(for `NamedKeyFits` only): no document that reads as a private key holds a public
part that belongs to no key, and foreign letters are not ours.

`BlockingApi_proofs`: the flag of a thread is set for exactly one frame on its
stack (`FlagHeldOnce`), hence cleared with it and never by another; so below a
call that is polled nothing holds it (`BelowCall`), and a panic that unwinds any
number of frames leaves a flag that fits the rest (`Unwound`). The one frame, if it
is a call, has a message with the signatures it was called with (`Untouched`), as
signatures change only where a call returns or a new message is taken in hand.

### Only model-checked

`DigestCallEnds` (liveness is beyond the prover), and the violations.

## Abstractions

- Cryptography is ideal; lengths are kept, bytes are not.
- Strings are atoms. In the signature and exchange modules a string with a quote
  or backslash is written as unparsable text: strings that are read as something
  else are assumed away there (`StringAssumption`, `Interoperable`) and left open in
  `ParamsBuilder`. A `name` or `key` parameter whose argument is no string counts
  as an unknown parameter, which is refused in the same way.
- A header line is text of one kind, a list or a dictionary (or both); empty members and parameters on dictionary
  members are left out. A `key` that a field does not have is signed as the
  empty value, as in the code.
- Logging, error texts and the order of checks inside one error class are left
  out; the classes ok, error and panic are kept.
- `sign` returns an error for none of the algorithms, so signing has no failing
  path after the bases are built.

- A digest is the pair of algorithm and bytes; a header that is no text fails
  like one that does not parse.
- An empty header line and an absent field give the same text in the code; the
  model has no empty lines.

## Not modelled

- The error types and tracing (`error.rs`, `trace.rs`): no behaviour; the classes
  ok, err and panic are modelled where they arise.
- The RFC test vectors, re-exports, and the tests other than as usage.
- The conversion of a component from one line of a signature base
  (`component.rs:22-66`), which only tests call.
- The primitives of the external crates and the parser of the `sfv` crate.
- The panic of a header map that has reached the size limit of the `http` crate.
- Message bodies that never end within a deadline: the library has no timeouts.

## The plan from here

Every safety property and every refinement that a run checks is proved. Left are
messages that cover the URI components and `sf` in the signature runs themselves
(the theorems cover them).
