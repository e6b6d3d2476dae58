----------------------------- MODULE PairingText -----------------------------
(***************************************************************************)
(* The texts a pairing is carried by: the phrase a person reads and types    *)
(* (herdr-relay-proto phrase.rs), the URI a camera reads (handle.rs), and    *)
(* the session that makes, limits and destroys both (pairing.rs).            *)
(*                                                                         *)
(* A text is a sequence of characters.  Letters, separators and the          *)
(* characters an origin may need escaped are characters of their own; a      *)
(* host name, a scheme and a handle, which nothing takes apart, are one each.*)
(* A Device copies a text, with slips, and reads it with the crate's parser. *)
(***************************************************************************)
EXTENDS Integers, FiniteSets, SequencesExt, TLC

CONSTANTS
    WordList,     \* the EFF list, as words over Letters and "-"
    WORD_COUNT,   \* words of a phrase
    Drawn,        \* bound: the phrases the random source draws
    Origins,      \* relay origins the Host accepts
    Handles,      \* routing handles
    MaxLen,       \* PAIRING_URI_MAX_LEN
    PHRASE_LIFETIME, \* in ticks
    MAX_ATTEMPTS, \* failed handshakes a phrase survives, plus one
    MaxSlips      \* bound: changes made to one copy

ASSUME TextBounds ==
    {MaxLen, PHRASE_LIFETIME, MAX_ATTEMPTS, MaxSlips} \subseteq Nat /\ 0 < MAX_ATTEMPTS

Letters == {"a", "b", "t"}
Lower   == [c \in {"A", "B", "T"} |-> IF c = "A" THEN "a" ELSE IF c = "B" THEN "b" ELSE "t"]
Blank   == " "
Marks   == {"-", Blank}

\* An entry is lowercase letters, with a hyphen inside it at most.
ASSUME ListHasWords ==
    /\ WORD_COUNT \in Nat \ {0}
    /\ \A w \in WordList :
          w \in Seq(Letters \cup {"-"}) /\ w # <<>> /\ w[1] # "-" /\ w[Len(w)] # "-"

\* phrase.rs:195: the left half of every hyphenated entry is not itself a word,
\* and no entry has a second hyphen.
ASSUME ListIsUnambiguous ==
    \A w \in WordList : \A i \in 1..Len(w) :
        w[i] = "-" => SubSeq(w, 1, i - 1) \notin WordList /\ ~Contains(SubSeq(w, i + 1, Len(w)), "-")

VARIABLES
    origin,   \* PairingSession.relay_origin
    session,  \* its state, with the live phrase
    copy      \* what the Device has, and what was done to it

textVars == <<origin, session, copy>>

-----------------------------------------------------------------------------
(* Text.                                                                    *)

\* One character more: it begins a part, or belongs to the last one.
AddCharacter(parts, c, sep) ==
    IF c = sep THEN Append(parts, <<>>) ELSE [parts EXCEPT ![Len(parts)] = Append(@, c)]

\* split: the parts of s between one sep and the next.
SplitOn(s, sep) ==
    LET upTo[i \in 0..Len(s)] == IF i = 0 THEN <<<<>>>> ELSE AddCharacter(upTo[i - 1], s[i], sep)
    IN  upTo[Len(s)]

AddPart(text, i, part, sep) == IF i = 1 THEN part ELSE text \o <<sep>> \o part

\* join
Join(parts, sep) ==
    LET upTo[i \in 0..Len(parts)] == IF i = 0 THEN <<>> ELSE AddPart(upTo[i - 1], i, parts[i], sep)
    IN  upTo[Len(parts)]

Occurs(s, sep, i) == i + Len(sep) - 1 <= Len(s) /\ SubSeq(s, i, i + Len(sep) - 1) = sep
Within(s, sep)    == \E i \in DOMAIN s : Occurs(s, sep, i)

\* split_once: the parts before and after the first sep, which is in s.
First(s, sep)  == CHOOSE i \in DOMAIN s : Occurs(s, sep, i) /\ \A j \in 1..i - 1 : ~Occurs(s, sep, j)
Before(s, sep) == SubSeq(s, 1, First(s, sep) - 1)
After(s, sep)  == SubSeq(s, First(s, sep) + Len(sep), Len(s))

Trim(s) ==
    LET inked == {i \in DOMAIN s : s[i] # Blank}
    IN  IF inked = {} THEN <<>>
        ELSE SubSeq(s, CHOOSE i \in inked : \A j \in inked : i <= j,
                       CHOOSE i \in inked : \A j \in inked : i >= j)

-----------------------------------------------------------------------------
(* phrase.rs                                                                *)

\* Mutant: separators are kept as they were typed.
NormalizeCase(text) ==
    [i \in DOMAIN Trim(text) |-> LET c == Trim(text)[i] IN
        IF c \in Marks THEN "-" ELSE IF c \in DOMAIN Lower THEN Lower[c] ELSE c]

\* One character more: a separator unless it follows one, or a letter in lower case.
AddNormal(s, c) ==
    IF c \in Marks
    THEN IF s # <<>> /\ s[Len(s)] = "-" THEN s ELSE Append(s, "-")
    ELSE Append(s, IF c \in DOMAIN Lower THEN Lower[c] ELSE c)

\* normalize: runs of separators become one hyphen, letters are lowered.
Normalize(text) ==
    LET t == Trim(text)
        upTo[i \in 0..Len(t)] == IF i = 0 THEN <<>> ELSE AddNormal(upTo[i - 1], t[i])
    IN  upTo[Len(t)]

\* Mutant: every hyphen separates two words.
SplitEverywhere(parts) == parts

Hyphenated(parts, i) == parts[i] \o <<"-">> \o parts[i + 1]

\* A turn of the loop: two adjacent parts are one word when the list has it.
TakeWord(s, parts) ==
    IF s.at > Len(parts) THEN s
    ELSE IF s.at < Len(parts) /\ Hyphenated(parts, s.at) \in WordList
    THEN [at |-> s.at + 2, words |-> Append(s.words, Hyphenated(parts, s.at))]
    ELSE [at |-> s.at + 1, words |-> Append(s.words, parts[s.at])]

\* segment_words
SegmentWords(parts) ==
    LET after[turn \in 0..Len(parts)] ==
            IF turn = 0 THEN [at |-> 1, words |-> <<>>] ELSE TakeWord(after[turn - 1], parts)
    IN  after[Len(parts)].words

Refusal(error) == [ok |-> FALSE, error |-> error]

\* Phrase::parse_canonical
ParseCanonical(text) ==
    LET normalized == Normalize(text)
        parts      == SplitOn(normalized, "-")
        segmented  == SegmentWords(parts)
    IN  IF \E p \in ToSet(parts) : p = <<>> THEN Refusal("Separator")
        ELSE IF \E p \in ToSet(parts) : ~(ToSet(p) \subseteq Letters) THEN Refusal("Case")
        ELSE IF Len(segmented) # WORD_COUNT THEN Refusal("WordCount")
        ELSE IF ~(ToSet(segmented) \subseteq WordList) THEN Refusal("WordUnknown")
        ELSE [ok |-> TRUE, canonical |-> normalized, words |-> segmented]

Canonical(words)   == Join(words, "-")
DisplayForm(words) == Join(words, Blank)

-----------------------------------------------------------------------------
(* handle.rs                                                                *)

Escapes ==
    [c \in {":", "/", "%", "&", "="} |->
        CASE c = ":" -> <<"3", "A">> [] c = "/" -> <<"2", "F">> [] c = "%" -> <<"2", "5">>
          [] c = "&" -> <<"2", "6">> [] c = "=" -> <<"3", "D">>]

\* Mutant: only the characters the field table names are escaped.
AddNamed(s, c) == IF c \in {":", "/"} THEN s \o <<"%">> \o Escapes[c] ELSE Append(s, c)

AddEncoded(s, c) == IF c \in DOMAIN Escapes THEN s \o <<"%">> \o Escapes[c] ELSE Append(s, c)

PercentEncode(s) ==
    LET upTo[i \in 0..Len(s)] == IF i = 0 THEN <<>> ELSE AddEncoded(upTo[i - 1], s[i])
    IN  upTo[Len(s)]

\* The characters that the escape at place i of s stands for: one or none.
Escaped(s, i) ==
    {c \in DOMAIN Escapes : s[i] = "%" /\ i + 2 <= Len(s) /\ Escapes[c] = SubSeq(s, i + 1, i + 2)}

\* A turn of the loop: a percent sign that no two hex digits follow stays as it is.
\* The two places after it are taken as bytes of the text (handle.rs:270); texts here
\* are of one-byte characters, so that no slice falls inside one.
TakeCode(d, s) ==
    IF d.at > Len(s) THEN d
    ELSE IF Escaped(s, d.at) # {}
    THEN [at |-> d.at + 3, out |-> Append(d.out, CHOOSE c \in Escaped(s, d.at) : TRUE)]
    ELSE [at |-> d.at + 1, out |-> Append(d.out, s[d.at])]

PercentDecode(s) ==
    LET after[turn \in 0..Len(s)] ==
            IF turn = 0 THEN [at |-> 1, out |-> <<>>] ELSE TakeCode(after[turn - 1], s)
    IN  after[Len(s)].out

\* is_absolute_http_origin
IsOrigin(s) ==
    /\ Within(s, <<":", "/", "/">>)
    /\ Before(s, <<":", "/", "/">>) \in {<<"http">>, <<"https">>}
    /\ After(s, <<":", "/", "/">>) # <<>>
    /\ {"/", "?", "#", "@"} \cap ToSet(After(s, <<":", "/", "/">>)) = {}

ASSUME HostAcceptsOrigins == \A o \in Origins : o \in Seq(ToSet(o)) /\ IsOrigin(o)
ASSUME DrawnFromTheList   == Drawn \subseteq [1..WORD_COUNT -> WordList]

\* Handle::encode: base64url, in which no character is one of a query's own.
ASSUME HandlesArePlain == Handles \cap {"?", "&"} = {}

Field(key, value) == <<key, "=">> \o value
Prefix            == <<"herdr-remote", "://", "pair", "?">>

\* PairingUri::build
Build(u) ==
    Prefix \o Join(<<Field("v", <<"1">>), Field("r", PercentEncode(u.origin)),
                     Field("h", <<u.handle>>), Field("p", u.phrase)>>, "&")

Keys == {"v", "r", "h", "p"}

\* Where the fields named key are, and the value of the only one.
Named(fields, key) == {i \in DOMAIN fields : Before(fields[i], <<"=">>) = <<key>>}
Value(fields, key) == After(fields[CHOOSE i \in Named(fields, key) : TRUE], <<"=">>)

\* Mutant: of several fields with one name one counts.
FirstWins(fields) == FALSE

\* Mutant: a field with another name is refused.
StrictFields(fields) == \E f \in ToSet(fields) : Before(f, <<"=">>) \notin {<<key>> : key \in Keys}

Repeated(fields) == \E key \in Keys : \E i, j \in Named(fields, key) : i # j

\* parse_query and what parse makes of its fields.  Of two faults the code
\* names the one it meets first; here the order of the tests decides.
ParseQuery(fields) ==
    LET lacks == {key \in Keys : Named(fields, key) = {}}
        r == PercentDecode(Value(fields, "r"))
        h == Value(fields, "h")
    IN  IF Repeated(fields) THEN Refusal("FieldRepeated")
        ELSE IF "v" \in lacks \/ Value(fields, "v") # <<"1">> THEN Refusal("Version")
        ELSE IF lacks # {} THEN Refusal("FieldMissing")
        ELSE IF ~IsOrigin(r) THEN Refusal("RelayOriginInvalid")
        ELSE IF h \notin {<<x>> : x \in Handles} THEN Refusal("HandleMalformed")
        ELSE [ok |-> TRUE, origin |-> r, handle |-> h[1], phrase |-> Value(fields, "p")]

\* PairingUri::parse
ParseUri(uri) ==
    LET fields == SplitOn(After(uri, <<"?">>), "&")
    IN  IF Len(uri) > MaxLen THEN Refusal("TooLong")
        ELSE IF ~IsPrefix(SubSeq(Prefix, 1, 2), uri) THEN Refusal("Scheme")
        ELSE IF ~Contains(uri, "?") THEN Refusal("FieldMissing")
        ELSE IF Before(uri, <<"?">>) # SubSeq(Prefix, 1, 3) THEN Refusal("Path")
        ELSE IF \E f \in ToSet(fields) : ~Contains(f, "=") THEN Refusal("FieldMissing")
        ELSE ParseQuery(fields)

-----------------------------------------------------------------------------
(* pairing.rs                                                               *)

Uri == Build([origin |-> origin, handle |-> session.handle, phrase |-> Canonical(session.words)])

Fits(uri) == Len(uri) <= MaxLen

NoPhrase(state) == [state |-> state, words |-> <<>>, handle |-> "none", age |-> 0, failed |-> 0]
NoCopy == [kind |-> "none", text |-> <<>>, of |-> <<>>, faithful |-> FALSE, slips |-> 0]

TextInit ==
    /\ origin \in Origins
    /\ session = NoPhrase("None")
    /\ copy = NoCopy

\* PairingSession::new and regenerate, through LivePhrase::generate, which
\* fails and changes nothing when the URI does not fit.
Generate(words, handle) ==
    /\ Fits(Build([origin |-> origin, handle |-> handle, phrase |-> Canonical(words)]))
    /\ session' = [state |-> "Live", words |-> words, handle |-> handle, age |-> 0, failed |-> 0]
    /\ UNCHANGED <<origin, copy>>

\* apply_expiry, which whoever reads the phrase and record_failed_attempt begin
\* with; is_spent, record_enrolled and regenerate do not.
ApplyExpiry(s) == IF s.state = "Live" /\ s.age > PHRASE_LIFETIME THEN NoPhrase("Expired") ELSE s

\* record_failed_attempt
RecordFailedAttempt(s) ==
    IF s.state # "Live" THEN s
    ELSE IF s.failed + 1 >= MAX_ATTEMPTS THEN NoPhrase("Spent")
    ELSE [s EXCEPT !.failed = @ + 1]

Older ==
    /\ session.state = "Live" /\ session.age <= PHRASE_LIFETIME
    /\ session' = [session EXCEPT !.age = @ + 1]
    /\ UNCHANGED <<origin, copy>>

\* What the Device reads in its copy: the key it will use.
DeviceKey ==
    IF copy.kind = "phrase"
    THEN IF ParseCanonical(copy.text).ok THEN ParseCanonical(copy.text).canonical ELSE <<>>
    ELSE IF copy.kind = "uri" /\ ParseUri(copy.text).ok THEN ParseUri(copy.text).phrase ELSE <<>>

\* is_live, handle, qr and psk_for: what the bridge reads of the session.
Look ==
    /\ session' = ApplyExpiry(session)
    /\ UNCHANGED <<origin, copy>>

\* A handshake failed, at any time after the key it used was read.
FailedAttempt ==
    /\ session' = RecordFailedAttempt(ApplyExpiry(session))
    /\ UNCHANGED <<origin, copy>>

\* record_enrolled asks nothing of the session: that its phrase is still the
\* one a handshake used is checked by the bridge (MayEnrol of HostBridge).
RecordEnrolled ==
    /\ session' = NoPhrase("Enrolled")
    /\ UNCHANGED <<origin, copy>>

-----------------------------------------------------------------------------
(* The Device's copy.                                                       *)

\* phrase_display and pairing_uri, read off the screen while the phrase lives.
Take(kind) ==
    /\ ApplyExpiry(session).state = "Live"
    /\ copy' = [kind |-> kind, slips |-> 0, faithful |-> TRUE, of |-> session.words,
                text |-> IF kind = "uri" THEN Uri ELSE DisplayForm(session.words)]
    /\ UNCHANGED <<origin, session>>

Slip(text, faithful) ==
    /\ copy.slips < MaxSlips
    /\ copy' = [copy EXCEPT !.text = text, !.slips = @ + 1, !.faithful = @ /\ faithful]
    /\ UNCHANGED <<origin, session>>

Upper(c) == IF \E u \in DOMAIN Lower : Lower[u] = c THEN CHOOSE u \in DOMAIN Lower : Lower[u] = c ELSE c

\* Capitals, another separator, one more of them, blanks around: R-13-026.
TypedLoosely ==
    /\ copy.kind = "phrase"
    /\ \E i \in DOMAIN copy.text :
          \/ Slip(ReplaceAt(copy.text, i, Upper(copy.text[i])), TRUE)
          \/ \E m \in Marks :
                /\ copy.text[i] \in Marks
                /\ \E j, k \in DOMAIN copy.text :
                      j < i /\ i < k /\ {copy.text[j], copy.text[k]} \cap Marks = {}
                /\ \/ Slip(ReplaceAt(copy.text, i, m), TRUE)
                   \/ Slip(InsertAt(copy.text, i, m), TRUE)
          \/ i = 1 /\ Slip(<<Blank>> \o copy.text, TRUE)
          \/ i = 1 /\ Slip(Append(copy.text, Blank), TRUE)

\* A wrong, a missing or an extra character.
Mistyped ==
    /\ copy.kind = "phrase"
    /\ \E i \in DOMAIN copy.text :
          \/ \E c \in Letters \cup {"-", "9"} : Slip(ReplaceAt(copy.text, i, c), FALSE)
          \/ Slip(RemoveAt(copy.text, i), FALSE)
          \/ Slip(InsertAt(copy.text, i, "-"), FALSE)

Query == SubSeq(copy.text, Len(Prefix) + 1, Len(copy.text))
WithFields(fields) == Prefix \o Join(fields, "&")

\* Fields in another order, and fields nobody knows: R-11-140.
Rearranged ==
    /\ copy.kind = "uri" /\ IsPrefix(Prefix, copy.text)
    /\ LET fields == SplitOn(Query, "&") IN
       \E i \in 1..Len(fields) - 1 :
          \/ Slip(WithFields(ReplaceAt(ReplaceAt(fields, i, fields[i + 1]), i + 1, fields[i])), TRUE)
          \/ Len(copy.text) + 4 <= MaxLen /\ Slip(WithFields(InsertAt(fields, i, Field("x", <<"1">>))), TRUE)

\* A field that is lost, doubled or changed, and a character that is lost.
Garbled ==
    /\ copy.kind = "uri" /\ IsPrefix(Prefix, copy.text)
    /\ LET fields == SplitOn(Query, "&") IN
          \/ \E i \in DOMAIN fields :
                \/ Slip(WithFields(RemoveAt(fields, i)), FALSE)
                \/ Slip(WithFields(Append(fields, fields[i])), FALSE)
          \/ Slip(WithFields(Append(fields, Field("r", <<"ws", ":", "/", "/", "host">>))), FALSE)
          \/ \E i \in DOMAIN copy.text : Slip(RemoveAt(copy.text, i), FALSE)

TextNext ==
    \/ \E words \in Drawn, handle \in Handles : Generate(words, handle)
    \/ Older \/ Look \/ FailedAttempt \/ RecordEnrolled
    \/ \E kind \in {"phrase", "uri"} : Take(kind)
    \/ TypedLoosely \/ Mistyped \/ Rearranged \/ Garbled

TextSpec == TextInit /\ [][TextNext]_textVars

-----------------------------------------------------------------------------
\* A live session has a phrase and fewer failures than end it; no other state
\* keeps anything of a phrase.
TextTypeOK ==
    /\ origin \in Origins
    /\ session.state \in {"None", "Live", "Expired", "Spent", "Enrolled"}
    /\ IF session.state = "Live"
       THEN /\ session.words \in Drawn /\ session.handle \in Handles
            /\ session.age \in 0..PHRASE_LIFETIME + 1 /\ session.failed \in 0..MAX_ATTEMPTS - 1
       ELSE session = NoPhrase(session.state)
    /\ copy.kind \in {"none", "phrase", "uri"} /\ copy.slips \in 0..MaxSlips

\* R-13-026 with R-13-024: however a person spaces and capitalises the phrase on
\* the screen, the Device reads the key the Host made of it.
TypedPhraseWorks ==
    copy.kind = "phrase" /\ copy.faithful => DeviceKey = Canonical(copy.of)

\* R-13-025 and phrase.rs segment_words, "there is no candidate segmentation
\* this could pick over another": the parser accepts exactly the texts that
\* spell a phrase, and the words it shows are the only ones they spell.
ParsesWhatIsSpelled ==
    copy.kind = "phrase" =>
        LET spelled == {ws \in [1..WORD_COUNT -> WordList] : Canonical(ws) = Normalize(copy.text)}
            parsed  == ParseCanonical(copy.text)
        IN  IF parsed.ok THEN spelled = {parsed.words} ELSE spelled = {}

\* A typed phrase is read as the Host spelled it, and as nothing else.
TypedPhrasesAreRead == TypedPhraseWorks /\ ParsesWhatIsSpelled

\* R-11-140, "Accepts fields in any order": a URI whose fields were reordered or
\* joined by unknown ones says what the Host put in it.
ScannedUriWorks ==
    copy.kind = "uri" /\ copy.faithful =>
        /\ ParseUri(copy.text).ok
        /\ ParseUri(copy.text).origin = origin
        /\ ParseUri(copy.text).phrase = Canonical(copy.of)

\* R-11-141 and pair_uri_field_repeated: what a parser accepts names each of the
\* four fields once, so that two readers cannot read two things in it.
ReadOneWayOnly ==
    copy.kind = "uri" /\ ParseUri(copy.text).ok =>
        \A key \in Keys :
            Cardinality({i \in DOMAIN copy.text :
                i > 1 /\ copy.text[i - 1] \in {"?", "&"} /\ Occurs(copy.text, <<key, "=">>, i)}) = 1

\* LivePhrase::generate: every URI the session shows is one that a Device reads
\* back, its length and its origin included.
ShownUriParses ==
    session.state = "Live" =>
        ParseUri(Uri) = [ok |-> TRUE, origin |-> origin, handle |-> session.handle,
                         phrase |-> Canonical(session.words)]

\* A pairing URI that is shown or scanned is read as the Host meant it, and a
\* URI that is accepted can be read in one way.
PairUrisAreRead == ScannedUriWorks /\ ReadOneWayOnly /\ ShownUriParses
=============================================================================
