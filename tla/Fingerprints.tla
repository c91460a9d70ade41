---------------------------- MODULE Fingerprints ----------------------------
(***************************************************************************)
(* Safety numbers (rust/protocol/src/fingerprint.rs).  Two parties each    *)
(* make a fingerprint from their own identity key and the key they know of *)
(* the other, read the digits to each other and scan each other's code.    *)
(* Keys change when a party reinstalls, and the other learns of it later   *)
(* or not at all.                                                          *)
(*                                                                         *)
(* The iterated hash is taken to be injective: a hash is the tuple of what *)
(* went in.  Its order, on which the text depends, is that of Digits.      *)
(***************************************************************************)
EXTENDS Errors, Keys, FiniteSets

CONSTANTS MaxKeys,      \* identity keys of a party (a bound)
          Versions,     \* the version a client passes
          Iterations    \* the iteration count a client passes

VARIABLES own,          \* party |-> its identity key, a number
          known,        \* party |-> the key it knows of the other
          print,        \* party |-> its fingerprint, <<>> or one
          scan          \* the last scan: <<>>, or who scanned what to which end

vars == <<own, known, print, scan>>

Parties == {"A", "B"}
Other(p) == IF p = "A" THEN "B" ELSE "A"

MIN_ENCODED == 30
HASH_LEN == 64
MAX_ITERATIONS == 1000000
----------------------------------------------------------------------------
get_fingerprint(iterations, id, key) ==
    IF iterations <= 1 \/ iterations > MAX_ITERATIONS THEN Err("InvalidArgument")
    ELSE Ok([iterations |-> iterations, id |-> id, key |-> key, len |-> HASH_LEN])

\* Six groups of five digits.
Digits(h) == 10 * h.iterations + 2 * h.key + (IF h.id = "A" THEN 0 ELSE 1)

get_encoded_string(h) ==
    IF h.len < MIN_ENCODED THEN Err("InvalidArgument") ELSE Ok(Digits(h))

\* fmt::Display for DisplayableFingerprint: the smaller half comes first.
display_string(local, remote) ==
    IF local < remote THEN <<local, remote>> ELSE <<remote, local>>

DisplayableFingerprint_new(local, remote) ==
    LET l == get_encoded_string(local)
        r == get_encoded_string(remote)
    IN IF ~IsOk(l) THEN l
       ELSE IF ~IsOk(r) THEN r
       ELSE Ok(display_string(l.value[1], r.value[1]))

\* ScannableFingerprint::new, and its protobuf.
ScannableFingerprint_new(version, local, remote) ==
    [version |-> version, local |-> <<local>>, remote |-> <<remote>>]

\* ScannableFingerprint::deserialize: prost reads the bytes or does not.
deserialize(bytes) ==
    IF bytes = <<>> THEN Err("ProtobufDecodingError")
    ELSE IF bytes[1].local = <<>> \/ bytes[1].remote = <<>>
         THEN Err("InvalidProtobufEncoding")
         ELSE Ok(bytes[1])

\* Mutant: one half is enough.
compare_Half(f, combined) ==
    IF combined = <<>> THEN Err("ProtobufDecodingError")
    ELSE LET c == combined[1]
         IN IF c.version # f.version \/ c.local = <<>> \/ c.remote = <<>>
            THEN Err("FingerprintVersionMismatch")
            ELSE Ok(c.local = f.remote)

compare(f, combined) ==
    IF combined = <<>> THEN Err("ProtobufDecodingError")
    ELSE LET c == combined[1]
         IN IF c.version # f.version \/ c.local = <<>> \/ c.remote = <<>>
            THEN Err("FingerprintVersionMismatch")
            ELSE Ok(c.local = f.remote /\ c.remote = f.local)

\* ScannableFingerprint_Compare, signal_fingerprint_compare.
Scanned(bytes, combined) ==
    IF ~IsOk(deserialize(bytes)) THEN deserialize(bytes)
    ELSE compare(deserialize(bytes).value[1], combined)

Fingerprint_new(version, iterations, local_id, local_key, remote_id, remote_key) ==
    LET local == get_fingerprint(iterations, local_id, local_key)
        remote == get_fingerprint(iterations, remote_id, remote_key)
    IN IF ~IsOk(local) THEN local
       ELSE IF ~IsOk(remote) THEN remote
       ELSE LET d == DisplayableFingerprint_new(local.value[1], remote.value[1])
            IN IF ~IsOk(d) THEN d
               ELSE Ok([display |-> d.value[1],
                        scannable |-> ScannableFingerprint_new(version, local.value[1],
                                                               remote.value[1])])
----------------------------------------------------------------------------
Init ==
    /\ own = [p \in Parties |-> 1] /\ known = [p \in Parties |-> 1]
    /\ print = [p \in Parties |-> <<>>] /\ scan = <<>>

\* A party gets a new identity key; what it shows is from before.
Reinstall(p) ==
    /\ own[p] < MaxKeys
    /\ own' = [own EXCEPT ![p] = @ + 1]
    /\ UNCHANGED <<known, print, scan>>

\* The other's new key becomes known, with a message or a bundle.
Learn(p) ==
    /\ known' = [known EXCEPT ![p] = own[Other(p)]]
    /\ UNCHANGED <<own, print, scan>>

\* createFor, create: from the keys as they are now.
Generate(p) ==
    /\ \E version \in Versions, iterations \in Iterations :
          LET f == Fingerprint_new(version, iterations, p, own[p], Other(p), known[p])
          IN print' = [print EXCEPT ![p] =
                 IF ~IsOk(f) THEN <<>>
                 ELSE <<[display |-> f.value[1].display, scannable |-> f.value[1].scannable,
                         own |-> own[p], other |-> known[p], iterations |-> iterations]>>]
    /\ scan' = <<>>
    /\ UNCHANGED <<own, known>>

\* What a scanner may read off a code.
Readings(c) == {<<c>>, <<[c EXCEPT !.local = <<>>]>>, <<[c EXCEPT !.remote = <<>>]>>, <<>>}

\* compareTo, compare(against:).
Scan(p) ==
    /\ print[p] # <<>> /\ print[Other(p)] # <<>>
    /\ \E read \in Readings(print[Other(p)][1].scannable) :
          scan' = <<[by |-> p, intact |-> read = <<print[Other(p)][1].scannable>>,
                     result |-> Scanned(<<print[p][1].scannable>>, read)]>>
    /\ UNCHANGED <<own, known, print>>

Next == \E p \in Parties : Reinstall(p) \/ Learn(p) \/ Generate(p) \/ Scan(p)

Spec == Init /\ [][Next]_vars
----------------------------------------------------------------------------
\* The two fingerprints were made from the same two identity keys.
SameView(f, g) == f.own = g.other /\ f.other = g.own /\ f.iterations = g.iterations

\* Both see the same digits, and a scan of an intact code of the same version
\* succeeds, exactly when each made the fingerprint with the key the other had
\* then: a key that changed unnoticed shows, and who scans makes no difference.
ViewsAgree ==
    /\ print["A"] # <<>> /\ print["B"] # <<>> =>
           (print["A"][1].display = print["B"][1].display
                <=> SameView(print["A"][1], print["B"][1]))
    /\ scan # <<>> =>
           LET f == print[scan[1].by][1]
               g == print[Other(scan[1].by)][1]
           IN scan[1].result = Ok(TRUE) <=>
                  /\ scan[1].intact
                  /\ SameView(f, g)
                  /\ f.scannable.version = g.scannable.version
=============================================================================
