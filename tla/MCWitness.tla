------------------------------ MODULE MCWitness ------------------------------
(***************************************************************************)
(* Small instances of Witness.  A log is its genesis manifest "g" followed *)
(* by data entries, at most one manifest "m" that replaces the log keys by *)
(* k2, at most one manifest "w" that replaces only witness keys, and       *)
(* manifests "c" that change only the cadence, to u64::MAX.                *)
(***************************************************************************)
EXTENDS WitnessRefinement

CONSTANTS
  GenesisKeys,            \* log keys of the genesis manifest
  Second, Third, Fourth,  \* entries that may come at each later place, {} for no such place
  MaxTime,                \* checkpoint times are 1..MaxTime
  MaxAt,                  \* handlers read the clock at 1..MaxAt
  MaxCosigned,            \* bound on the rows of the series table
  MaxRefusals             \* bound on the rows of the refusals table

MCPrefixes ==
  {<<"g">>} \cup {<<"g", x>> : x \in Second}
  \cup {<<"g", x, y>> : x \in Second, y \in Third}
  \cup {<<"g", x, y, z>> : x \in Second, y \in Third, z \in Fourth}

\* 0-based index of the first entry e, as a set.
FirstOf(entries, e) ==
  {i - 1 : i \in {j \in DOMAIN entries :
                    entries[j] = e /\ \A k \in 1..(j - 1) : entries[k] # e}}

LogKeyTable ==
  [L \in MCPrefixes \cup {<<>>} |->
     IF L = <<>> THEN {} ELSE IF FirstOf(L, "m") # {} THEN {"k2"} ELSE GenesisKeys]

\* A rotation is anchored by a key of the version before it.
AnchorTable ==
  [L \in MCPrefixes \cup {<<>>}, key \in Keys |->
     {x \in FirstOf(L, "m") : key \in GenesisKeys} \cup
     {x \in FirstOf(L, "w") : key \in LogKeyTable[SubSeq(L, 1, x)]}]

MCLogKeys(l, entries) == LogKeyTable[entries]
MCRotationAnchors(l, entries, key) == AnchorTable[entries, key]

MCTermsOf(l, entries) ==
  [cadence |-> IF FirstOf(entries, "c") = {} THEN 1 ELSE 2 * MaxI64 + 1, grace |-> 1]

MCSubmissions(prefixes, named) ==
  {[cp |-> [log |-> l, size |-> Len(r), root |-> r, time |-> t, key |-> k],
    entries |-> L, named |-> named, at |-> a] :
     l \in Logs, r \in MCPrefixes, t \in 1..MaxTime, k \in Keys, L \in prefixes, a \in 1..MaxAt}

\* Entries that cover the checkpoint, entries that fall short of it, and entries
\* whose submission names the manifest at index 1 as the rotation it anchors.
MCOffers ==
  {o \in MCSubmissions(MCPrefixes, {}) : Len(o.entries) = o.cp.size}
  \cup {o \in MCSubmissions({<<>>}, {}) : o.cp.size = 1 /\ o.cp.time = 1 /\ o.at = 1}
  \cup {o \in MCSubmissions(MCPrefixes, {1}) :
          o.cp.size = 2 /\ o.cp.root = o.entries /\ o.cp.time = 1 /\ o.at = 1}

\* Both kinds of rotation.  Times vary for trees where only witness keys change,
\* instants at size two, and a second genesis key signs the trees of size two.
MCRotationOffers ==
  {o \in MCOffers :
     /\ o.cp.time = 2 => FirstOf(o.entries, "w") # {} /\ o.cp.root = o.entries
     /\ o.at = 2 => o.cp.size = 2 /\ FirstOf(o.entries, "w") # {} /\ o.cp.root = o.entries
     /\ o.cp.key = "k3" => o.cp.size = 2 /\ o.cp.time = 1 /\ o.at = 1}

\* A second log shares the store and goes on with its genesis tree.  The entries of
\* the largest trees are their own or fork from them at the third leaf.
MCHistoryOffers ==
  {o \in MCOffers :
     /\ o.cp.log = "y" => o.cp.size = 1 /\ o.entries = o.cp.root
     /\ o.cp.size = 4 => o.entries[4] = o.cp.root[4]
     /\ o.named = {}}

MCNext ==
  /\ Next
  /\ Len(cosigned') <= MaxCosigned
  /\ Len(refusals') <= MaxRefusals

MCSpec == Init /\ [][MCNext]_vars

=============================================================================
