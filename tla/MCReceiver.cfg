\* Two event ids and two policy files: two changes of the files, one death, and a clock that
\* runs for one and a half lifetimes of a dedup entry.
SPECIFICATION Spec
CONSTANTS
  Files <- MCFiles
  Contents <- MCContents
  absent = absent
  unparsable = unparsable
  broken = broken
  never = never
  Absent = absent
  Unparsable = unparsable
  Broken = broken
  Never = never
  Ids = {e1, e2}
  Payloads <- MCPayloads
  Ttl = 2
  MaxTime = 3
  MaxEdits = 2
  MaxDeaths = 1
INVARIANTS DuplicatesWereVerified StoreFollowsFiles
PROPERTY VerifiedApart
