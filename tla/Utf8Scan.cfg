SPECIFICATION ScanSpec
INVARIANT MatchesRFC3629
