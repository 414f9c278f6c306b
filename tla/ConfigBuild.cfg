SPECIFICATION Spec
CONSTANTS
  Start = start
  Fetch = fetch
  None = None
  Builders = {start, fetch}
  Inputs <- MCInputs
  HideTags <- MCHideTags
  DefaultTags <- MCDefaultTags
  NoDialer = {"undialed"}
INVARIANTS
  OwnDetour ReferencesResolve NoDialLoop DnsAgreesWithRoute EveryServerIsOffered ServersCarryTraffic
