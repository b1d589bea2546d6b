SPECIFICATION Spec
CONSTANTS
  SdpMaxMlines = 2
  SdpMaxH264 = 2
  SdpMaxCandidates = 2
  MaxInterfaces = 3
  Offers <- MCOffers
  Fingerprints = {"", "fpA", "fpB"}
  Addresses <- MCAddresses
  Hosts <- MCHosts
  Peers = {5000, 8467}
  NoPeer = NoPeer
  IdleTimeout = 3
  Watchdog = 6
  IdrInterval = 1
  SrInterval = 2
INVARIANTS ClosedExactlyOnce StreamingIsKeyed SilenceEndsSession ChecksAreAnswered AnswerFitsOffer
