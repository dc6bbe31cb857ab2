SPECIFICATION Spec
CONSTANTS
  Singles = {"tcp_split", "disorder", "tls_record_frag", "multi_stream_frag", "fake_packet", "sni_manip", "http_host"}
  Chained = {"tcp_split", "disorder", "tls_record_frag", "multi_stream_frag", "fake_packet", "sni_manip", "http_host"}
  Inputs <- Messages
  Jobs <- MCJobs
INVARIANTS
  
  NoEmptyRecord
  NameHidden
  LastPieceAtName
CHECK_DEADLOCK FALSE
