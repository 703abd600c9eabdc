------------------------------- MODULE MCSse --------------------------------
EXTENDS Sse
MCEols == {<<LF>>, <<CR>>, <<CR, LF>>}
Ev(type, n) == [type |-> type, n |-> n]
MCStreams == {
  <<Ev("message_start", 1), Ev("message_delta", 2), Ev("message_delta", 3)>>,
  <<Ev("message_start", 1), Ev("message_delta", 4), Ev("error", 0), Ev("message_delta", 5)>>}
MCBodies ==
  [ctype : {"text/event-stream"}, encoded : {FALSE}, events : MCStreams, eol : MCEols]
  \cup [ctype : {"text/event-stream"}, encoded : {TRUE}, events : MCStreams, eol : {<<LF>>}]
  \cup [ctype : {"application/json", "text/html"}, encoded : {FALSE},
        events : {<<Ev("message_start", 1)>>}, eol : {<<LF>>}]
MCCaps == 1..20
=============================================================================
