---------------------------- MODULE MCTtyReader ----------------------------
(* The instance of TtyReader that TLC checks. *)
EXTENDS TtyReader

(* The shortest frame, and at 9600 baud the longest whose sleep fits in 16
   bits; elsewhere the longest that fits in the buffer.  For the
   receivers also those at the edge of the application data. *)
MCFrames ==
  {<<"knx", 9600, 1>>, <<"knx", 9600, 36>>,
   <<"knx", 19200, 1>>, <<"knx", 19200, 63>>,
   <<"knx", 115200, 2>>, <<"knx", 115200, 63>>,
   <<"test", 9600, 1>>, <<"test", 9600, 17>>, <<"test", 9600, 63>>,
   <<"0116", 19200, 16>>, <<"0116", 19200, 17>>, <<"0116", 19200, 63>>}
=============================================================================
