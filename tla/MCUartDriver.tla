---------------------------- MODULE MCUartDriver ----------------------------
EXTENDS UartDriver
=============================================================================
