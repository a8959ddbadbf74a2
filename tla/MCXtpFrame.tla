----------------------------- MODULE MCXtpFrame -----------------------------
EXTENDS XtpFrame

Sent(id, seq, data) == [id |-> id, seq |-> seq, data |-> data, none |-> FALSE]

\* A frame without payload; payloads whose first byte could be taken for the
\* LEN of a frame that lost a byte of its header; one that holds the START
\* bytes; one that holds the end of a frame, which a damaged LEN brings out;
\* and a frame whose CRC is the same without its fifth byte.
SentMessages ==
    {Sent(259, 128, <<>>), Sent(5, 1, <<0>>), Sent(5, 128, <<2, 7, 9>>),
     Sent(162, 129, <<192, 222>>),
     Sent(3, 2, <<7>> \o Encode(<<7>>) \o <<0, 0, STOP1, STOP2>>),
     Sent(40759, 75, <<1, 199>>)}

=============================================================================
