------------------------------ MODULE MCSeries ------------------------------
EXTENDS Series
=============================================================================
