SPECIFICATION HandlerSpec
CONSTANTS
    Sender = {ann, bob}
    Nonces = {0}
    MaxOps = 2
    MaxLogs = 5
INVARIANTS ReceiptLogsAreOwn
