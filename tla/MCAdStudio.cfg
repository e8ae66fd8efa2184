CONSTANTS
  None = None
  Thrown = Thrown
  MaxItems = 3
  MaxTotalAssetSize = 512000
  Orders <- MCOrders
  CopyReplies <- MCCopyReplies
  ImageReplies <- MCImageReplies
  VideoReplies <- MCVideoReplies
  Sanitized <- MCSanitized
SPECIFICATION Spec
INVARIANTS CopyFitsItsPlacement ShotsFitTheirPlacement GatesAgree RowsAreTracked
CHECK_DEADLOCK FALSE
