------------------------------ MODULE Screenshot ------------------------------
(***************************************************************************)
(* The region and scale of a screenshot (apc-protocol/src/screenshot.rs),  *)
(* as operators.  A frame is its width and height; a pixel of the result   *)
(* is the pair of source coordinates it was copied from.  A scale is a     *)
(* fraction [num, den], with den = 0 for the values that are not finite.   *)
(* Unsigned 32-bit integers end at U32Max, signed ones at half of it.      *)
(***************************************************************************)
EXTENDS Integers

CONSTANTS U32Max,     \* u32::MAX
          MaxPixels   \* MAX_SCREENSHOT_PIXELS

ASSUME ScreenshotAssumption == U32Max \in Nat \ {0} /\ MaxPixels \in Nat \ {0}

\* checked_image_len: the number of pixels, when they are few enough.
FitsLimit(width, height) == width * height <= MaxPixels

\* The sum of two u32, where it does not overflow.
Overflows(a, b) == a + b > U32Max
Add32(a, b) == (a + b) % (U32Max + 1)

RegionAcceptedWrapping(width, height, region) ==
  /\ region.x >= 0 /\ region.y >= 0
  /\ region.width # 0 /\ region.height # 0
  /\ Add32(region.x, region.width) <= width
  /\ Add32(region.y, region.height) <= height

\* validate_region: x and y are signed and are reinterpreted once they are
\* known not to be negative.
RegionAccepted(width, height, region) ==
  /\ region.x >= 0 /\ region.y >= 0
  /\ region.width # 0 /\ region.height # 0
  /\ ~ Overflows(region.x, region.width)
  /\ ~ Overflows(region.y, region.height)
  /\ Add32(region.x, region.width) <= width
  /\ Add32(region.y, region.height) <= height

\* scaled_dimension: rounded half away from zero, at least one pixel.
ScaleAccepted(scale) == scale.den > 0 /\ scale.num > 0
Scaled(source, scale) == (2 * source * scale.num + scale.den) \div (2 * scale.den)
DimensionAccepted(scaled) == scaled \in 1..U32Max

\* crop_rgba followed by resize_nearest_rgba: where the pixel (x, y) of a
\* result of the given size comes from.
SourcePixel(region, width, height, x, y) ==
  << region.x + (x * region.width) \div width,
     region.y + (y * region.height) \div height >>

\* apply_capture_options on a frame of frameWidth by frameHeight pixels.
CaptureOptionsAccepted(frameWidth, frameHeight, region, scale) ==
  /\ FitsLimit(frameWidth, frameHeight)
  /\ RegionAccepted(frameWidth, frameHeight, region)
  /\ ScaleAccepted(scale)
  /\ DimensionAccepted(Scaled(region.width, scale))
  /\ DimensionAccepted(Scaled(region.height, scale))
  /\ FitsLimit(Scaled(region.width, scale), Scaled(region.height, scale))

ScaledPixels(region, scale) ==
  LET width  == Scaled(region.width, scale)
      height == Scaled(region.height, scale)
  IN [p \in (0..(width - 1)) \X (0..(height - 1)) |->
        SourcePixel(region, width, height, p[1], p[2])]
=============================================================================
